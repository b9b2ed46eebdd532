------------------------------ MODULE Earnings -------------------------------
(****************************************************************************)
(* KYC records, payout profiles and payouts (creator/creatorsvc over        *)
(* creator/mem_repo.go and over creator/pgrepo).  What an account may draw, *)
(* and whether the ledger takes a posting, are given here (module Payouts   *)
(* works them out).  In memory a payout is found by its id and through an   *)
(* index of each account's; the table is searched and sorted.               *)
(****************************************************************************)
EXTENDS Stores, FiniteSetsExt, SequencesExt

LegalNames == {"Ann"}               \* bound: inputs; "" is none
PayoutCountries ==
    [c \in {"PK", "IN"} |-> {"bank_transfer", "mobile_wallet"}]
        @@ [c \in {"US", "GB", "AE"} |-> {"bank_transfer", "paypal"}]
Destinations == {<<"PK", "mobile_wallet">>, <<"PK", "paypal">>, <<"FR", "paypal">>}
                                    \* bound: where accounts want to be paid
PayoutMinimum == 10                 \* thousands of diamonds, the same in every country
Unlocked == {10, 20}                \* bound: what the earnings allow to draw
Drawn == {0, 10}                    \* bound: what is asked for
Notes == {"", "note"}               \* bound: what an admin writes
NoPayout == 3                       \* bound: an id no payout has yet

Reserved == {"requested", "approved", "processing"}

NoEarnings == [kyc |-> <<>>, payouts |-> <<>>, byAcct |-> <<>>, profiles |-> <<>>]
NoEarningRows == [kyc |-> {}, payouts |-> {}, profiles |-> {}]

(* the state machine of a payout: action, from, to *)
PayoutSteps ==
    [approve |-> [from |-> {"requested"}, to |-> "approved"],
     reject |-> [from |-> {"requested", "approved"}, to |-> "rejected"],
     process |-> [from |-> {"approved"}, to |-> "processing"],
     pay |-> [from |-> {"processing"}, to |-> "paid"],
     fail |-> [from |-> {"processing"}, to |-> "failed"]]

Reversing(action) == action \in {"reject", "fail"}

NewPayout(n, a, amount) ==
    [id |-> n, acct |-> a, amount |-> amount, status |-> "requested", note |-> "", reason |-> "",
     reversed |-> FALSE, reference |-> ""]

Moved(p, action, text) ==
    [p EXCEPT !.status = PayoutSteps[action].to,
              !.note = IF action = "approve" \/ Reversing(action) THEN text ELSE @,
              !.reason = IF Reversing(action) THEN text ELSE @,
              !.reversed = @ \/ Reversing(action),
              !.reference = IF action = "pay" THEN text ELSE @]

SetsNoProfile(d) ==
    CASE d[1] \notin DOMAIN PayoutCountries -> <<"country">>
      [] d[2] \notin PayoutCountries[d[1]] -> <<"method">>
      [] OTHER -> <<>>

(* the gates of RequestPayout, in their order *)
PayoutRefusal(kyc, profile, restricted, unlocked, inFlight, amount) ==
    LET available == unlocked - inFlight
    IN  CASE kyc.status # "verified" -> <<"kyc">>
          [] profile = <<>> -> <<"profile">>
          [] restricted -> <<"restricted">>
          [] available < PayoutMinimum -> <<"threshold">>
          [] amount <= 0 \/ amount > available -> <<"amount">>
          [] OTHER -> <<>>

-----------------------------------------------------------------------------
(* In memory *)

NoRecord(a) == [acct |-> a, status |-> "none", name |-> "", decided |-> FALSE]

MemKyc(m, a) == IF a \in DOMAIN m.kyc THEN m.kyc[a] ELSE NoRecord(a)

MemSubmit(m, a, name) ==
    LET rec == [acct |-> a, status |-> "pending", name |-> name, decided |-> FALSE]
    IN  CASE name = "" -> Says(m, <<"name">>)
          [] MemKyc(m, a).status = "verified" -> Says(m, <<"verified">>)
          [] OTHER -> Says([m EXCEPT !.kyc = (a :> rec) @@ @], Given(rec))

MemApproveKyc(m, a) ==
    LET rec == [MemKyc(m, a) EXCEPT !.status = "verified", !.decided = TRUE]
    IN  Says([m EXCEPT !.kyc = (a :> rec) @@ @], Given(rec))

MemProfile(m, a) == IF a \in DOMAIN m.profiles THEN m.profiles[a] ELSE <<>>

MemSetProfile(m, a, d) ==
    IF SetsNoProfile(d) # <<>>
    THEN Says(m, SetsNoProfile(d))
    ELSE Says([m EXCEPT !.profiles = (a :> d) @@ @], Given(d))

MemIds(m, a) == IF a \in DOMAIN m.byAcct THEN m.byAcct[a] ELSE <<>>

MemInFlight(m, a) ==
    LET held == {n \in Range(MemIds(m, a)) : m.payouts[n].status \in Reserved}
    IN  MapThenSumSet(LAMBDA n : m.payouts[n].amount, held)

MemRequest(m, a, restricted, unlocked, amount) ==
    LET no == PayoutRefusal(MemKyc(m, a), MemProfile(m, a), restricted, unlocked,
                            MemInFlight(m, a), amount)
        n == Len(m.payouts) + 1
        new == NewPayout(n, a, amount)
    IN  IF no # <<>>
        THEN Says(m, no)
        ELSE Says([m EXCEPT !.payouts = Append(@, new),
                            !.byAcct = (a :> Append(MemIds(m, a), n)) @@ @], Given(new))

MemTransition(m, n, action, text, returned) ==
    CASE action = "pay" /\ text = "" -> Says(m, <<"transition">>)
      [] n \notin DOMAIN m.payouts -> Says(m, <<"not found">>)
      [] m.payouts[n].status \notin PayoutSteps[action].from -> Says(m, <<"transition">>)
      [] Reversing(action) /\ ~returned -> Says(m, <<"ledger">>)
      [] OTHER -> LET new == Moved(m.payouts[n], action, text)
                  IN  Says([m EXCEPT !.payouts[n] = new], Given(new))

LatestFirst(payouts) == SetToSortSeq(payouts, LAMBDA x, y : x.id > y.id)

MemListPayouts(m, a) == LatestFirst({m.payouts[n] : n \in Range(MemIds(m, a))})

MemListAll(m, status) == LatestFirst({p \in Range(m.payouts) : status \in {"", p.status}})

-----------------------------------------------------------------------------
(* In Postgres *)

KycRow(p, a) == {r \in p.kyc : r.acct = a}

PgKyc(p, a) == IF KycRow(p, a) = {} THEN NoRecord(a) ELSE CHOOSE r \in KycRow(p, a) : TRUE

(* INSERT ... ON CONFLICT (account_id) DO UPDATE *)
PgUpsertKyc(p, new) ==
    Says([p EXCEPT !.kyc = (@ \ KycRow(p, new.acct)) \cup {new}], Given(new))

PgSubmit(p, a, name) ==
    CASE name = "" -> Says(p, <<"name">>)
      [] PgKyc(p, a).status = "verified" -> Says(p, <<"verified">>)
      [] OTHER -> PgUpsertKyc(p, [acct |-> a, status |-> "pending", name |-> name,
                                  decided |-> FALSE])

PgApproveKyc(p, a) == PgUpsertKyc(p, [PgKyc(p, a) EXCEPT !.status = "verified", !.decided = TRUE])

PgProfileRow(p, a) == {r \in p.profiles : r.acct = a}

PgProfile(p, a) ==
    IF PgProfileRow(p, a) = {} THEN <<>> ELSE (CHOOSE r \in PgProfileRow(p, a) : TRUE).to

PgSetProfile(p, a, d) ==
    IF SetsNoProfile(d) # <<>>
    THEN Says(p, SetsNoProfile(d))
    ELSE Says([p EXCEPT !.profiles = (@ \ PgProfileRow(p, a)) \cup {[acct |-> a, to |-> d]}],
              Given(d))

PgInFlight(p, a) ==
    LET held == {r \in p.payouts : r.acct = a /\ r.status \in {"requested", "approved", "processing"}}
    IN  MapThenSumSet(LAMBDA r : r.amount, held)

PgRequest(p, a, restricted, unlocked, amount) ==
    LET no == PayoutRefusal(PgKyc(p, a), PgProfile(p, a), restricted, unlocked,
                            PgInFlight(p, a), amount)
        new == NewPayout(Cardinality(p.payouts) + 1, a, amount)
    IN  IF no # <<>>
        THEN Says(p, no)
        ELSE Says([p EXCEPT !.payouts = @ \cup {new}], Given(new))

(* SELECT ... FOR UPDATE, mutate, UPDATE: a mutation that fails is rolled back *)
PgTransition(p, n, action, text, returned) ==
    LET rows == {r \in p.payouts : r.id = n}
        old == CHOOSE r \in rows : TRUE
        new == Moved(old, action, text)
    IN  CASE action = "pay" /\ text = "" -> Says(p, <<"transition">>)
          [] rows = {} -> Says(p, <<"not found">>)
          [] old.status \notin PayoutSteps[action].from -> Says(p, <<"transition">>)
          [] Reversing(action) /\ ~returned -> Says(p, <<"ledger">>)
          [] OTHER -> Says([p EXCEPT !.payouts = (@ \ rows) \cup {new}], Given(new))

PgListPayouts(p, a) == LatestFirst({r \in p.payouts : r.acct = a})

PgListAll(p, status) == LatestFirst({r \in p.payouts : status = "" \/ r.status = status})

-----------------------------------------------------------------------------
(* The requests, in the order of their routes *)

AskKyc(a) ==
    \E name \in LegalNames \cup {""} : Ask("earnings", MemSubmit(Mem, a, name), PgSubmit(Pg, a, name))

AskApproveKyc(a) == Ask("earnings", MemApproveKyc(Mem, a), PgApproveKyc(Pg, a))

AskPayout(a) ==
    \E restricted \in BOOLEAN, unlocked \in Unlocked, amount \in Drawn :
        Ask("earnings", MemRequest(Mem, a, restricted, unlocked, amount),
                        PgRequest(Pg, a, restricted, unlocked, amount))

AskPayoutProfile(a) ==
    \E d \in Destinations : Ask("earnings", MemSetProfile(Mem, a, d), PgSetProfile(Pg, a, d))

AskTransition(n) ==
    \E action \in DOMAIN PayoutSteps, text \in Notes, returned \in BOOLEAN :
        Ask("earnings", MemTransition(Mem, n, action, text, returned),
                        PgTransition(Pg, n, action, text, returned))

EarningsNext ==
    \/ \E a \in AccountIds : AskKyc(a) \/ AskApproveKyc(a) \/ AskPayout(a) \/ AskPayoutProfile(a)
    \/ \E n \in 1..NoPayout : AskTransition(n)

(* What the two hold reads the same: records, profiles, what is in flight, the lists of an
   account and of the admin, and the number of payouts that wait. *)
EarningsReadAlike ==
    /\ \A a \in AccountIds :
        /\ MemKyc(Mem, a) = PgKyc(Pg, a)
        /\ MemProfile(Mem, a) = PgProfile(Pg, a)
        /\ MemInFlight(Mem, a) = PgInFlight(Pg, a)
        /\ MemListPayouts(Mem, a) = PgListPayouts(Pg, a)
    /\ \A status \in {"", "requested", "paid", "failed"} :
        MemListAll(Mem, status) = PgListAll(Pg, status)
=============================================================================
