------------------------------ MODULE Payouts ------------------------------
(***************************************************************************)
(* Creator withdrawals: creatorsvc.Service over its KYC, profile and       *)
(* payout repos and the ledger.  RequestPayout reads its gates one after   *)
(* another, posts the debit and then stores the payout; admins move a      *)
(* payout through its states under the payout row's lock; rejecting and    *)
(* failing post the compensating transaction inside that lock.  Requests   *)
(* and admins run concurrently, and a review may be cut off after its      *)
(* reversal was posted (a failed commit, a crash).                         *)
(***************************************************************************)
EXTENDS LedgerOps, FiniteSets

CONSTANTS
    Requests,           \* goroutines serving POST /payouts
    Admins,             \* goroutines serving an admin
    Creators,           \* the users who withdraw
    Fan,                \* the user whose gifts they earn from
    GiftCoins,          \* what a gift costs
    MinimumWithdrawal,  \* PayoutThresholdDiamonds, or the country's own
    PayoutKeys,         \* Idempotency-Keys of POST /payouts
    Ask,                \* Ask[k]: what the request under key k asks, [account, amount]
    MaxGifts,           \* bound on gifts
    MaxPayouts,         \* bound on payouts
    MaxCuts             \* bound on reviews cut off

PayoutKey(k) == <<"payout", k>>
ReversalKey(p) == <<"payout-reversal", p>>
GiftKey(n) == <<"gift", n>>
OpeningKey == <<"opening", Fan>>

ASSUME PayoutsAssumption ==
    /\ Creators \subseteq Users /\ Fan \in Users \ Creators
    /\ GiftCoins \in Nat \ {0} /\ MinimumWithdrawal \in Nat \ {0}
    /\ MaxGifts \in Nat /\ MaxPayouts \in Nat /\ MaxCuts \in Nat
    /\ \A k \in PayoutKeys : Ask[k] \in [account : Creators, amount : Nat]
    /\ Keys = {PayoutKey(k) : k \in PayoutKeys} \cup {ReversalKey(p) : p \in 1..MaxPayouts}
              \cup {GiftKey(n) : n \in 1..MaxGifts} \cup {OpeningKey}

VARIABLES
    kyc,        \* KYCRepo: each creator's status
    submitting, \* the creators with a SubmitKYC between its check and its write
    profiled,   \* PayoutProfileRepo: the creators with a payout profile
    ledger,     \* LedgerOps' ledger
    aged,       \* transactions up to this one are older than PayoutHoldPeriod
    payouts,    \* PayoutRepo: payouts[p] is the payout with id p
    locked,     \* locked[p]: the status a reject or fail of p is about to write
    req,        \* each request's local state
    admin,      \* each admin goroutine's local state
    cut         \* history: the payouts a review of which was cut off

vars == <<kyc, submitting, profiled, ledger, aged, payouts, locked, req, admin, cut>>
gates == <<kyc, submitting, profiled>>

Statuses == {"requested", "approved", "rejected", "processing", "paid", "failed"}
Payout == [account : Creators, amount : Nat, status : Statuses, tx : Nat, reversal : Nat]

Ids == DOMAIN payouts

(* isReserved *)
Reserved == {"requested", "approved", "processing"}

NoKey == "none"
IdleReq == [pc |-> "idle", key |-> NoKey, available |-> 0, tx |-> 0]
IdleAdmin == [pc |-> "idle", id |-> 0]

Init ==
    /\ kyc = [u \in Creators |-> "none"]
    /\ submitting = {} /\ profiled = {}
    /\ ledger = Post(NewMemLedger, "promo", OpeningKey,
                     CreditEntries(Fan, MaxGifts * GiftCoins)).ledger
    /\ aged = 0
    /\ payouts = << >>
    /\ locked = [p \in 1..MaxPayouts |-> "none"]
    /\ req = [r \in Requests |-> IdleReq]
    /\ admin = [a \in Admins |-> IdleAdmin]
    /\ cut = {}

-----------------------------------------------------------------------------
(* The creator's file, earnings and time *)

(* SubmitKYC refuses a verified creator, then writes without looking again; *)
(* submitting a pending file once more would leave it pending.              *)
SubmitKYC(u) ==
    /\ \/ /\ u \notin submitting /\ kyc[u] = "none"
          /\ submitting' = submitting \cup {u}
          /\ UNCHANGED kyc
       \/ /\ u \in submitting
          /\ submitting' = submitting \ {u}
          /\ kyc' = [kyc EXCEPT ![u] = "pending"]
    /\ UNCHANGED <<profiled, ledger, aged, payouts, locked, req, admin, cut>>

(* Decide, with or without a submission. *)
DevApproveKYC(u) ==
    /\ kyc[u] # "verified"
    /\ kyc' = [kyc EXCEPT ![u] = "verified"]
    /\ UNCHANGED <<submitting, profiled, ledger, aged, payouts, locked, req, admin,
                   cut>>

SetPayoutProfile(u) ==
    /\ u \notin profiled
    /\ profiled' = profiled \cup {u}
    /\ UNCHANGED <<kyc, submitting, ledger, aged, payouts, locked, req, admin, cut>>

ReceiveGift(u, n) ==
    /\ ledger.byKey[GiftKey(n)] = 0 /\ \A m \in 1..(n - 1) : ledger.byKey[GiftKey(m)] # 0
    /\ ledger' = Post(ledger, "gift", GiftKey(n), SpendEntries(Fan, u, GiftCoins)).ledger
    /\ UNCHANGED <<gates, aged, payouts, locked, req, admin, cut>>

(* Time matters only to what credits a creator with diamonds. *)
Earns(i) == \E u \in Creators : Diamonds(u) \in DOMAIN ledger.byID[i].entries
                              /\ ledger.byID[i].entries[Diamonds(u)] > 0

TimePasses ==
    /\ aged' \in {i \in (aged + 1)..ledger.seq : Earns(i)}
    /\ UNCHANGED <<gates, ledger, payouts, locked, req, admin, cut>>

-----------------------------------------------------------------------------
(* RequestPayout *)

AccountOf(r) == Ask[req[r].key].account
AmountOf(r) == Ask[req[r].key].amount
AtReq(r, pc) == req[r].pc = pc
Answer(r) == req' = [req EXCEPT ![r] = IdleReq]

(* GetEarningsSummary's first read: what was ever earned and is older than  *)
(* the hold period, whatever has been paid out of it since.                 *)
EarnedUpTo(L, u, last) ==
    SumFunction([i \in DOMAIN L.byAcct[Diamonds(u)] |->
        LET item == L.byAcct[Diamonds(u)][i] IN
        IF item.amount > 0 /\ item.tx <= last THEN item.amount ELSE 0])

(* Mutant of RequestPayout: earnings count from the moment they arrive. *)
RequestPayoutAtOnce(r, k) ==
    LET u == Ask[k].account IN
    /\ AtReq(r, "idle")
    /\ kyc[u] = "verified"
    /\ u \in profiled
    /\ req' = [req EXCEPT ![r] = [IdleReq EXCEPT !.pc = "balance", !.key = k,
                                   !.available = EarnedUpTo(ledger, u, ledger.seq)]]
    /\ UNCHANGED <<gates, ledger, aged, payouts, locked, admin, cut>>

(* KYC, payout profile and standing: a request that passes goes on to the   *)
(* earnings.  The standing is auth's answer, and either one is possible.    *)
RequestPayout(r, k) ==
    LET u == Ask[k].account IN
    /\ AtReq(r, "idle")
    /\ kyc[u] = "verified"
    /\ u \in profiled
    /\ req' = [req EXCEPT ![r] = [IdleReq EXCEPT !.pc = "balance", !.key = k,
                                                !.available = EarnedUpTo(ledger, u, aged)]]
    /\ UNCHANGED <<gates, ledger, aged, payouts, locked, admin, cut>>

(* The summary's second read, the cap: no more than the balance. *)
ReadBalance(r) ==
    LET balance == ledger.balances[Diamonds(AccountOf(r))] IN
    /\ AtReq(r, "balance")
    /\ req' = [req EXCEPT ![r].pc = "inflight",
                          ![r].available = IF @ > balance THEN balance ELSE @]
    /\ UNCHANGED <<gates, ledger, aged, payouts, locked, admin, cut>>

PendingOrProcessingTotal(u) ==
    SumFunctionOnSet([p \in Ids |-> payouts[p].amount],
                     {p \in Ids : payouts[p].account = u /\ payouts[p].status \in Reserved})

(* Net of what is in flight, then the threshold and the amount. *)
CheckAmount(r) ==
    LET available == req[r].available - PendingOrProcessingTotal(AccountOf(r)) IN
    /\ AtReq(r, "inflight")
    /\ IF available >= MinimumWithdrawal /\ AmountOf(r) \in 1..available
       THEN req' = [req EXCEPT ![r].pc = "post", ![r].available = 0]
       ELSE Answer(r)
    /\ UNCHANGED <<gates, ledger, aged, payouts, locked, admin, cut>>

PostPayout(r) ==
    LET reply == Post(ledger, "payout", PayoutKey(req[r].key),
                      PayoutEntries(AccountOf(r), AmountOf(r)))
    IN
    /\ AtReq(r, "post")
    /\ ledger' = reply.ledger
    /\ IF reply.err = "nil" THEN req' = [req EXCEPT ![r].pc = "create", ![r].tx = reply.tx]
       ELSE Answer(r)
    /\ UNCHANGED <<gates, aged, payouts, locked, admin, cut>>

CreatePayout(r) ==
    /\ AtReq(r, "create")
    /\ Len(payouts) < MaxPayouts
    /\ payouts' = Append(payouts, [account |-> AccountOf(r), amount |-> AmountOf(r),
                                   status |-> "requested", tx |-> req[r].tx, reversal |-> 0])
    /\ Answer(r)
    /\ UNCHANGED <<gates, ledger, aged, locked, admin, cut>>

-----------------------------------------------------------------------------
(* Admin transitions.  Update locks the row, so that a payout in locked     *)
(* can be neither transitioned nor reviewed by another admin.               *)

From(target) ==
    CASE target = "approved"   -> {"requested"}
      [] target = "processing" -> {"approved"}
      [] target = "paid"       -> {"processing"}
      [] target = "rejected"   -> {"requested", "approved"}
      [] target = "failed"     -> {"processing"}

Free(p) == locked[p] = "none"

(* transitionPayout: Get and the first check... *)
LoadPayout(a, p, target) ==
    /\ admin[a] = IdleAdmin
    /\ payouts[p].status \in From(target)
    /\ admin' = [admin EXCEPT ![a] = [pc |-> target, id |-> p]]
    /\ UNCHANGED <<gates, ledger, aged, payouts, locked, req, cut>>

(* Mutant of Transition: trusts the copy it loaded. *)
TransitionUnchecked(a) ==
    LET p == admin[a].id
        target == admin[a].pc
    IN
    /\ target # "idle" /\ Free(p)
    /\ payouts' = [payouts EXCEPT ![p].status = target]
    /\ admin' = [admin EXCEPT ![a] = IdleAdmin]
    /\ UNCHANGED <<gates, ledger, aged, locked, req, cut>>

(* ...then Update, which checks again under the lock. *)
Transition(a) ==
    LET p == admin[a].id
        target == admin[a].pc
    IN
    /\ target # "idle" /\ Free(p)
    /\ payouts' = IF payouts[p].status \in From(target)
                  THEN [payouts EXCEPT ![p].status = target] ELSE payouts
    /\ admin' = [admin EXCEPT ![a] = IdleAdmin]
    /\ UNCHANGED <<gates, ledger, aged, locked, req, cut>>

ReversalEntries(u, diamonds) == Negated(PayoutEntries(u, diamonds))

(* Mutant of ReversePayout: no check of the status. *)
ReverseAnyPayout(p, target) ==
    LET reply == Post(ledger, "payout_reversal", ReversalKey(p),
                      ReversalEntries(payouts[p].account, payouts[p].amount))
    IN
    /\ Free(p)
    /\ ledger' = reply.ledger
    /\ locked' = [locked EXCEPT ![p] = target]
    /\ UNCHANGED <<gates, aged, payouts, req, admin, cut>>

(* rejectOrFail: the check and the reversal, under the lock... *)
ReversePayout(p, target) ==
    LET reply == Post(ledger, "payout_reversal", ReversalKey(p),
                      ReversalEntries(payouts[p].account, payouts[p].amount))
    IN
    /\ Free(p)
    /\ payouts[p].status \in From(target)
    /\ ledger' = reply.ledger
    /\ locked' = [locked EXCEPT ![p] = target]
    /\ UNCHANGED <<gates, aged, payouts, req, admin, cut>>

(* ...and the commit, which releases it... *)
CommitReview(p) ==
    /\ ~ Free(p)
    /\ payouts' = [payouts EXCEPT ![p].status = locked[p],
                                  ![p].reversal = ledger.byKey[ReversalKey(p)]]
    /\ locked' = [locked EXCEPT ![p] = "none"]
    /\ UNCHANGED <<gates, ledger, aged, req, admin, cut>>

(* ...or does not happen: the row is rolled back, the ledger is not. *)
CutReview(p) ==
    /\ ~ Free(p)
    /\ Cardinality(cut) < MaxCuts
    /\ locked' = [locked EXCEPT ![p] = "none"]
    /\ cut' = cut \cup {p}
    /\ UNCHANGED <<gates, ledger, aged, payouts, req, admin>>

-----------------------------------------------------------------------------

Next ==
    \/ \E u \in Creators :
        \/ SubmitKYC(u) \/ DevApproveKYC(u) \/ SetPayoutProfile(u)
        \/ \E n \in 1..MaxGifts : ReceiveGift(u, n)
    \/ TimePasses
    \/ \E r \in Requests :
        \/ \E k \in PayoutKeys : RequestPayout(r, k)
        \/ ReadBalance(r) \/ CheckAmount(r)
        \/ PostPayout(r) \/ CreatePayout(r)
    \/ \E a \in Admins :
        \/ \E p \in Ids, target \in {"approved", "processing", "paid"} : LoadPayout(a, p, target)
        \/ Transition(a)
    \/ \E p \in Ids :
        \/ \E target \in {"rejected", "failed"} : ReversePayout(p, target)
        \/ CommitReview(p) \/ CutReview(p)

Spec == Init /\ [][Next]_vars

-----------------------------------------------------------------------------
(* Properties *)

(* "Payout blocked within hold period": no single withdrawal takes more     *)
(* than the creator had ever earned and held for the whole hold period.     *)
NoneBeforeTheHold ==
    \A i \in 1..ledger.seq, u \in Creators :
        ledger.byID[i].kind = "payout" /\ Diamonds(u) \in DOMAIN ledger.byID[i].entries =>
            - ledger.byID[i].entries[Diamonds(u)] <= EarnedUpTo(ledger, u, aged)

(* "A reversal exists if and only if the payout ended up rejected" (or      *)
(* failed): when no review of a payout is under way or was cut off, its     *)
(* reversal is in the ledger exactly when its status says so, and gives     *)
(* back what the record names; a payout marked paid keeps its debit.        *)
ReversedIffReturned ==
    \A p \in Ids :
        LET tx == ledger.byKey[ReversalKey(p)] IN
        /\ payouts[p].status \in {"rejected", "failed"} =>
               /\ tx # 0 /\ payouts[p].reversal = tx
               /\ ledger.byID[tx].entries = ReversalEntries(payouts[p].account, payouts[p].amount)
        /\ tx # 0 /\ Free(p) /\ p \notin cut => payouts[p].status \in {"rejected", "failed"}

(* "An admin action can never skip a step or act on an already-terminal     *)
(* payout": however many admins act on stale copies, a stored payout only   *)
(* moves along the state machine, and nothing else of it changes.           *)
AlongTheStateMachine ==
    [][\A p \in Ids :
        /\ p \in Ids'
        /\ \/ payouts'[p] = payouts[p]
           \/ /\ payouts[p].status \in From(payouts'[p].status)
              /\ [payouts'[p] EXCEPT !.status = payouts[p].status,
                                     !.reversal = payouts[p].reversal] = payouts[p]]_vars

(* What the ledger has moved on a wallet's diamonds under one kind, and the  *)
(* gifts among it that are older than the hold period.                      *)
TotalOf(u, kind) ==
    SumFunction([i \in 1..ledger.seq |->
        IF ledger.byID[i].kind = kind /\ Diamonds(u) \in DOMAIN ledger.byID[i].entries
        THEN ledger.byID[i].entries[Diamonds(u)] ELSE 0])

HeldEarnings(u) ==
    SumFunction([i \in 1..aged |->
        IF ledger.byID[i].kind = "gift" /\ Diamonds(u) \in DOMAIN ledger.byID[i].entries
        THEN ledger.byID[i].entries[Diamonds(u)] ELSE 0])

(* "Minimum hold period elapsed since the diamonds were earned": all that   *)
(* was ever withdrawn and not given back had been earned and held.          *)
HoldPeriodElapsed ==
    \A u \in Creators :
        - (TotalOf(u, "payout") + TotalOf(u, "payout_reversal")) <= HeldEarnings(u)

(* POST /payouts is "Idempotent": repeating a request never returns more    *)
(* diamonds to a creator than his withdrawals took.                         *)
ReturnsNoMoreThanTaken ==
    \A u \in Creators : TotalOf(u, "payout_reversal") <= - TotalOf(u, "payout")
=============================================================================
