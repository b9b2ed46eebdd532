------------------------------- MODULE PvCall -------------------------------
(***************************************************************************)
(* Paid private calls: pvsvc.Service over its session repo and the ledger. *)
(* A request charges the first minute as a hold before the callee rings;   *)
(* accept, decline and end each load the session, work on the copy and     *)
(* write the whole copy back, with ledger calls in between.  Several       *)
(* request goroutines run at once, and any of them may stop between two    *)
(* steps (its client disconnects, or a statement fails).                   *)
(*                                                                         *)
(* The Idempotency-Key of a request is the ledger's key as it came: clients *)
(* use the same keys for gifts, and for requests that ask for something    *)
(* else, and nobody looks whether the transaction found under a key is the *)
(* one that was asked for.  Only the keys the server makes (pv-settle-,    *)
(* pv-hold-reverse-) are taken not to be sent by clients.                  *)
(***************************************************************************)
EXTENDS LedgerOps, FiniteSets

CONSTANTS
    MaxRunners,     \* bound on the requests served at once
    MaxSessions,    \* bound on the session ids NewSessionID mints
    ClientKeys,     \* Idempotency-Keys clients send
    Asks,           \* what they may ask for, [caller, callee, rate]
    Opening,        \* the coins every caller starts with
    MaxMinutes,     \* bound on the length of a call
    MaxMoves,       \* bound on the other movements of money
    MaxFailures     \* bound on runs that stop half way and calls that fail

Sessions == 1..MaxSessions
Runners == 1..MaxRunners    \* request goroutines
NoSession == 0

ClientKey(k) == <<"client", k>>
HoldReverseKey(s) == <<"pv-hold-reverse", s>>
SettleKey(s) == <<"pv-settle", s>>
CashOutKey(u) == <<"cash-out", u>>
OpeningKey(u) == <<"opening", u>>

ASSUME PvAssumption ==
    /\ ClientKeys # {} /\ Asks # {}
    /\ Asks \subseteq [caller : Users, callee : Users, rate : Nat \ {0}]
    /\ \A ask \in Asks : ask.caller # ask.callee         \* ErrSelfCall
    /\ Keys = {ClientKey(k) : k \in ClientKeys} \cup {HoldReverseKey(s) : s \in Sessions}
              \cup {SettleKey(s) : s \in Sessions} \cup {CashOutKey(u) : u \in Users}
              \cup {OpeningKey(u) : u \in Users}
    /\ Opening \in Nat \ {0} /\ MaxMinutes \in Nat \ {0} /\ MaxFailures \in Nat
    /\ MaxSessions \in Nat \ {0} /\ MaxRunners \in Nat \ {0} /\ MaxMoves \in Nat

VARIABLES
    session,    \* the session repo
    ledger,     \* LedgerOps' ledger
    run,        \* each goroutine's local state
    named,      \* named[k]: the session_id in the metadata of k's transaction
    failures,   \* how often something has failed
    accepted,   \* history: the sessions some accept has ever been written for
    uses,       \* history: what clients have had charged, or answered for, under each key
    lost        \* history: the sessions a reversal of whose hold has failed

history == <<accepted, uses, lost>>
vars == <<session, ledger, run, named, failures, history>>

States == {"absent", "requested", "accepted", "declined", "ended"}

(* A session's row: what was asked, HoldTransactionID and ConsumedCoins.    *)
Row == [state : States, ask : Asks, hold : Nat, consumed : Nat]

Steps == {"idle", "charge", "create", "accept", "decline", "cancel", "settle",
          "bill", "write"}

AnyKey == CHOOSE k \in ClientKeys : TRUE
AnyAsk == CHOOSE ask \in Asks : TRUE
Absent == [state |-> "absent", ask |-> AnyAsk, hold |-> 0, consumed |-> 0]
Idle == [pc |-> "idle", id |-> 1, key |-> AnyKey, copy |-> Absent]

(* What the first minute of a call is to cost, as a kind and entries. *)
FirstMinute(ask) ==
    [kind |-> "pv_call", entries |-> SpendEntries(ask.caller, ask.callee, ask.rate)]

(* The client has been answered under key k with what it used it for. *)
Uses(k, use) == uses' = [uses EXCEPT ![k] = @ \cup {use}]

Opened(L, u) == Post(L, "promo", OpeningKey(u), CreditEntries(u, Opening)).ledger

Init ==
    /\ session = [s \in Sessions |-> Absent]
    /\ ledger \in {Opened(NewMemLedger, ask.caller) : ask \in Asks}
    /\ run = [r \in Runners |-> Idle]
    /\ named = [k \in ClientKeys |-> NoSession]
    /\ failures = 0
    /\ accepted = {} /\ lost = {}
    /\ uses = [k \in ClientKeys |-> {}]

At(r, pc) == run[r].pc = pc
(* A new request's goroutine: the first free, which one is only a name.     *)
Begin(r) == At(r, "idle") /\ \A q \in 1..(r - 1) : ~ At(q, "idle")

Return(r) == run' = [run EXCEPT ![r] = Idle]

Fail == failures < MaxFailures /\ failures' = failures + 1

-----------------------------------------------------------------------------
(* RequestSession *)

(* NewSessionID: an id nothing has. *)
Fresh(s) ==
    /\ session[s] = Absent
    /\ \A r \in Runners : At(r, "idle") \/ run[r].id # s
    /\ \A k \in ClientKeys : named[k] # s

(* The key's transaction names a session that is stored: that is the answer. *)
Replayed(k) == named[k] # NoSession /\ session[named[k]].state # "absent"

(* An error of the lookup is dropped, and the request goes on as a new one. *)
RequestSession(r, k, ask, s) ==
    /\ Begin(r)
    /\ Fresh(s) /\ \A t \in 1..(s - 1) : ~ Fresh(t)     \* ids in order: they are only names
    /\ IF Replayed(k) THEN Fail ELSE UNCHANGED failures
    /\ run' = [run EXCEPT ![r] =
           [pc |-> "charge", id |-> s, key |-> k,
            copy |-> [Absent EXCEPT !.state = "requested", !.ask = ask]]]
    /\ UNCHANGED <<session, ledger, named, history>>

(* accountActive, ageAssured, isBlocked and calleePermits, other modules'   *)
(* answers, may each end the request; then chargeCoins for the first        *)
(* minute, where a key that is taken gets the transaction there is, whatever *)
(* it was for.                                                              *)
Refuse(r) ==
    /\ At(r, "charge")
    /\ Return(r)
    /\ UNCHANGED <<session, ledger, named, failures, history>>

ChargeFirstMinute(r) ==
    Post(ledger, "pv_call", ClientKey(run[r].key), FirstMinute(run[r].copy.ask).entries)

(* Mutant of ChargeHold: goes on when the charge fails. *)
ChargeHoldOrNot(r) ==
    LET k == run[r].key
        reply == ChargeFirstMinute(r)
    IN
    /\ At(r, "charge")
    /\ ledger' = reply.ledger
    /\ run' = [run EXCEPT ![r].pc = "create", ![r].copy.hold = reply.tx,
                          ![r].copy.consumed = run[r].copy.ask.rate]
    /\ named' = IF reply.isNew THEN [named EXCEPT ![k] = run[r].id] ELSE named
    /\ Uses(k, FirstMinute(run[r].copy.ask))
    /\ UNCHANGED <<session, failures, accepted, lost>>

ChargeHold(r) ==
    LET k == run[r].key
        reply == ChargeFirstMinute(r)
    IN
    /\ At(r, "charge")
    /\ ledger' = reply.ledger
    /\ IF reply.err = "nil"
       THEN /\ run' = [run EXCEPT ![r].pc = "create", ![r].copy.hold = reply.tx,
                                  ![r].copy.consumed = run[r].copy.ask.rate]
            /\ Uses(k, FirstMinute(run[r].copy.ask))
       ELSE Return(r) /\ UNCHANGED uses
    /\ named' = IF reply.isNew THEN [named EXCEPT ![k] = run[r].id] ELSE named
    /\ UNCHANGED <<session, failures, accepted, lost>>

Create(r) ==
    /\ At(r, "create")
    /\ session' = [session EXCEPT ![run[r].id] = run[r].copy]
    /\ Return(r)
    /\ UNCHANGED <<ledger, named, failures, history>>

-----------------------------------------------------------------------------
(* AcceptSession, DeclineSession, EndSession: Get and the state check... *)

Load(r, s, pc, copy) ==
    /\ Begin(r)
    /\ run' = [run EXCEPT ![r] = [pc |-> pc, id |-> s, key |-> AnyKey, copy |-> copy]]
    /\ UNCHANGED <<session, ledger, named, failures, history>>

AcceptSession(r, s) ==
    /\ session[s].state = "requested"
    /\ Load(r, s, "write", [session[s] EXCEPT !.state = "accepted"])

DeclineSession(r, s) ==
    /\ session[s].state = "requested"
    /\ Load(r, s, "decline", [session[s] EXCEPT !.state = "declined"])

(* Mutants of EndSession: the hold is kept when an accepted call is billed; *)
(* a call that was never taken is billed too.                               *)
EndSessionKeepingHold(r, s) ==
    \/ /\ session[s].state = "requested"
       /\ Load(r, s, "cancel", [session[s] EXCEPT !.state = "ended"])
    \/ /\ session[s].state = "accepted"
       /\ Load(r, s, "bill", [session[s] EXCEPT !.state = "ended"])

EndSessionBilled(r, s) ==
    /\ session[s].state \in {"requested", "accepted"}
    /\ Load(r, s, "settle", [session[s] EXCEPT !.state = "ended"])

EndSession(r, s) ==
    \/ /\ session[s].state = "requested"
       /\ Load(r, s, "cancel", [session[s] EXCEPT !.state = "ended"])
    \/ /\ session[s].state = "accepted"
       /\ Load(r, s, "settle", [session[s] EXCEPT !.state = "ended"])

(* ...reverseHold, which goes on whatever ReverseTransaction answers: it may *)
(* be refused, or fail before or after the reversal is posted...            *)
GoOn(r, pc, consumed) == run' = [run EXCEPT ![r].pc = pc, ![r].copy.consumed = consumed]

ReverseHold(r, next) ==
    LET reply == Reverse(ledger, run[r].copy.hold, HoldReverseKey(run[r].id)) IN
    /\ GoOn(r, next, 0)
    /\ \/ ledger' = reply.ledger /\ UNCHANGED <<failures, lost>>
       \/ /\ Fail
          /\ ledger' \in {ledger, reply.ledger}
          /\ lost' = lost \cup {run[r].id}
    /\ UNCHANGED <<session, named, accepted, uses>>

RefundHold(r) ==
    /\ At(r, "decline") \/ At(r, "cancel")
    /\ ReverseHold(r, "write")

ReleaseHold(r) ==
    /\ At(r, "settle")
    /\ ReverseHold(r, "bill")

ChargeMinutes(r, minutes) ==
    LET ask == run[r].copy.ask IN
    Post(ledger, "pv_call", SettleKey(run[r].id),
         SpendEntries(ask.caller, ask.callee, minutes * ask.rate))

(* Mutant of Bill: a charge that fails ends the run without hanging up.      *)
BillOrReturn(r, minutes) ==
    LET reply == ChargeMinutes(r, minutes) IN
    /\ At(r, "bill")
    /\ ledger' = reply.ledger
    /\ IF reply.err = "nil" THEN GoOn(r, "write", minutes * run[r].copy.ask.rate)
       ELSE Return(r)
    /\ UNCHANGED <<session, named, failures, history>>

(* ...for an accepted call the charge for its true length: ConsumedCoins    *)
(* becomes that cost whenever the ledger returns a transaction, be it an    *)
(* earlier one under the same key, and stays 0 when it is refused, or fails *)
(* before or after it is posted...                                          *)
Bill(r, minutes) ==
    LET reply == ChargeMinutes(r, minutes) IN
    /\ At(r, "bill")
    /\ \/ /\ ledger' = reply.ledger
          /\ GoOn(r, "write", IF reply.err = "nil" THEN minutes * run[r].copy.ask.rate ELSE 0)
          /\ UNCHANGED failures
       \/ /\ Fail
          /\ ledger' \in {ledger, reply.ledger}
          /\ GoOn(r, "write", 0)
    /\ UNCHANGED <<session, named, history>>

(* ...and Update, which replaces the row by the copy. *)
Update(r) ==
    /\ At(r, "write")
    /\ session' = [session EXCEPT ![run[r].id] = run[r].copy]
    /\ accepted' = IF run[r].copy.state = "accepted" THEN accepted \cup {run[r].id} ELSE accepted
    /\ Return(r)
    /\ UNCHANGED <<ledger, named, failures, uses, lost>>

Abandon(r) ==
    /\ ~ At(r, "idle")
    /\ Fail
    /\ Return(r)
    /\ UNCHANGED <<session, ledger, named, history>>

-----------------------------------------------------------------------------
(* Money that moves meanwhile: a client's coins go into a gift, under a key  *)
(* of its own choice, or a callee is paid his diamonds out.                  *)

Moves == Cardinality({i \in 1..ledger.seq : ledger.byID[i].kind \in {"gift", "payout"}})

Move(kind, key, entries) ==
    /\ Moves < MaxMoves
    /\ ledger' = Post(ledger, kind, key, entries).ledger
    /\ UNCHANGED <<session, run, named, failures, accepted, lost>>

(* A gift under a key that is taken is answered with what is there. *)
SpendElsewhere(u, k) ==
    LET entries == SpendEntries(u, CHOOSE v \in Users : v # u, ledger.balances[Coins(u)]) IN
    /\ ledger.balances[Coins(u)] > 0
    /\ ledger.byKey[ClientKey(k)] = 0
    /\ Move("gift", ClientKey(k), entries)
    /\ Uses(k, [kind |-> "gift", entries |-> entries])

CashOut(u) ==
    /\ ledger.balances[Diamonds(u)] > 0
    /\ Move("payout", CashOutKey(u), PayoutEntries(u, ledger.balances[Diamonds(u)]))
    /\ UNCHANGED uses

-----------------------------------------------------------------------------

Step(r) ==
    \/ Refuse(r)
    \/ ChargeHold(r)
    \/ Create(r)
    \/ RefundHold(r)
    \/ ReleaseHold(r)
    \/ \E minutes \in 1..MaxMinutes : Bill(r, minutes)
    \/ Update(r)

Next ==
    \/ \E r \in Runners :
        \/ \E k \in ClientKeys, ask \in Asks, s \in Sessions : RequestSession(r, k, ask, s)
        \/ \E s \in Sessions : AcceptSession(r, s) \/ DeclineSession(r, s) \/ EndSession(r, s)
        \/ Step(r)
        \/ Abandon(r)
    \/ \E u \in Users : (\E k \in ClientKeys : SpendElsewhere(u, k)) \/ CashOut(u)

Quiet == \A r \in Runners : At(r, "idle")

(* Some goroutine that has work to do goes on (weak fairness, written out:  *)
(* a run that is not idle always has a step), and while calls are connected *)
(* someone eventually hangs up one of them.                                 *)
Fairness ==
    /\ []<>Quiet \/ []<><<\E r \in Runners : Step(r)>>_vars
    /\ SF_vars(\E r \in Runners, s \in Sessions :
                   session[s].state = "accepted" /\ EndSession(r, s))

Spec == Init /\ [][Next]_vars /\ Fairness

-----------------------------------------------------------------------------
(* Properties *)

Hold(s) == session[s].hold
Billed(s) == ledger.byKey[SettleKey(s)] # 0
Reversed(tx) == tx \in DOMAIN ledger.reversalOf

(* What transaction tx was for, and that who got its diamonds was paid out. *)
Use(L, tx) == [kind |-> L.byID[tx].kind, entries |-> L.byID[tx].entries]
PaidOut(L, tx) ==
    \E u \in Users : L.byKey[CashOutKey(u)] # 0 /\ Diamonds(u) \in DOMAIN L.byID[tx].entries

(* "Reserve before ring": every session a callee can see was charged for    *)
(* under its request's key: its hold is the transaction under that key, for *)
(* something the client has used the key for.  So where a client used the   *)
(* key for this alone, the hold is the first minute, from this caller to    *)
(* this callee at this rate, also when two concurrent requests end up as    *)
(* two sessions; where it used the key for something else before, a gift or *)
(* another call, that is all that holds this one.                           *)
HeldBeforeRing ==
    \A s \in Sessions : session[s].state # "absent" =>
        \E k \in ClientKeys :
            /\ Hold(s) # 0 /\ Hold(s) = ledger.byKey[ClientKey(k)]
            /\ {FirstMinute(session[s].ask), Use(ledger, Hold(s))} \subseteq uses[k]

(* "The hold was only ever a gate, not the real bill": a session is over or *)
(* billed only after its hold was given back, or the ledger was asked to    *)
(* and the call failed (reverseHold drops its error), or refused, and that  *)
(* only because whom the hold paid has been paid his diamonds out.          *)
HoldReleasedFirst ==
    \A s \in Sessions :
        session[s].state \in {"declined", "ended"} \/ Billed(s) =>
            Reversed(Hold(s)) \/ s \in lost \/ PaidOut(ledger, Hold(s))

(* "The hold was only ever a gate, not the real bill": a caller is charged  *)
(* for minutes only of a session that was accepted, at its rate, and once,  *)
(* however many runs end the call.                                          *)
OnlyTakenCallsAreBilled ==
    \A s \in Sessions : Billed(s) =>
        /\ s \in accepted
        /\ \E minutes \in 1..MaxMinutes :
              ledger.byID[ledger.byKey[SettleKey(s)]].entries[Coins(session[s].ask.caller)]
                  = - minutes * session[s].ask.rate

(* "A failed top-up charge must never trap two people in a call neither can *)
(* hang up on": a connected call ends, whether or not the caller can pay.   *)
CallsCanBeHungUp ==
    \A s \in Sessions : session[s].state = "accepted" ~> session[s].state # "accepted"

(* "The caller never pays for a call nobody took": once nothing is running, *)
(* the hold of a declined call has been given back.                         *)
DeclinedIsFree ==
    Quiet => \A s \in Sessions :
        session[s].state = "declined" => Reversed(Hold(s))
=============================================================================
