------------------------------- MODULE Orders -------------------------------
(***************************************************************************)
(* Coin purchases: ordersvc.advance, run by request goroutines            *)
(* (POST /orders/{id}/verify) and by the reconciler's RunOnce, over the    *)
(* Postgres order table (ordpgrepo) and the ledger.  Every run works on    *)
(* its own copy of the row and writes the whole copy back, each write,     *)
(* each lookup, the call to the store and the ledger post being a step of  *)
(* its own.  The process may crash between any two of them; rows and       *)
(* ledger survive.                                                         *)
(***************************************************************************)
EXTENDS LedgerOps

CONSTANTS
    Clients,        \* request goroutines
    Reconciler,     \* the reconciler's goroutine
    Orders,         \* order ids
    Tokens,         \* purchase tokens
    Offers,         \* Offers[o]: the tokens its client sends for order o
    Purchases,      \* what may have been bought: sets of pairs <<t, o>>, t being
                    \* the token of a purchase that matches order o
    Buyer,          \* Buyer[o]: the account that placed o
    Price,          \* Price[o]: the coins o buys
    MaxCrashes      \* bound on crashes

NoToken == "none"

ASSUME OrdersAssumption ==
    /\ NoToken \notin Tokens     \* the code's empty string
    /\ Offers \in [Orders -> SUBSET Tokens]
    /\ Purchases \subseteq SUBSET (Tokens \X Orders)
    /\ Buyer \in [Orders -> Users]
    /\ Price \in [Orders -> Nat \ {0}]
    /\ Keys = Orders            \* the ledger key of an order is "order-" + its id
    /\ Reconciler \notin Clients
    /\ MaxCrashes \in Nat

VARIABLES
    order,      \* the rows of ledger_orders
    store,      \* the stores: what was bought, and how each purchase stands
    ledger,     \* LedgerOps' ledger
    run,        \* each goroutine's advance()
    batch,      \* the copies RunOnce listed and has not come to yet
    crashes

vars == <<order, store, ledger, run, batch, crashes>>

Runners == Clients \cup {Reconciler}

Statuses == {"absent", "created", "pending_payment", "paid", "crediting", "credited", "failed"}
Rows == [status : Statuses, token : Tokens \cup {NoToken}]

(* Mutant of NonTerminal: crediting orders are passed over. *)
Unpaid == {"pending_payment", "paid"}

(* What ListNonTerminal selects. *)
NonTerminal == {"pending_payment", "paid", "crediting"}

Steps == {"idle", "find", "usedElsewhere", "claim", "verify", "waiting", "rejected",
          "confirmed", "crediting", "post", "credited"}

Idle == [pc |-> "idle", order |-> CHOOSE o \in Orders : TRUE,
         copy |-> [status |-> "absent", token |-> NoToken], token |-> NoToken]

Init ==
    /\ order = [o \in Orders |-> [status |-> "absent", token |-> NoToken]]
    /\ store \in [bought : Purchases, state : {[t \in Tokens |-> "open"]}]
    /\ ledger = NewMemLedger
    /\ run = [r \in Runners |-> Idle]
    /\ batch = << >>
    /\ crashes = 0

-----------------------------------------------------------------------------
(* Helpers *)

At(r, pc) == run[r].pc = pc

Goto(r, pc) == run' = [run EXCEPT ![r].pc = pc]

Return(r) == run' = [run EXCEPT ![r] = Idle]

(* UpdateOrder(copy): status as in the copy; COALESCE keeps the row's token *)
(* when the copy has none.                                                  *)
Write(o, copy) ==
    order' = [order EXCEPT ![o] = [status |-> copy.status,
                                   token  |-> IF copy.token = NoToken THEN @.token ELSE copy.token]]

(* The runner's copy gets a new status, is written, and the run goes on. *)
WriteStatus(r, status, pc) ==
    LET copy == [run[r].copy EXCEPT !.status = status] IN
    /\ Write(run[r].order, copy)
    /\ run' = [run EXCEPT ![r].copy = copy, ![r].pc = pc]

(* The same for the last write of a run. *)
WriteStatusAndReturn(r, status) ==
    /\ Write(run[r].order, [run[r].copy EXCEPT !.status = status])
    /\ Return(r)

(* advance() begins with a copy of order o: credited, failed and refunded   *)
(* orders return at once.                                                   *)
Advance(r, o, copy, token) ==
    IF copy.status \in {"credited", "failed"}
    THEN run' = [run EXCEPT ![r] = Idle]
    ELSE run' = [run EXCEPT ![r] =
                    [pc |-> "find", order |-> o, copy |-> copy, token |-> token]]

-----------------------------------------------------------------------------
(* The environment *)

(* CreateOrder inserts the row. *)
CreateOrder(o) ==
    /\ order[o].status = "absent"
    /\ order' = [order EXCEPT ![o].status = "created"]
    /\ UNCHANGED <<store, ledger, run, batch, crashes>>

(* The store settles a purchase, one way or the other, once. *)
Settle(t) ==
    /\ store.state[t] = "open"
    /\ store' \in {[store EXCEPT !.state[t] = s] : s \in {"paid", "void"}}
    /\ UNCHANGED <<order, ledger, run, batch, crashes>>

Crash ==
    /\ crashes < MaxCrashes
    /\ crashes' = crashes + 1
    /\ run' = [r \in Runners |-> Idle]
    /\ batch' = << >>
    /\ UNCHANGED <<order, store, ledger>>

-----------------------------------------------------------------------------
(* Who calls advance() *)

(* VerifyOrder reads the row and advances with the token of the request. *)
VerifyOrder(c, o, t) ==
    /\ At(c, "idle")
    /\ order[o].status # "absent"
    /\ t \in Offers[o]
    /\ Advance(c, o, order[o], t)
    /\ UNCHANGED <<order, store, ledger, batch, crashes>>

(* RunOnce: a tick lists copies of all non-terminal orders... *)
ListNonTerminal ==
    /\ At(Reconciler, "idle")
    /\ batch = << >>
    /\ LET due == {o \in Orders : order[o].status \in NonTerminal} IN
       /\ due # {}
       /\ batch' = [o \in due |-> order[o]]
    /\ UNCHANGED <<order, store, ledger, run, crashes>>

(* ...and Reconcile advances them one after the other, in any order, with   *)
(* the token stored on the copy.                                            *)
Reconcile(o) ==
    /\ At(Reconciler, "idle")
    /\ o \in DOMAIN batch
    /\ Advance(Reconciler, o, batch[o], batch[o].token)
    /\ batch' = Restrict(batch, DOMAIN batch \ {o})
    /\ UNCHANGED <<order, store, ledger, crashes>>

-----------------------------------------------------------------------------
(* The steps of advance() *)

(* FindByTokenHash: another order holds the token, or on to the branch the  *)
(* copy's status selects.  A lookup that fails counts as one that found no  *)
(* order, as its error is dropped.                                          *)
FindByTokenHash(r) ==
    /\ At(r, "find")
    /\ \/ /\ \E o \in Orders \ {run[r].order} : order[o].token = run[r].token
          /\ Goto(r, "usedElsewhere")
       \/ Goto(r, CASE run[r].copy.status = "created"         -> "claim"
                    [] run[r].copy.status = "pending_payment" -> "verify"
                    [] run[r].copy.status = "paid"            -> "crediting"
                    [] run[r].copy.status = "crediting"       -> "post")
    /\ UNCHANGED <<order, store, ledger, batch, crashes>>

FailUsedElsewhere(r) ==
    /\ At(r, "usedElsewhere")
    /\ WriteStatusAndReturn(r, "failed")
    /\ UNCHANGED <<store, ledger, batch, crashes>>

(* Mutant of UniqueIndexRefuses: no index. *)
NothingRefuses(o, t) == FALSE

(* created -> pending_payment records the token; the unique index on        *)
(* token_hash refuses it when another row has it.                           *)
UniqueIndexRefuses(o, t) == \E p \in Orders \ {o} : order[p].token = t

ClaimToken(r) ==
    LET o == run[r].order
        copy == [status |-> "pending_payment", token |-> run[r].token]
    IN
    /\ At(r, "claim")
    /\ IF UniqueIndexRefuses(o, run[r].token)
       THEN Return(r) /\ UNCHANGED order
       ELSE Write(o, copy) /\ run' = [run EXCEPT ![r].copy = copy, ![r].pc = "verify"]
    /\ UNCHANGED <<store, ledger, batch, crashes>>

(* Mutant of Confirm: any paid purchase will do. *)
ConfirmAnyPurchase(r) ==
    /\ At(r, "verify")
    /\ store.state[run[r].token] = "paid"
    /\ Goto(r, "confirmed")
    /\ UNCHANGED <<order, store, ledger, batch, crashes>>

(* verifier.Verify compares the store's purchase with the order: a definite *)
(* answer when the store has one, ErrPending while the purchase is open or  *)
(* the store cannot be reached, and other errors at any time.               *)
Confirm(r) ==
    /\ At(r, "verify")
    /\ store.state[run[r].token] = "paid"
    /\ <<run[r].token, run[r].order>> \in store.bought
    /\ Goto(r, "confirmed")
    /\ UNCHANGED <<order, store, ledger, batch, crashes>>

Reject(r) ==
    /\ At(r, "verify")
    /\ \/ store.state[run[r].token] = "void"
       \/ <<run[r].token, run[r].order>> \notin store.bought
    /\ Goto(r, "rejected")
    /\ UNCHANGED <<order, store, ledger, batch, crashes>>

NotYet(r) ==
    /\ At(r, "verify")
    /\ \/ Goto(r, "waiting")    \* ErrPending
       \/ Return(r)             \* any other error
    /\ UNCHANGED <<order, store, ledger, batch, crashes>>

(* ErrPending writes the copy back to note the reason: its status is still  *)
(* the pending_payment the run started from.                                *)
WriteWaiting(r) ==
    /\ At(r, "waiting")
    /\ WriteStatusAndReturn(r, "pending_payment")
    /\ UNCHANGED <<store, ledger, batch, crashes>>

WriteRejected(r) ==
    /\ At(r, "rejected")
    /\ WriteStatusAndReturn(r, "failed")
    /\ UNCHANGED <<store, ledger, batch, crashes>>

WritePaid(r) ==
    /\ At(r, "confirmed")
    /\ WriteStatus(r, "paid", "crediting")
    /\ UNCHANGED <<store, ledger, batch, crashes>>

WriteCrediting(r) ==
    /\ At(r, "crediting")
    /\ WriteStatus(r, "crediting", "post")
    /\ UNCHANGED <<store, ledger, batch, crashes>>

(* Mutant of PostCredit: a key of its own for every attempt. *)
PostCreditAfresh(r) ==
    LET o == run[r].order IN
    /\ At(r, "post")
    /\ ledger' = Applied(ledger, "purchase", o, CreditEntries(Buyer[o], Price[o]), 0)
    /\ Goto(r, "credited")
    /\ UNCHANGED <<order, store, batch, crashes>>

(* The coins: one balanced transaction under the order's own key. *)
PostCredit(r) ==
    LET o == run[r].order IN
    /\ At(r, "post")
    /\ ledger' = Post(ledger, "purchase", o, CreditEntries(Buyer[o], Price[o])).ledger
    /\ Goto(r, "credited")
    /\ UNCHANGED <<order, store, batch, crashes>>

WriteCredited(r) ==
    /\ At(r, "credited")
    /\ WriteStatusAndReturn(r, "credited")
    /\ UNCHANGED <<store, ledger, batch, crashes>>

(* A client goes away, or the database fails a statement: the run returns. *)
Abandon(c) ==
    /\ ~ At(c, "idle")
    /\ Return(c)
    /\ UNCHANGED <<order, store, ledger, batch, crashes>>

-----------------------------------------------------------------------------

Step(r) ==
    \/ FindByTokenHash(r)
    \/ FailUsedElsewhere(r)
    \/ ClaimToken(r)
    \/ Confirm(r)
    \/ Reject(r)
    \/ NotYet(r)
    \/ WriteWaiting(r)
    \/ WriteRejected(r)
    \/ WritePaid(r)
    \/ WriteCrediting(r)
    \/ PostCredit(r)
    \/ WriteCredited(r)

Next ==
    \/ \E o \in Orders : CreateOrder(o)
    \/ \E t \in Tokens : Settle(t)
    \/ Crash
    \/ \E c \in Clients, o \in Orders, t \in Tokens : VerifyOrder(c, o, t)
    \/ ListNonTerminal
    \/ \E o \in Orders : Reconcile(o)
    \/ \E r \in Runners : Step(r)
    \/ \E c \in Clients : Abandon(c)

(* The ticker keeps firing and the reconciler's goroutine keeps running; a  *)
(* store that has a definite answer does not withhold it for ever.  Nothing *)
(* is assumed of clients.                                                   *)
Fairness ==
    /\ WF_vars(ListNonTerminal)
    /\ WF_vars(\E o \in Orders : Reconcile(o))
    /\ WF_vars(Step(Reconciler))
    /\ SF_vars(Confirm(Reconciler))

Spec == Init /\ [][Next]_vars /\ Fairness

-----------------------------------------------------------------------------
(* Properties *)

Credited(o) == ledger.byKey[o] # 0

(* Coins come from payments: an order's coins are in the ledger only when   *)
(* the store confirmed as paid the token it holds, bought for that order,   *)
(* which no other credited order holds, whatever stale copies say.          *)
CreditedWasPaid ==
    \A o \in Orders : Credited(o) =>
        LET t == order[o].token IN
        /\ t \in Offers[o] /\ store.state[t] = "paid" /\ <<t, o>> \in store.bought
        /\ \A p \in Orders \ {o} : Credited(p) => order[p].token # t

(* "A re-entrant crediting attempt can never double-credit": each buyer's   *)
(* balance is exactly the coins of his credited orders, each counted once.  *)
CreditedOnce ==
    \A u \in Users :
        ledger.balances[Coins(u)] =
            SumFunctionOnSet(Price, {o \in Orders : Buyer[o] = u /\ Credited(o)})

(* "Confirm reconciler credits": an order that waits on a purchase the      *)
(* store has settled as paid ends up credited, whatever crashed and however *)
(* stale the copies other runs write back.                                  *)
PaidIsCredited ==
    \A o \in Orders : \A t \in Tokens :
        (/\ order[o].status \in NonTerminal
         /\ order[o].token = t
         /\ store.state[t] = "paid"
         /\ <<t, o>> \in store.bought)
        ~> (order[o].status = "credited" /\ Credited(o))
=============================================================================
