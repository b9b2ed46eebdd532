---------------------------- MODULE OrdersProofs ----------------------------
(***************************************************************************)
(* Proofs about Orders for any clients, orders, tokens, prices and number  *)
(* of crashes: coins come from payments and are credited once, however     *)
(* stale the copies of a row that its runs write back.                     *)
(***************************************************************************)
EXTENDS Orders, LedgerOpsProofs

-----------------------------------------------------------------------------
(* The inductive invariant *)

NoOrder == CHOOSE o \in Orders : TRUE

Run == [pc : Steps, order : Orders \cup {NoOrder}, copy : Rows,
        token : Tokens \cup {NoToken}]

Stores == [bought : Purchases, state : [Tokens -> {"open", "paid", "void"}]]

TypeOK ==
    /\ order \in [Orders -> Rows]
    /\ store \in Stores
    /\ IsLedger(ledger)
    /\ run \in [Runners -> Run]
    /\ DOMAIN batch \subseteq Orders
    /\ batch \in [DOMAIN batch -> Rows]

(* The store has confirmed a purchase for o that its client sent. *)
BoughtIn(S, o) ==
    \E t \in Offers[o] : S.state[t] = "paid" /\ <<t, o>> \in S.bought

(* A copy of o's row, be it the row itself, however old: past pending it    *)
(* stands for a confirmed purchase.                                         *)
CopySound(S, o, c) ==
    /\ c.token \in Offers[o] \cup {NoToken}
    /\ c.status \in {"pending_payment", "paid", "crediting", "credited"} => c.token \in Offers[o]
    /\ c.status \in {"paid", "crediting", "credited"} => BoughtIn(S, o)

(* A run of advance(), by its step. *)
RunSound(S, k) ==
    k.pc # "idle" =>
        /\ k.order \in Orders
        /\ k.token \in Offers[k.order]
        /\ CopySound(S, k.order, k.copy)
        /\ k.pc = "find" => k.copy.status \in {"created", "pending_payment", "paid", "crediting"}
        /\ k.pc \in {"verify", "waiting", "rejected", "confirmed"} =>
               k.copy.status = "pending_payment"
        /\ k.pc = "confirmed" => BoughtIn(S, k.order)
        /\ k.pc = "crediting" => k.copy.status = "paid"
        /\ k.pc \in {"post", "credited"} => k.copy.status = "crediting"

CreditedOrders(L) == {o \in Orders : L.byKey[o] # 0}

(* Each buyer's coins are the prices of his credited orders. *)
CoinsAdd(L) ==
    \A u \in Users :
        L.balances[Coins(u)] =
            SumFunctionOnSet(Price, {o \in CreditedOrders(L) : Buyer[o] = u})

IInv ==
    /\ TypeOK
    /\ \A o \in Orders : CopySound(store, o, order[o])
    /\ \A o \in DOMAIN batch : CopySound(store, o, batch[o]) /\ batch[o].status \in NonTerminal
    /\ \A r \in Runners : RunSound(store, run[r])
    /\ \A o \in CreditedOrders(ledger) : BoughtIn(store, o)
    /\ IsFiniteSet(CreditedOrders(ledger))
    /\ CoinsAdd(ledger)

(* A client never sends a second token for one order. *)
OneTokenEach == \A o \in Orders : \A t, u \in Offers[o] : t = u

Stands(o, c) == c.token # NoToken => order[o].token = c.token

(* Then the token a row got stays on it, alone. *)
TokensStand ==
    /\ \A r \in Runners : ~ At(r, "idle") => Stands(run[r].order, run[r].copy)
    /\ \A o \in DOMAIN batch : Stands(o, batch[o])
    /\ \A o \in Orders : order[o].token # NoToken =>
           \A p \in Orders \ {o} : order[p].token # order[o].token
    /\ \A o \in Orders : Credited(o) => order[o].token # NoToken

-----------------------------------------------------------------------------
(* Steps that do not touch the ledger *)

(* What is known of a run that is not idle. *)
LEMMA RunFields ==
    ASSUME IInv, NEW r \in Runners, ~ At(r, "idle")
    PROVE  /\ run[r] \in Run /\ RunSound(store, run[r])
           /\ run[r].order \in Orders
           /\ run[r].copy \in Rows
           /\ run[r].token \in Offers[run[r].order] /\ run[r].token \in Tokens
           /\ CopySound(store, run[r].order, run[r].copy)
<1>1. run[r] \in Run /\ RunSound(store, run[r])
  BY DEF IInv, TypeOK
<1>2. /\ run[r].order \in Orders /\ run[r].token \in Offers[run[r].order]
      /\ CopySound(store, run[r].order, run[r].copy)
  BY <1>1 DEF RunSound, At
<1>3. run[r].copy \in Rows
  BY <1>1 DEF Run
<1>4. QED
  BY <1>1, <1>2, <1>3, OrdersAssumption

(* A run goes on, or returns, and may have rewritten its row. *)
LEMMA RunStep ==
    ASSUME IInv, NEW r \in Runners, UNCHANGED <<store, ledger, batch>>,
           run' \in [Runners -> Run],
           \A q \in Runners \ {r} : run'[q] = run[q],
           RunSound(store, run'[r]),
           order' \in [Orders -> Rows],
           \A o \in Orders : order'[o] = order[o] \/ CopySound(store, o, order'[o])
    PROVE  IInv'
<1>1. TypeOK'
  BY DEF IInv, TypeOK
<1>2. \A o \in Orders : CopySound(store', o, order'[o])
  BY DEF IInv
<1>3. \A q \in Runners : RunSound(store', run'[q])
  BY DEF IInv
<1>4. QED
  BY <1>1, <1>2, <1>3 DEF IInv

(* Idle is a run, and a sound one. *)
LEMMA IdleSound ==
    Idle \in Run /\ \A S : RunSound(S, Idle)
<1>1. Idle \in Run
  BY DEF Idle, Run, Steps, Rows, Statuses, NoOrder
<1>2. Idle.pc = "idle"
  BY DEF Idle
<1>3. QED
  BY <1>1, <1>2 DEF RunSound

(* What Return and Goto leave. *)
LEMMA ReturnFields ==
    ASSUME IInv, NEW r \in Runners, Return(r)
    PROVE  /\ run' \in [Runners -> Run] /\ RunSound(store, run'[r])
           /\ \A q \in Runners \ {r} : run'[q] = run[q]
           /\ run'[r].pc = "idle"
<1>1. run \in [Runners -> Run]
  BY DEF IInv, TypeOK
<1>2. run'[r] = Idle /\ \A q \in Runners \ {r} : run'[q] = run[q]
  BY <1>1 DEF Return
<1>3. run' \in [Runners -> Run]
  BY <1>1, IdleSound DEF Return
<1>4. QED
  BY <1>2, <1>3, IdleSound DEF Idle

(* A request that goes on leaves every other request alone. *)
LEMMA GotoFields ==
    ASSUME IInv, NEW r \in Runners, NEW pc \in Steps, Goto(r, pc)
    PROVE  /\ run' \in [Runners -> Run]
           /\ \A q \in Runners \ {r} : run'[q] = run[q]
           /\ run'[r].pc = pc /\ run'[r].order = run[r].order
           /\ run'[r].copy = run[r].copy /\ run'[r].token = run[r].token
<1>1. run \in [Runners -> Run]
  BY DEF IInv, TypeOK
<1>2. run' \in [Runners -> Run]
  BY <1>1 DEF Goto, Run
<1>3. QED
  BY <1>1, <1>2 DEF Goto, Run

(* A sound copy that is written back leaves a sound row, with its status    *)
(* and the token it has or the row had.                                     *)
LEMMA WriteFields ==
    ASSUME IInv, NEW o \in Orders, NEW copy \in Rows, CopySound(store, o, copy),
           Write(o, copy)
    PROVE  /\ order' \in [Orders -> Rows]
           /\ \A p \in Orders \ {o} : order'[p] = order[p]
           /\ order'[o].token = IF copy.token = NoToken THEN order[o].token ELSE copy.token
           /\ CopySound(store, o, order'[o])
<1> DEFINE t == IF copy.token = NoToken THEN order[o].token ELSE copy.token
<1>1. order \in [Orders -> Rows] /\ CopySound(store, o, order[o])
  BY DEF IInv, TypeOK
<1>2. t \in Tokens \cup {NoToken} /\ copy.status \in Statuses
  BY <1>1 DEF Rows
<1>3. order' = [order EXCEPT ![o] = [status |-> copy.status, token |-> t]]
  BY DEF Write
<1>4. t \in Offers[o] \cup {NoToken} /\ (copy.token \in Offers[o] => t = copy.token)
  BY <1>1, OrdersAssumption DEF CopySound
<1> HIDE DEF t
<1>5. order' \in [Orders -> Rows] /\ \A p \in Orders \ {o} : order'[p] = order[p]
  BY <1>1, <1>2, <1>3 DEF Rows
<1>6. order'[o].token = t /\ order'[o].status = copy.status
  BY <1>1, <1>3
<1>7. CopySound(store, o, order'[o])
  BY <1>4, <1>6 DEF CopySound
<1>8. QED
  BY <1>5, <1>6, <1>7 DEF t

(* CreateOrder: a new row stands for nothing yet. *)
LEMMA CreateOrderStep ==
    ASSUME IInv, NEW o \in Orders, CreateOrder(o)
    PROVE  IInv'
<1>1. order \in [Orders -> Rows] /\ CopySound(store, o, order[o])
  BY DEF IInv, TypeOK
<1>2. /\ order' = [order EXCEPT ![o].status = "created"]
      /\ UNCHANGED <<store, ledger, run, batch>>
  BY DEF CreateOrder
<1>3. order' \in [Orders -> Rows] /\ \A p \in Orders \ {o} : order'[p] = order[p]
  BY <1>1, <1>2 DEF Rows, Statuses
<1>4. order'[o].status = "created" /\ order'[o].token = order[o].token
  BY <1>1, <1>2, <1>3 DEF Rows
<1>5. CopySound(store, o, order'[o])
  BY <1>1, <1>4 DEF CopySound
<1>6. QED
  BY <1>2, <1>3, <1>5 DEF IInv, TypeOK

(* What the store has confirmed stays confirmed. *)
LEMMA SettleStep ==
    ASSUME IInv, NEW t \in Tokens, Settle(t)
    PROVE  IInv'
<1>1. store \in Stores /\ store.state[t] = "open"
  BY DEF IInv, TypeOK, Settle
<1>2. PICK s \in {"paid", "void"} : store' = [store EXCEPT !.state[t] = s]
  BY DEF Settle
<1>3. UNCHANGED <<order, ledger, run, batch>>
  BY DEF Settle
<1>4. store' \in Stores
  BY <1>1, <1>2 DEF Stores
<1>5. /\ store'.bought = store.bought
      /\ \A u \in Tokens : store.state[u] = "paid" => store'.state[u] = "paid"
  BY <1>1, <1>2 DEF Stores
<1>6. \A o \in Orders : BoughtIn(store, o) => BoughtIn(store', o)
  BY <1>5, OrdersAssumption DEF BoughtIn
<1>7. \A o \in Orders : \A c : CopySound(store, o, c) => CopySound(store', o, c)
  BY <1>6 DEF CopySound
<1>8. \A k : RunSound(store, k) => RunSound(store', k)
  BY <1>6, <1>7 DEF RunSound
<1>9. TypeOK'
  BY <1>3, <1>4 DEF IInv, TypeOK
<1>10. \A o \in DOMAIN batch : o \in Orders
  BY DEF IInv, TypeOK
<1>11. QED
  BY <1>3, <1>6, <1>7, <1>8, <1>9, <1>10 DEF IInv, CreditedOrders

(* A crash forgets the runs and the reconciler's batch. *)
LEMMA CrashStep == ASSUME IInv, Crash PROVE IInv'
<1>1. UNCHANGED <<order, store, ledger>> /\ batch' = << >> /\ DOMAIN batch' = {}
  BY DEF Crash
<1>2. \A r \in Runners : run'[r] = Idle
  BY DEF Crash
<1>3. run' \in [Runners -> Run]
  BY IdleSound DEF Crash
<1>4. \A r \in Runners : RunSound(store, run'[r])
  BY <1>2, IdleSound
<1>5. batch' \in [DOMAIN batch' -> Rows]
  BY <1>1
<1>6. TypeOK'
  BY <1>1, <1>3, <1>5 DEF IInv, TypeOK
<1>7. QED
  BY <1>1, <1>4, <1>6 DEF IInv, CreditedOrders

-----------------------------------------------------------------------------
(* advance() is called *)

(* A copy that is sound starts a sound run, or none. *)
LEMMA AdvanceStep ==
    ASSUME IInv, NEW r \in Runners, NEW o \in Orders, NEW copy \in Rows, NEW token,
           token \in Offers[o], CopySound(store, o, copy), copy.status # "absent",
           Advance(r, o, copy, token)
    PROVE  /\ run' \in [Runners -> Run] /\ RunSound(store, run'[r])
           /\ \A q \in Runners \ {r} : run'[q] = run[q]
           /\ run'[r].pc # "idle" => run'[r].order = o /\ run'[r].copy = copy
<1>1. run \in [Runners -> Run]
  BY DEF IInv, TypeOK
<1>2. CASE copy.status \in {"credited", "failed"}
  <2>1. Return(r)
    BY <1>2 DEF Advance, Return
  <2>2. QED
    BY <2>1, ReturnFields
<1>3. CASE copy.status \notin {"credited", "failed"}
  <2> DEFINE k == [pc |-> "find", order |-> o, copy |-> copy, token |-> token]
  <2>1. token \in Tokens /\ copy.status \in {"created", "pending_payment", "paid", "crediting"}
    BY <1>3, OrdersAssumption DEF Rows, Statuses
  <2>2. k \in Run
    BY <2>1 DEF Run, Steps
  <2>3. k.pc = "find" /\ k.order = o /\ k.copy = copy /\ k.token = token
    OBVIOUS
  <2>4. run' = [run EXCEPT ![r] = k]
    BY <1>3 DEF Advance
  <2> HIDE DEF k
  <2>5. RunSound(store, k)
    BY <2>1, <2>3 DEF RunSound
  <2>6. QED
    BY <1>1, <2>2, <2>3, <2>4, <2>5
<1>4. QED
  BY <1>2, <1>3

(* A client verifies an order. *)
LEMMA VerifyOrderStep ==
    ASSUME IInv, NEW c \in Clients, NEW o \in Orders, NEW t \in Tokens, VerifyOrder(c, o, t)
    PROVE  IInv'
<1>1. /\ order[o] \in Rows /\ CopySound(store, o, order[o]) /\ c \in Runners
      /\ order[o].status # "absent" /\ t \in Offers[o] /\ Advance(c, o, order[o], t)
      /\ UNCHANGED <<order, store, ledger, batch>>
  BY DEF IInv, TypeOK, VerifyOrder, Runners
<1>2. QED
  BY <1>1, AdvanceStep, RunStep DEF IInv, TypeOK

(* The reconciler lists what is not final. *)
LEMMA ListStep == ASSUME IInv, ListNonTerminal PROVE IInv'
<1> DEFINE due == {o \in Orders : order[o].status \in NonTerminal}
<1>1. batch' = [o \in due |-> order[o]] /\ UNCHANGED <<order, store, ledger, run>>
  BY DEF ListNonTerminal
<1>2. DOMAIN batch' = due /\ \A o \in due : batch'[o] = order[o]
  BY <1>1
<1>3. batch' \in [DOMAIN batch' -> Rows]
  BY <1>1 DEF IInv, TypeOK
<1>4. TypeOK'
  BY <1>1, <1>2, <1>3 DEF IInv, TypeOK
<1>5. \A o \in DOMAIN batch' :
          CopySound(store, o, batch'[o]) /\ batch'[o].status \in NonTerminal
  BY <1>2 DEF IInv
<1> HIDE DEF due
<1>6. QED
  BY <1>1, <1>4, <1>5 DEF IInv, CreditedOrders

(* ... and takes one order up after the other. *)
LEMMA ReconcileStep ==
    ASSUME IInv, NEW o \in Orders, Reconcile(o)
    PROVE  IInv'
<1>1. /\ o \in DOMAIN batch /\ Reconciler \in Runners
      /\ Advance(Reconciler, o, batch[o], batch[o].token)
      /\ batch' = Restrict(batch, DOMAIN batch \ {o})
      /\ UNCHANGED <<order, store, ledger>>
  BY DEF Reconcile, Runners
<1>2. /\ batch[o] \in Rows /\ CopySound(store, o, batch[o])
      /\ batch[o].status \in NonTerminal /\ batch[o].token \in Offers[o]
  BY <1>1 DEF IInv, TypeOK, CopySound, NonTerminal
<1>3. /\ run' \in [Runners -> Run] /\ RunSound(store, run'[Reconciler])
      /\ \A q \in Runners \ {Reconciler} : run'[q] = run[q]
  <2>1. batch[o].status # "absent"
    BY <1>2 DEF NonTerminal
  <2>2. QED
    BY <1>1, <1>2, <2>1, AdvanceStep
<1>4. /\ DOMAIN batch' = DOMAIN batch \ {o}
      /\ \A p \in DOMAIN batch' : batch'[p] = batch[p]
      /\ batch' \in [DOMAIN batch' -> Rows]
  BY <1>1 DEF Restrict, IInv, TypeOK
<1>5. TypeOK'
  BY <1>1, <1>3, <1>4 DEF IInv, TypeOK
<1>6. \A q \in Runners : RunSound(store, run'[q])
  BY <1>3 DEF IInv
<1>7. QED
  BY <1>1, <1>4, <1>5, <1>6 DEF IInv, CreditedOrders

-----------------------------------------------------------------------------
(* The steps of advance() *)

(* A run that only moves on, to a step that its copy allows. *)
LEMMA GotoStep ==
    ASSUME IInv, NEW r \in Runners, ~ At(r, "idle"), NEW pc \in Steps, Goto(r, pc),
           UNCHANGED <<order, store, ledger, batch>>,
           pc = "find" => run[r].copy.status \in {"created", "pending_payment", "paid", "crediting"},
           pc \in {"verify", "waiting", "rejected", "confirmed"} =>
               run[r].copy.status = "pending_payment",
           pc = "confirmed" => BoughtIn(store, run[r].order),
           pc = "crediting" => run[r].copy.status = "paid",
           pc \in {"post", "credited"} => run[r].copy.status = "crediting"
    PROVE  IInv'
<1>1. RunSound(store, run'[r])
  BY RunFields, GotoFields DEF RunSound
<1>2. QED
  BY <1>1, GotoFields, RunStep DEF IInv, TypeOK

(* A run that returns without a write. *)
LEMMA ReturnStep ==
    ASSUME IInv, NEW r \in Runners, Return(r), UNCHANGED <<order, store, ledger, batch>>
    PROVE  IInv'
BY ReturnFields, RunStep DEF IInv, TypeOK

(* The token is looked for among the other orders. *)
LEMMA FindByTokenHashStep ==
    ASSUME IInv, NEW r \in Runners, FindByTokenHash(r)
    PROVE  IInv'
<1> DEFINE s == run[r].copy.status
           Elsewhere == Goto(r, "usedElsewhere")
<1>1. At(r, "find") /\ ~ At(r, "idle") /\ UNCHANGED <<order, store, ledger, batch>>
  BY DEF FindByTokenHash, At
<1>2. s \in {"created", "pending_payment", "paid", "crediting"}
  BY <1>1, RunFields DEF RunSound, At
<1>3. CASE Elsewhere
  <2>1. Goto(r, "usedElsewhere") /\ "usedElsewhere" \in Steps
    BY <1>3 DEF FindByTokenHash, Steps
  <2>2. QED
    BY <1>1, <2>1, GotoStep
<1>4. CASE ~ Elsewhere /\ s = "created"
  <2>1. Goto(r, "claim") /\ "claim" \in Steps
    BY <1>4 DEF FindByTokenHash, Steps
  <2>2. QED
    BY <1>1, <2>1, GotoStep
<1>5. CASE ~ Elsewhere /\ s = "pending_payment"
  <2>1. Goto(r, "verify") /\ "verify" \in Steps
    BY <1>5 DEF FindByTokenHash, Steps
  <2>2. QED
    BY <1>1, <1>5, <2>1, GotoStep
<1>6. CASE ~ Elsewhere /\ s = "paid"
  <2>1. Goto(r, "crediting") /\ "crediting" \in Steps
    BY <1>6 DEF FindByTokenHash, Steps
  <2>2. QED
    BY <1>1, <1>6, <2>1, GotoStep
<1>7. CASE ~ Elsewhere /\ s = "crediting"
  <2>1. Goto(r, "post") /\ "post" \in Steps
    BY <1>7 DEF FindByTokenHash, Steps
  <2>2. QED
    BY <1>1, <1>7, <2>1, GotoStep
<1>8. QED
  BY <1>2, <1>3, <1>4, <1>5, <1>6, <1>7

(* The store's answer. *)
LEMMA AnswerStep ==
    ASSUME IInv, NEW r \in Runners, Confirm(r) \/ Reject(r) \/ NotYet(r)
    PROVE  IInv'
<1>1. At(r, "verify") /\ ~ At(r, "idle") /\ UNCHANGED <<order, store, ledger, batch>>
  BY DEF Confirm, Reject, NotYet, At
<1>2. run[r].copy.status = "pending_payment" /\ run[r].token \in Offers[run[r].order]
  BY <1>1, RunFields DEF RunSound, At
<1>3. CASE Confirm(r)
  <2>1. BoughtIn(store, run[r].order)
    BY <1>2, <1>3 DEF Confirm, BoughtIn
  <2>2. Goto(r, "confirmed") /\ "confirmed" \in Steps
    BY <1>3 DEF Confirm, Steps
  <2>3. QED
    BY <1>1, <1>2, <2>1, <2>2, GotoStep
<1>4. CASE Reject(r)
  <2>1. Goto(r, "rejected") /\ "rejected" \in Steps
    BY <1>4 DEF Reject, Steps
  <2>2. QED
    BY <1>1, <1>2, <2>1, GotoStep
<1>5. CASE NotYet(r)
  <2>1. CASE Goto(r, "waiting")
    <3>1. "waiting" \in Steps
      BY DEF Steps
    <3>2. QED
      BY <1>1, <1>2, <2>1, <3>1, GotoStep
  <2>2. CASE Return(r)
    BY <1>1, <2>2, ReturnStep
  <2>3. QED
    BY <1>5, <2>1, <2>2 DEF NotYet
<1>6. QED
  BY <1>3, <1>4, <1>5

(* A run that writes its row and returns. *)
LEMMA LastWriteStep ==
    ASSUME IInv, NEW r \in Runners, ~ At(r, "idle"), NEW status \in Statuses,
           WriteStatusAndReturn(r, status), UNCHANGED <<store, ledger, batch>>,
           status \in {"failed", run[r].copy.status}
               \/ (status = "credited" /\ run[r].copy.status = "crediting")
    PROVE  IInv'
<1> DEFINE o == run[r].order
           copy == [run[r].copy EXCEPT !.status = status]
<1>1. /\ o \in Orders /\ run[r].copy \in Rows /\ CopySound(store, o, run[r].copy)
      /\ Write(o, copy) /\ Return(r)
  BY RunFields DEF WriteStatusAndReturn
<1>2. copy \in Rows
  BY <1>1 DEF Rows
<1>3. copy.status = status /\ copy.token = run[r].copy.token
  BY <1>1 DEF Rows
<1> HIDE DEF copy
<1>4. CopySound(store, o, copy)
  BY <1>1, <1>3 DEF CopySound
<1> HIDE DEF o
<1>5. /\ order' \in [Orders -> Rows] /\ CopySound(store, o, order'[o])
      /\ \A p \in Orders \ {o} : order'[p] = order[p]
  BY <1>1, <1>2, <1>4, WriteFields
<1>6. \A p \in Orders : order'[p] = order[p] \/ CopySound(store, p, order'[p])
  BY <1>5
<1>7. QED
  BY <1>1, <1>5, <1>6, ReturnFields, RunStep

(* The writes after which a request is over. *)
LEMMA FinalWritesStep ==
    ASSUME IInv, NEW r \in Runners,
           FailUsedElsewhere(r) \/ WriteWaiting(r) \/ WriteRejected(r) \/ WriteCredited(r)
    PROVE  IInv'
<1>1. ~ At(r, "idle") /\ UNCHANGED <<store, ledger, batch>>
  BY DEF FailUsedElsewhere, WriteWaiting, WriteRejected, WriteCredited, At
<1>2. CASE FailUsedElsewhere(r) \/ WriteRejected(r)
  <2>1. WriteStatusAndReturn(r, "failed") /\ "failed" \in Statuses
    BY <1>2 DEF FailUsedElsewhere, WriteRejected, Statuses
  <2>2. QED
    BY <1>1, <2>1, LastWriteStep
<1>3. CASE WriteWaiting(r)
  <2>1. WriteStatusAndReturn(r, "pending_payment") /\ "pending_payment" \in Statuses
    BY <1>3 DEF WriteWaiting, Statuses
  <2>2. run[r].copy.status = "pending_payment"
    BY <1>1, <1>3, RunFields DEF RunSound, WriteWaiting, At
  <2>3. QED
    BY <1>1, <2>1, <2>2, LastWriteStep
<1>4. CASE WriteCredited(r)
  <2>1. WriteStatusAndReturn(r, "credited") /\ "credited" \in Statuses
    BY <1>4 DEF WriteCredited, Statuses
  <2>2. run[r].copy.status = "crediting"
    BY <1>1, <1>4, RunFields DEF RunSound, WriteCredited, At
  <2>3. QED
    BY <1>1, <2>1, <2>2, LastWriteStep
<1>5. QED
  BY <1>2, <1>3, <1>4

(* A run that writes its copy and goes on with it. *)
LEMMA WriteAndGoStep ==
    ASSUME IInv, NEW r \in Runners, ~ At(r, "idle"), UNCHANGED <<store, ledger, batch>>,
           NEW copy \in Rows, CopySound(store, run[r].order, copy),
           NEW pc \in Steps,
           Write(run[r].order, copy),
           run' = [run EXCEPT ![r].copy = copy, ![r].pc = pc],
           \/ pc = "verify" /\ copy.status = "pending_payment"
           \/ pc = "crediting" /\ copy.status = "paid"
           \/ pc = "post" /\ copy.status = "crediting"
    PROVE  IInv'
<1> DEFINE o == run[r].order
<1>1. run \in [Runners -> Run] /\ run[r] \in Run /\ o \in Orders /\ run[r].token \in Offers[o]
  BY RunFields DEF IInv, TypeOK
<1>2. run' \in [Runners -> Run]
  BY <1>1 DEF Run
<1>3. /\ \A q \in Runners \ {r} : run'[q] = run[q]
      /\ run'[r].pc = pc /\ run'[r].copy = copy
      /\ run'[r].order = o /\ run'[r].token = run[r].token
  BY <1>1, <1>2 DEF Run
<1>4. RunSound(store, run'[r])
  BY <1>1, <1>3 DEF RunSound
<1> HIDE DEF o
<1>5. /\ order' \in [Orders -> Rows] /\ CopySound(store, o, order'[o])
      /\ \A p \in Orders \ {o} : order'[p] = order[p]
  <2>1. Write(o, copy) /\ CopySound(store, o, copy)
    BY DEF o
  <2>2. QED
    BY <1>1, <2>1, WriteFields
<1>6. \A p \in Orders : order'[p] = order[p] \/ CopySound(store, p, order'[p])
  BY <1>5
<1>7. QED
  BY <1>2, <1>3, <1>4, <1>5, <1>6, RunStep

(* The order claims its token. *)
LEMMA ClaimTokenStep ==
    ASSUME IInv, NEW r \in Runners, ClaimToken(r)
    PROVE  IInv'
<1> DEFINE o == run[r].order
           copy == [status |-> "pending_payment", token |-> run[r].token]
<1>1. ~ At(r, "idle") /\ UNCHANGED <<store, ledger, batch>>
  BY DEF ClaimToken, At
<1>2. CASE Return(r) /\ UNCHANGED order
  BY <1>1, <1>2, ReturnStep
<1>3. CASE Write(o, copy) /\ run' = [run EXCEPT ![r].copy = copy, ![r].pc = "verify"]
  <2>1. o \in Orders /\ run[r].token \in Offers[o] /\ run[r].token \in Tokens
    BY <1>1, RunFields
  <2>2. copy \in Rows /\ copy.status = "pending_payment" /\ copy.token = run[r].token
    BY <2>1 DEF Rows, Statuses
  <2> HIDE DEF copy
  <2>3. CopySound(store, o, copy) /\ "verify" \in Steps
    BY <2>1, <2>2 DEF CopySound, Steps
  <2>4. QED
    BY <1>1, <1>3, <2>2, <2>3, WriteAndGoStep
<1>4. QED
  BY <1>2, <1>3 DEF ClaimToken

(* The order is marked paid, and then crediting. *)
LEMMA WriteStatusStep ==
    ASSUME IInv, NEW r \in Runners, WritePaid(r) \/ WriteCrediting(r)
    PROVE  IInv'
<1> DEFINE o == run[r].order
           c == run[r].copy
           copy(status) == [c EXCEPT !.status = status]
<1>1. ~ At(r, "idle") /\ UNCHANGED <<store, ledger, batch>>
  BY DEF WritePaid, WriteCrediting, At
<1>2. o \in Orders /\ c \in Rows /\ CopySound(store, o, c)
  BY <1>1, RunFields
<1>3. ASSUME NEW status \in Statuses
      PROVE  /\ copy(status) \in Rows
             /\ copy(status).status = status /\ copy(status).token = c.token
  BY <1>2 DEF Rows
<1>4. CASE WritePaid(r)
  <2>1. BoughtIn(store, o) /\ c.status = "pending_payment"
    BY <1>1, <1>4, RunFields DEF RunSound, WritePaid, At
  <2>2. /\ Write(o, copy("paid"))
        /\ run' = [run EXCEPT ![r].copy = copy("paid"), ![r].pc = "crediting"]
    BY <1>4 DEF WritePaid, WriteStatus
  <2>3. "paid" \in Statuses /\ "crediting" \in Steps
    BY DEF Statuses, Steps
  <2>4. /\ copy("paid") \in Rows
        /\ copy("paid").status = "paid" /\ copy("paid").token = c.token
    BY <1>3, <2>3
  <2> HIDE DEF copy
  <2>5. CopySound(store, o, copy("paid"))
    BY <1>2, <2>1, <2>4 DEF CopySound
  <2>6. QED
    BY <1>1, <2>2, <2>3, <2>4, <2>5, WriteAndGoStep
<1>5. CASE WriteCrediting(r)
  <2>1. c.status = "paid"
    BY <1>1, <1>5, RunFields DEF RunSound, WriteCrediting, At
  <2>2. /\ Write(o, copy("crediting"))
        /\ run' = [run EXCEPT ![r].copy = copy("crediting"), ![r].pc = "post"]
    BY <1>5 DEF WriteCrediting, WriteStatus
  <2>3. "crediting" \in Statuses /\ "post" \in Steps
    BY DEF Statuses, Steps
  <2>4. /\ copy("crediting") \in Rows
        /\ copy("crediting").status = "crediting" /\ copy("crediting").token = c.token
    BY <1>3, <2>3
  <2> HIDE DEF copy
  <2>5. CopySound(store, o, copy("crediting"))
    BY <1>2, <2>1, <2>4 DEF CopySound
  <2>6. QED
    BY <1>1, <2>2, <2>3, <2>4, <2>5, WriteAndGoStep
<1>6. QED
  BY <1>4, <1>5

-----------------------------------------------------------------------------
(* The coins *)

(* Under the order's key, still unused, the credit adds the order's price   *)
(* to its buyer's coins and to nobody else's.                               *)
LEMMA CreditAdds ==
    ASSUME NEW L, IsLedger(L), CoinsAdd(L), IsFiniteSet(CreditedOrders(L)),
           NEW o \in Orders, L.byKey[o] = 0,
           NEW M, M = Applied(L, "purchase", o, CreditEntries(Buyer[o], Price[o]), 0)
    PROVE  /\ IsLedger(M) /\ CoinsAdd(M)
           /\ CreditedOrders(M) = CreditedOrders(L) \cup {o}
           /\ IsFiniteSet(CreditedOrders(M))
<1> DEFINE e == CreditEntries(Buyer[o], Price[o])
           C == CreditedOrders(L)
           D == CreditedOrders(M)
<1>1. Buyer[o] \in Users /\ Price[o] \in Int /\ o \in Keys
  BY OrdersAssumption
<1>2. /\ IsEntries(e) /\ Coins(Buyer[o]) \in DOMAIN e
      /\ e[Coins(Buyer[o])] = Price[o]
      /\ \A v \in Users \ {Buyer[o]} : Coins(v) \notin DOMAIN e
  <2>1. e = CreditEntries(Buyer[o], Price[o])
    OBVIOUS
  <2> HIDE DEF e
  <2>2. Credits(e, Buyer[o], Price[o])
    BY <1>1, <2>1, CreditEntriesAre
  <2>3. QED
    BY <2>2 DEF Credits
<1>3. IsLedger(M)
  BY <1>1, <1>2, AppliedType DEF Kinds
<1>4. L.seq \in Nat /\ M.byKey = [L.byKey EXCEPT ![o] = L.seq + 1]
  BY DEF Applied, IsLedger
<1>5. D = C \cup {o} /\ o \notin C
  BY <1>1, <1>4, OrdersAssumption DEF CreditedOrders, IsLedger
<1>6. IsFiniteSet(D)
  BY <1>5, FS_AddElement
<1>7. ASSUME NEW u \in Users
      PROVE  M.balances[Coins(u)]
                 = SumFunctionOnSet(Price, {p \in CreditedOrders(M) : Buyer[p] = u})
  <2> DEFINE S == {p \in C : Buyer[p] = u}
             T == {p \in D : Buyer[p] = u}
  <2>1. L.balances[Coins(u)] = SumFunctionOnSet(Price, S) /\ L.balances[Coins(u)] \in Int
    BY DEF CoinsAdd, IsLedger, Accounts, Wallets
  <2>2. M.balances[Coins(u)] = L.balances[Coins(u)]
                                 + (IF Coins(u) \in DOMAIN e THEN e[Coins(u)] ELSE 0)
    BY DEF Applied, Proposed, Accounts, Wallets
  <2>3. CASE u = Buyer[o]
    <3>1. T \ {o} = S /\ o \in T
      BY <1>5, <2>3
    <3>2. IsFiniteSet(T) /\ \A p \in T : Price[p] \in Int
      BY <1>6, FS_Subset, OrdersAssumption DEF CreditedOrders
    <3> HIDE DEF S, T, e
    <3>3. SumFunctionOnSet(Price, T) = Price[o] + SumFunctionOnSet(Price, S)
      BY <3>1, <3>2, SumTakeOut
    <3>4. M.balances[Coins(u)] = L.balances[Coins(u)] + Price[o]
      BY <1>2, <2>2, <2>3
    <3>5. QED
      BY <1>1, <2>1, <3>3, <3>4 DEF T
  <2>4. CASE u # Buyer[o]
    <3>1. T = S
      BY <1>5, <2>4
    <3>2. M.balances[Coins(u)] = L.balances[Coins(u)]
      BY <1>2, <2>1, <2>2, <2>4
    <3>3. QED
      BY <2>1, <3>1, <3>2
  <2>5. QED
    BY <2>3, <2>4
<1>8. CoinsAdd(M)
  BY <1>7 DEF CoinsAdd
<1>9. QED
  BY <1>3, <1>5, <1>6, <1>8

(* The coins are posted under the key of the order. *)
LEMMA PostCreditStep ==
    ASSUME IInv, NEW r \in Runners, PostCredit(r)
    PROVE  IInv'
<1> DEFINE o == run[r].order
           reply == Post(ledger, "purchase", o, CreditEntries(Buyer[o], Price[o]))
<1>1. /\ At(r, "post") /\ ~ At(r, "idle") /\ Goto(r, "credited")
      /\ ledger' = reply.ledger /\ UNCHANGED <<order, store, batch>>
  BY DEF PostCredit, At
<1>2. o \in Orders /\ run[r].copy.status = "crediting" /\ BoughtIn(store, o)
  BY <1>1, RunFields DEF RunSound, CopySound, At
<1>3. /\ run' \in [Runners -> Run] /\ \A q \in Runners \ {r} : run'[q] = run[q]
      /\ RunSound(store, run'[r])
  <2>1. "credited" \in Steps
    BY DEF Steps
  <2>2. QED
    BY <1>1, <1>2, <2>1, RunFields, GotoFields DEF RunSound
<1>4. \A q \in Runners : RunSound(store, run'[q])
  BY <1>3 DEF IInv
<1>5. reply = PostLocked(ledger, "purchase", o, CreditEntries(Buyer[o], Price[o]), 0)
  BY DEF Post
<1> HIDE DEF reply
<1>6. CASE ledger' = ledger
  BY <1>1, <1>3, <1>4, <1>6 DEF IInv, TypeOK
<1>7. CASE /\ ledger' = Applied(ledger, "purchase", o, CreditEntries(Buyer[o], Price[o]), 0)
           /\ ledger.byKey[o] = 0
  <2>1. IsLedger(ledger) /\ CoinsAdd(ledger) /\ IsFiniteSet(CreditedOrders(ledger))
    BY DEF IInv, TypeOK
  <2>2. /\ IsLedger(ledger') /\ CoinsAdd(ledger')
        /\ CreditedOrders(ledger') = CreditedOrders(ledger) \cup {o}
        /\ IsFiniteSet(CreditedOrders(ledger'))
    BY <1>2, <1>7, <2>1, CreditAdds
  <2>3. TypeOK'
    BY <1>1, <1>3, <2>2 DEF IInv, TypeOK
  <2>4. \A p \in CreditedOrders(ledger') : BoughtIn(store, p)
    BY <1>2, <2>2 DEF IInv
  <2> HIDE DEF o
  <2>5. QED
    BY <1>1, <1>4, <2>2, <2>3, <2>4 DEF IInv
<1>8. QED
  BY <1>1, <1>5, <1>6, <1>7, PostLockedCases

-----------------------------------------------------------------------------
(* Every step keeps the invariant *)

(* Any step of a request or of the reconciler. *)
LEMMA RunnerStep ==
    ASSUME IInv, NEW r \in Runners, Step(r)
    PROVE  IInv'
<1>1. CASE FindByTokenHash(r) \/ ClaimToken(r)
  BY <1>1, FindByTokenHashStep, ClaimTokenStep
<1>2. CASE Confirm(r) \/ Reject(r) \/ NotYet(r)
  BY <1>2, AnswerStep
<1>3. CASE FailUsedElsewhere(r) \/ WriteWaiting(r) \/ WriteRejected(r) \/ WriteCredited(r)
  BY <1>3, FinalWritesStep
<1>4. CASE WritePaid(r) \/ WriteCrediting(r)
  BY <1>4, WriteStatusStep
<1>5. CASE PostCredit(r)
  BY <1>5, PostCreditStep
<1>6. QED
  BY <1>1, <1>2, <1>3, <1>4, <1>5 DEF Step

(* Every step keeps the invariant. *)
LEMMA NextStep == ASSUME IInv, [Next]_vars PROVE IInv'
<1>1. ASSUME NEW o \in Orders, CreateOrder(o) \/ Reconcile(o) PROVE IInv'
  BY <1>1, CreateOrderStep, ReconcileStep
<1>2. ASSUME NEW t \in Tokens, Settle(t) PROVE IInv'
  BY <1>2, SettleStep
<1>3. CASE Crash \/ ListNonTerminal
  BY <1>3, CrashStep, ListStep
<1>4. ASSUME NEW c \in Clients, NEW o \in Orders, NEW t \in Tokens, VerifyOrder(c, o, t)
      PROVE  IInv'
  BY <1>4, VerifyOrderStep
<1>5. ASSUME NEW r \in Runners, Step(r) PROVE IInv'
  BY <1>5, RunnerStep
<1>6. ASSUME NEW c \in Clients, Abandon(c) PROVE IInv'
  BY <1>6, ReturnStep DEF Abandon, Runners
<1>7. CASE UNCHANGED vars
  BY <1>7 DEF vars, IInv, TypeOK, CreditedOrders
<1>8. QED
  BY <1>1, <1>2, <1>3, <1>4, <1>5, <1>6, <1>7 DEF Next

(* It holds before the first order. *)
LEMMA InitInvariant == Init => IInv
<1> SUFFICES ASSUME Init PROVE IInv
  OBVIOUS
<1>1. /\ IsLedger(ledger) /\ ledger.byKey = [k \in Keys |-> 0]
      /\ ledger.balances = [a \in Accounts |-> 0]
  BY NewLedgerSound DEF Init, NewMemLedger, Sound
<1>2. order \in [Orders -> Rows]
  BY DEF Init, Rows, Statuses
<1>3. \A o \in Orders : order[o].status = "absent" /\ order[o].token = NoToken
  BY DEF Init
<1>4. \A o \in Orders : CopySound(store, o, order[o])
  BY <1>3, OrdersAssumption DEF CopySound
<1>5. store \in Stores
  BY DEF Init, Stores
<1>6. run \in [Runners -> Run] /\ \A r \in Runners : RunSound(store, run[r])
  BY IdleSound DEF Init
<1>7. batch = << >> /\ DOMAIN batch = {} /\ batch \in [DOMAIN batch -> Rows]
  BY DEF Init
<1>8. TypeOK
  BY <1>1, <1>2, <1>5, <1>6, <1>7 DEF TypeOK
<1>9. CreditedOrders(ledger) = {}
  BY <1>1, OrdersAssumption DEF CreditedOrders
<1>10. CoinsAdd(ledger)
  <2>1. ASSUME NEW u \in Users
        PROVE  ledger.balances[Coins(u)]
                   = SumFunctionOnSet(Price, {o \in CreditedOrders(ledger) : Buyer[o] = u})
    <3>1. {o \in CreditedOrders(ledger) : Buyer[o] = u} = {}
      BY <1>9
    <3>2. ledger.balances[Coins(u)] = 0
      BY <1>1 DEF Accounts, Wallets
    <3>3. QED
      BY <3>1, <3>2, SumEmpty
  <2>2. QED
    BY <2>1 DEF CoinsAdd
<1>11. QED
  BY <1>4, <1>6, <1>7, <1>8, <1>9, <1>10, FS_EmptySet DEF IInv

(* Every copy of a row, stored, listed or at work, is sound: past pending   *)
(* it stands for a purchase the store has confirmed.                        *)
THEOREM Invariant == Spec => []IInv
<1>1. Init => IInv
  BY InitInvariant
<1>2. IInv /\ [Next]_vars => IInv'
  BY NextStep
<1>3. QED
  BY <1>1, <1>2, PTL DEF Spec

(* Coins come from payments, for any number of tokens a client sends for an *)
(* order: what is credited was bought with one of them, for that order, and *)
(* the store confirmed it.                                                  *)
CreditedWasBought ==
    \A o \in Orders : Credited(o) =>
        \E t \in Offers[o] : store.state[t] = "paid" /\ <<t, o>> \in store.bought

(* CreditedWasBought: no order is credited for a token the store did not
   confirm for it, as Verify and the reconciler race. *)
THEOREM CoinsComeFromPurchases == Spec => []CreditedWasBought
<1>1. IInv => CreditedWasBought
  BY DEF IInv, BoughtIn, CreditedOrders, Credited, CreditedWasBought
<1>2. QED
  BY <1>1, Invariant, PTL

(* Each buyer's balance is exactly the coins of his credited orders, each   *)
(* counted once, however often it was verified, retried and reconciled.     *)
THEOREM NeverCreditedTwice == Spec => []CreditedOnce
<1>1. IInv => CreditedOnce
  <2> SUFFICES ASSUME IInv, NEW u \in Users
               PROVE  ledger.balances[Coins(u)] =
                          SumFunctionOnSet(Price, {o \in Orders : Buyer[o] = u /\ Credited(o)})
    BY DEF CreditedOnce
  <2>1. {o \in CreditedOrders(ledger) : Buyer[o] = u} = {o \in Orders : Buyer[o] = u /\ Credited(o)}
    BY DEF CreditedOrders, Credited
  <2>2. QED
    BY <2>1 DEF IInv, CoinsAdd
<1>2. QED
  BY <1>1, Invariant, PTL

-----------------------------------------------------------------------------
(* With one token for each order, the token on a row is the one that paid   *)

(* A row that has a token keeps it, and shares it with no other. *)
LEMMA TokensKept ==
    ASSUME TokensStand,
           \A o \in Orders : order[o].token # NoToken => order'[o].token = order[o].token,
           \A o \in Orders : order'[o].token # NoToken =>
               \A p \in Orders \ {o} : order'[p].token # order'[o].token,
           DOMAIN batch' \subseteq Orders,
           \A o \in DOMAIN batch' :
               batch'[o] = order'[o] \/ (o \in DOMAIN batch /\ batch'[o] = batch[o]),
           \A r \in Runners : run'[r].pc # "idle" =>
               /\ run'[r].order \in Orders
               /\ Stands(run'[r].order, run'[r].copy)
                      \/ order'[run'[r].order].token = run'[r].copy.token,
           \A o \in Orders : Credited(o)' => Credited(o) \/ order[o].token # NoToken
    PROVE  TokensStand'
<1>1. \A r \in Runners : run'[r].pc # "idle" =>
          (run'[r].copy.token # NoToken => order'[run'[r].order].token = run'[r].copy.token)
  BY DEF Stands
<1>2. \A o \in DOMAIN batch' :
          batch'[o].token # NoToken => order'[o].token = batch'[o].token
  BY DEF TokensStand, Stands
<1>3. \A o \in Orders : Credited(o)' => order'[o].token # NoToken
  BY DEF TokensStand
<1>4. QED
  BY <1>1, <1>2, <1>3 DEF TokensStand, Stands, At

(* Writing back a copy that stands leaves the row its token. *)
LEMMA WriteTokens ==
    ASSUME order \in [Orders -> Rows], NEW o \in Orders, NEW copy, Write(o, copy),
           Stands(o, copy)
    PROVE  \A p \in Orders : order'[p].token = order[p].token
<1> DEFINE t == IF copy.token = NoToken THEN order[o].token ELSE copy.token
           row == [status |-> copy.status, token |-> t]
<1>1. order' = [order EXCEPT ![o] = row]
  BY DEF Write
<1>2. row.token = t
  OBVIOUS
<1>3. t = order[o].token
  BY DEF Stands
<1> HIDE DEF row, t
<1>4. QED
  BY <1>1, <1>2, <1>3

(* A step of a run that keeps every row's token, its own order and the      *)
(* token of its copy.                                                       *)
LEMMA TokensSameStep ==
    ASSUME IInv, TokensStand, NEW r \in Runners, ~ At(r, "idle"),
           \A p \in Orders : order'[p].token = order[p].token, UNCHANGED batch,
           \A q \in Runners \ {r} : run'[q] = run[q],
           run'[r].pc = "idle" \/ (/\ run'[r].order = run[r].order
                                   /\ run'[r].copy.token = run[r].copy.token),
           \A o \in Orders : Credited(o)' => Credited(o) \/ order[o].token # NoToken
    PROVE  TokensStand'
<1>1. ASSUME NEW q \in Runners, run'[q].pc # "idle"
      PROVE  run'[q].order \in Orders /\ Stands(run'[q].order, run'[q].copy)
  <2>1. CASE q = r
    <3>1. run[r].order \in Orders /\ Stands(run[r].order, run[r].copy)
      BY RunFields DEF TokensStand
    <3>2. QED
      BY <1>1, <2>1, <3>1 DEF Stands
  <2>2. CASE q # r
    <3>1. ~ At(q, "idle") /\ run'[q] = run[q]
      BY <1>1, <2>2 DEF At
    <3>2. QED
      BY <3>1, RunFields DEF TokensStand
  <2>3. QED
    BY <2>1, <2>2
<1>2. \A o \in Orders : order'[o].token # NoToken =>
          \A p \in Orders \ {o} : order'[p].token # order'[o].token
  BY DEF TokensStand
<1>3. DOMAIN batch' \subseteq Orders /\ batch' = batch
  BY DEF IInv, TypeOK
<1>4. QED
  BY <1>1, <1>2, <1>3, TokensKept

(* A step that only moves its run on, or ends it. *)
LEMMA MovesOn ==
    ASSUME IInv, NEW r \in Runners, Return(r) \/ \E pc \in Steps : Goto(r, pc)
    PROVE  /\ \A q \in Runners \ {r} : run'[q] = run[q]
           /\ run'[r].pc = "idle" \/ (/\ run'[r].order = run[r].order
                                      /\ run'[r].copy = run[r].copy)
BY ReturnFields, GotoFields

(* Claiming a token keeps each token with one order. *)
LEMMA TokensOfClaim ==
    ASSUME OneTokenEach, IInv, TokensStand, NEW r \in Runners, ClaimToken(r)
    PROVE  TokensStand'
<1> DEFINE o == run[r].order
           t == run[r].token
           copy == [status |-> "pending_payment", token |-> t]
<1>1. /\ ~ At(r, "idle") /\ UNCHANGED <<store, ledger, batch>>
      /\ order \in [Orders -> Rows] /\ run \in [Runners -> Run]
      /\ \A p \in Orders : Credited(p)' <=> Credited(p)
  BY DEF ClaimToken, At, Credited, IInv, TypeOK
<1>2. CASE Return(r) /\ UNCHANGED order
  BY <1>1, <1>2, MovesOn, TokensSameStep
<1>3. CASE /\ ~ UniqueIndexRefuses(o, t) /\ Write(o, copy)
           /\ run' = [run EXCEPT ![r].copy = copy, ![r].pc = "verify"]
  <2>1. o \in Orders /\ t \in Offers[o] /\ t \in Tokens /\ CopySound(store, o, order[o])
    BY <1>1, RunFields DEF IInv
  <2>2. t # NoToken /\ order[o].token \in {t, NoToken}
    BY <2>1, OrdersAssumption DEF CopySound, OneTokenEach
  <2>3. copy \in Rows /\ copy.status = "pending_payment" /\ copy.token = t
    BY <2>1 DEF Rows, Statuses
  <2>4. CopySound(store, o, copy)
    BY <2>1, <2>3 DEF CopySound
  <2>5. run' \in [Runners -> Run]
    BY <1>1, <1>3, <2>3 DEF Run, Steps
  <2>6. run'[r].order = o /\ run'[r].copy = copy /\ \A q \in Runners \ {r} : run'[q] = run[q]
    BY <1>1, <1>3, <2>5 DEF Run
  <2> HIDE DEF copy
  <2>7. order'[o].token = t /\ \A p \in Orders \ {o} : order'[p] = order[p]
    BY <1>3, <2>1, <2>2, <2>3, <2>4, WriteFields
  <2>8. \A p \in Orders \ {o} : order[p].token # t
    BY <1>3 DEF UniqueIndexRefuses
  <2>9. \A p \in Orders : order[p].token # NoToken => order'[p].token = order[p].token
    BY <2>2, <2>7
  <2>10. \A p \in Orders : order'[p].token # NoToken =>
             \A q \in Orders \ {p} : order'[q].token # order'[p].token
    BY <2>7, <2>8 DEF TokensStand
  <2>11. ASSUME NEW q \in Runners, run'[q].pc # "idle"
         PROVE  /\ run'[q].order \in Orders
                /\ Stands(run'[q].order, run'[q].copy)
                       \/ order'[run'[q].order].token = run'[q].copy.token
    <3>1. CASE q = r
      BY <2>1, <2>3, <2>6, <2>7, <3>1
    <3>2. CASE q # r
      <4>1. ~ At(q, "idle") /\ run'[q] = run[q]
        BY <2>6, <2>11, <3>2 DEF At
      <4>2. QED
        BY <4>1, RunFields DEF TokensStand
    <3>3. QED
      BY <3>1, <3>2
  <2>12. DOMAIN batch' \subseteq Orders /\ batch' = batch
    BY <1>1 DEF IInv, TypeOK
  <2>13. QED
    BY <1>1, <2>9, <2>10, <2>11, <2>12, TokensKept
<1>4. QED
  BY <1>2, <1>3 DEF ClaimToken

(* The other steps of advance() write back copies that stand. *)
LEMMA TokensOfStep ==
    ASSUME IInv, TokensStand, NEW r \in Runners, Step(r), ~ ClaimToken(r)
    PROVE  TokensStand'
<1> DEFINE o == run[r].order
           c == run[r].copy
<1>1. /\ ~ At(r, "idle") /\ UNCHANGED batch
      /\ order \in [Orders -> Rows] /\ run \in [Runners -> Run]
  BY DEF Step, FindByTokenHash, FailUsedElsewhere, ClaimToken, Confirm, Reject, NotYet,
     WriteWaiting, WriteRejected, WritePaid, WriteCrediting, PostCredit, WriteCredited,
     At, IInv, TypeOK
<1>2. o \in Orders /\ c \in Rows /\ Stands(o, c) /\ CopySound(store, o, c)
  BY <1>1, RunFields DEF TokensStand
<1>3. CASE FindByTokenHash(r) \/ Confirm(r) \/ Reject(r) \/ NotYet(r)
  <2>1. UNCHANGED <<order, ledger>>
    BY <1>3 DEF FindByTokenHash, Confirm, Reject, NotYet
  <2>2. CASE FindByTokenHash(r)
    <3>1. At(r, "find") /\ c.status \in {"created", "pending_payment", "paid", "crediting"}
      BY <1>1, <2>2, RunFields DEF FindByTokenHash, RunSound, At
    <3>2. \E pc \in Steps : Goto(r, pc)
      BY <2>2, <3>1 DEF FindByTokenHash, Steps
    <3>3. QED
      BY <1>1, <2>1, <3>2, MovesOn, TokensSameStep DEF Credited
  <2>3. CASE Confirm(r) \/ Reject(r) \/ NotYet(r)
    <3>1. Return(r) \/ \E pc \in Steps : Goto(r, pc)
      BY <2>3 DEF Confirm, Reject, NotYet, Steps
    <3>2. QED
      BY <1>1, <2>1, <3>1, MovesOn, TokensSameStep DEF Credited
  <2>4. QED
    BY <1>3, <2>2, <2>3
<1>4. ASSUME NEW status, WriteStatusAndReturn(r, status), UNCHANGED ledger
      PROVE  TokensStand'
  <2> DEFINE copy == [c EXCEPT !.status = status]
  <2>1. Write(o, copy) /\ Return(r)
    BY <1>4 DEF WriteStatusAndReturn
  <2>2. copy.token = c.token
    BY <1>2 DEF Rows
  <2> HIDE DEF copy, o, c
  <2>3. \A p \in Orders : order'[p].token = order[p].token
    BY <1>1, <1>2, <2>1, <2>2, WriteTokens DEF Stands
  <2>4. QED
    BY <1>1, <1>4, <2>1, <2>3, MovesOn, TokensSameStep DEF Credited
<1>5. ASSUME NEW status \in Statuses, NEW pc \in Steps, WriteStatus(r, status, pc),
             UNCHANGED ledger
      PROVE  TokensStand'
  <2> DEFINE copy == [c EXCEPT !.status = status]
  <2>1. Write(o, copy) /\ run' = [run EXCEPT ![r].copy = copy, ![r].pc = pc]
    BY <1>5 DEF WriteStatus
  <2>2. copy \in Rows /\ copy.token = c.token
    BY <1>2, <1>5 DEF Rows
  <2> HIDE DEF copy
  <2>3. run' \in [Runners -> Run]
    BY <1>1, <1>5, <2>1, <2>2 DEF Run
  <2>4. run'[r].order = o /\ run'[r].copy = copy /\ \A q \in Runners \ {r} : run'[q] = run[q]
    BY <1>1, <2>1, <2>3 DEF Run
  <2>5. \A p \in Orders : order'[p].token = order[p].token
    <3> HIDE DEF o, c
    <3>1. QED
      BY <1>1, <1>2, <2>1, <2>2, WriteTokens DEF Stands
  <2>6. QED
    BY <1>1, <1>5, <2>2, <2>4, <2>5, TokensSameStep DEF Credited
<1>6. CASE FailUsedElsewhere(r) \/ WriteWaiting(r) \/ WriteRejected(r) \/ WriteCredited(r)
  BY <1>4, <1>6 DEF FailUsedElsewhere, WriteWaiting, WriteRejected, WriteCredited
<1>7. CASE WritePaid(r) \/ WriteCrediting(r)
  BY <1>5, <1>7 DEF WritePaid, WriteCrediting, Statuses, Steps
<1>8. CASE PostCredit(r)
  <2>1. UNCHANGED order /\ Goto(r, "credited") /\ "credited" \in Steps
    BY <1>8 DEF PostCredit, Steps
  <2>2. c.token # NoToken
    BY <1>1, <1>2, <1>8, RunFields, OrdersAssumption DEF PostCredit, RunSound, CopySound, At
  <2>3. order[o].token # NoToken
    BY <1>2, <2>2 DEF Stands
  <2>4. \A p \in Orders : Credited(p)' => Credited(p) \/ order[p].token # NoToken
    <3> DEFINE reply == Post(ledger, "purchase", o, CreditEntries(Buyer[o], Price[o]))
    <3>1. ledger' = reply.ledger /\ reply = PostLocked(ledger, "purchase", o, CreditEntries(Buyer[o], Price[o]), 0)
      BY <1>8 DEF PostCredit, Post
    <3> HIDE DEF reply
    <3>2. CASE ledger' = ledger
      BY <3>2 DEF Credited
    <3>3. CASE ledger' = Applied(ledger, "purchase", o, CreditEntries(Buyer[o], Price[o]), 0)
      <4>1. \A p \in Orders \ {o} : ledger'.byKey[p] = ledger.byKey[p]
        BY <3>3, OrdersAssumption DEF Applied, IInv, TypeOK, IsLedger
      <4>2. QED
        BY <2>3, <4>1 DEF Credited
    <3>4. QED
      BY <3>1, <3>2, <3>3, PostLockedCases
  <2>5. QED
    BY <1>1, <2>1, <2>4, MovesOn, TokensSameStep
<1>9. QED
  BY <1>3, <1>6, <1>7, <1>8 DEF Step

(* A run that starts on a copy that stands. *)
LEMMA TokensOfAdvance ==
    ASSUME IInv, TokensStand, NEW r \in Runners, NEW o \in Orders, NEW copy \in Rows, NEW token,
           token \in Offers[o], CopySound(store, o, copy), copy.status # "absent",
           Advance(r, o, copy, token), Stands(o, copy), UNCHANGED <<order, ledger>>,
           DOMAIN batch' \subseteq DOMAIN batch,
           \A p \in DOMAIN batch' : batch'[p] = batch[p]
    PROVE  TokensStand'
<1>1. /\ \A q \in Runners \ {r} : run'[q] = run[q]
      /\ run'[r].pc # "idle" => run'[r].order = o /\ run'[r].copy = copy
  BY AdvanceStep
<1>2. ASSUME NEW q \in Runners, run'[q].pc # "idle"
      PROVE  run'[q].order \in Orders /\ Stands(run'[q].order, run'[q].copy)
  <2>1. CASE q = r
    BY <1>1, <1>2, <2>1
  <2>2. CASE q # r
    <3>1. ~ At(q, "idle") /\ run'[q] = run[q]
      BY <1>1, <1>2, <2>2 DEF At
    <3>2. QED
      BY <3>1, RunFields DEF TokensStand
  <2>3. QED
    BY <2>1, <2>2
<1>3. DOMAIN batch' \subseteq Orders
  BY DEF IInv, TypeOK
<1>4. \A p \in Orders : order'[p].token # NoToken =>
          \A q \in Orders \ {p} : order'[q].token # order'[p].token
  BY DEF TokensStand
<1>5. QED
  BY <1>2, <1>3, <1>4, TokensKept DEF Credited

(* ... and so does every other step. *)
LEMMA TokensNext ==
    ASSUME OneTokenEach, IInv, TokensStand, [Next]_vars
    PROVE  TokensStand'
<1>1. /\ order \in [Orders -> Rows] /\ DOMAIN batch \subseteq Orders
      /\ \A r \in Runners : ~ At(r, "idle") =>
             run[r].order \in Orders /\ Stands(run[r].order, run[r].copy)
      /\ \A o \in Orders : order[o].token # NoToken =>
             \A p \in Orders \ {o} : order[p].token # order[o].token
  BY RunFields DEF IInv, TypeOK, TokensStand
<1>2. ASSUME NEW o \in Orders, CreateOrder(o) PROVE TokensStand'
  <2>1. order' = [order EXCEPT ![o].status = "created"] /\ UNCHANGED <<ledger, run, batch>>
    BY <1>2 DEF CreateOrder
  <2>2. order' \in [Orders -> Rows]
    BY <1>1, <2>1 DEF Rows, Statuses
  <2>3. \A p \in Orders : order'[p].token = order[p].token
    BY <1>1, <2>1, <2>2 DEF Rows
  <2>4. QED
    BY <1>1, <2>1, <2>3, TokensKept DEF Credited, At
<1>3. ASSUME NEW o \in Orders, Reconcile(o) PROVE TokensStand'
  <2>1. /\ o \in DOMAIN batch /\ Reconciler \in Runners
        /\ Advance(Reconciler, o, batch[o], batch[o].token)
        /\ batch' = Restrict(batch, DOMAIN batch \ {o})
        /\ UNCHANGED <<order, store, ledger>>
    BY <1>3 DEF Reconcile, Runners
  <2>2. /\ batch[o] \in Rows /\ CopySound(store, o, batch[o]) /\ Stands(o, batch[o])
        /\ batch[o].status # "absent" /\ batch[o].token \in Offers[o]
    BY <2>1 DEF IInv, TypeOK, CopySound, NonTerminal, TokensStand
  <2>3. DOMAIN batch' \subseteq DOMAIN batch /\ \A p \in DOMAIN batch' : batch'[p] = batch[p]
    BY <2>1 DEF Restrict
  <2>4. QED
    BY <2>1, <2>2, <2>3, TokensOfAdvance
<1>4. ASSUME NEW c \in Clients, NEW o \in Orders, NEW t \in Tokens, VerifyOrder(c, o, t)
      PROVE  TokensStand'
  <2>1. /\ order[o] \in Rows /\ CopySound(store, o, order[o]) /\ c \in Runners
        /\ order[o].status # "absent" /\ t \in Offers[o] /\ Advance(c, o, order[o], t)
        /\ UNCHANGED <<order, store, ledger, batch>>
    BY <1>4 DEF IInv, TypeOK, VerifyOrder, Runners
  <2>2. Stands(o, order[o])
    BY DEF Stands
  <2>3. QED
    BY <2>1, <2>2, TokensOfAdvance
<1>5. CASE Crash
  <2>1. /\ UNCHANGED <<order, ledger>> /\ DOMAIN batch' = {}
        /\ \A r \in Runners : run'[r].pc = "idle"
    BY <1>5 DEF Crash, Idle
  <2>2. QED
    BY <1>1, <2>1, TokensKept DEF Credited
<1>6. CASE ListNonTerminal
  <2> DEFINE due == {o \in Orders : order[o].status \in NonTerminal}
  <2>1. batch' = [o \in due |-> order[o]] /\ UNCHANGED <<order, ledger, run>>
    BY <1>6 DEF ListNonTerminal
  <2>2. DOMAIN batch' \subseteq Orders /\ \A o \in DOMAIN batch' : batch'[o] = order'[o]
    BY <2>1
  <2> HIDE DEF due
  <2>3. QED
    BY <1>1, <2>1, <2>2, TokensKept DEF Credited, At
<1>7. ASSUME NEW t \in Tokens, Settle(t) PROVE TokensStand'
  BY <1>1, <1>7, TokensKept DEF Settle, Credited, At
<1>8. ASSUME NEW r \in Runners, Step(r) PROVE TokensStand'
  BY <1>8, TokensOfClaim, TokensOfStep
<1>9. ASSUME NEW c \in Clients, Abandon(c) PROVE TokensStand'
  <2>1. c \in Runners /\ ~ At(c, "idle") /\ Return(c) /\ UNCHANGED <<order, ledger, batch>>
    BY <1>9 DEF Abandon, Runners
  <2>2. QED
    BY <2>1, MovesOn, TokensSameStep DEF Credited
<1>10. CASE UNCHANGED vars
  BY <1>1, <1>10, TokensKept DEF vars, Credited, At
<1>11. QED
  BY <1>2, <1>3, <1>4, <1>5, <1>6, <1>7, <1>8, <1>9, <1>10 DEF Next

(* When a client sends one token for an order, as a store's checkout hands  *)
(* it one, the token the row holds is the one that paid for the coins, and  *)
(* no other credited order holds it.                                        *)
THEOREM CoinsComeFromPayments ==
    ASSUME OneTokenEach
    PROVE  Spec => []CreditedWasPaid
<1>1. Init => TokensStand
  <2> SUFFICES ASSUME Init PROVE TokensStand
    OBVIOUS
  <2>1. /\ \A o \in Orders : order[o].token = NoToken
        /\ \A r \in Runners : run[r].pc = "idle"
        /\ DOMAIN batch = {}
    BY DEF Init, Idle
  <2>2. \A o \in Orders : ~ Credited(o)
    BY OrdersAssumption DEF Init, NewMemLedger, Credited
  <2>3. QED
    BY <2>1, <2>2 DEF TokensStand, At
<1>2. IInv /\ TokensStand /\ [Next]_vars => TokensStand'
  BY TokensNext
<1>3. IInv /\ TokensStand => CreditedWasPaid
  <2> SUFFICES ASSUME IInv, TokensStand, NEW o \in Orders, Credited(o)
               PROVE  /\ order[o].token \in Offers[o]
                      /\ store.state[order[o].token] = "paid"
                      /\ <<order[o].token, o>> \in store.bought
                      /\ \A p \in Orders \ {o} : Credited(p) => order[p].token # order[o].token
    BY DEF CreditedWasPaid
  <2>1. BoughtIn(store, o) /\ CopySound(store, o, order[o]) /\ order[o].token # NoToken
    BY DEF IInv, TokensStand, Credited, CreditedOrders
  <2>2. PICK t \in Offers[o] : store.state[t] = "paid" /\ <<t, o>> \in store.bought
    BY <2>1 DEF BoughtIn
  <2>3. order[o].token = t
    BY <2>1, <2>2 DEF CopySound, OneTokenEach
  <2>4. QED
    BY <2>1, <2>2, <2>3 DEF TokensStand
<1>4. QED
  BY <1>1, <1>2, <1>3, Invariant, PTL DEF Spec
=============================================================================
