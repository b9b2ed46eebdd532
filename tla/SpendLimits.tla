----------------------------- MODULE SpendLimits -----------------------------
(****************************************************************************)
(* Self-set spend limits of one account (ledger/spendlimits.go and the      *)
(* PATCH handler): a lowered cap applies at once, a raised one 48 hours     *)
(* later.  The handler reads the row, changes it and stores it, without a   *)
(* lock.  Time goes in steps of a day; no request lasts that long.          *)
(*                                                                          *)
(* asked is history: when a cap was last asked to be a value.  missed is    *)
(* auxiliary: the row has been stored since the request read it.            *)
(****************************************************************************)
EXTENDS Calls, Functions

CONSTANTS
    Caps,       \* daily, weekly, monthly
    CapValues,  \* the values asked for
    RaiseDelay, \* days a raise waits
    LastDay     \* bound: the days of a run

ASSUME LimitsAssumption == CapValues \subseteq Nat /\ RaiseDelay \in Nat

VARIABLES
    day,
    limits,     \* the row: cap and pending raise of each, the day they are due, and
                \* the end of the cooling-off
    asked

limitsVars == <<day, limits, asked>>

Never == 0      \* the zero time; days are numbered from 1
Unset == 0      \* no cap, no pending raise, no change requested

NewLimits == [cap |-> [c \in Caps |-> Unset], pending |-> [c \in Caps |-> Unset],
              due |-> Never, coolingUntil |-> Never]

LimitsInit ==
    /\ day = 1
    /\ limits = NewLimits
    /\ asked = [x \in Caps \X CapValues |-> Never]

-----------------------------------------------------------------------------
(* resolvePendingIfDue *)
Resolved(l) ==
    IF l.due = Never \/ day < l.due THEN l
    ELSE [l EXCEPT !.cap = [c \in Caps |-> IF l.pending[c] # Unset THEN l.pending[c] ELSE @[c]],
                   !.pending = [c \in Caps |-> Unset],
                   !.due = Never]

(* applyOneCap: raising waits; lowering, or setting for the first time, does not *)
Keeps(cap, want) == want \in {Unset, cap}
Raises(cap, want) == cap # Unset /\ want > cap

(* Mutant of ApplyCapChange: a raise that is waiting already keeps its date. *)
ApplyWithoutWaiting(current, want) ==
    LET l == Resolved(current)
        pending == [c \in Caps |-> IF Keeps(l.cap[c], want[c]) THEN l.pending[c]
                                   ELSE IF Raises(l.cap[c], want[c]) THEN want[c] ELSE Unset] IN
    [l EXCEPT !.cap = [c \in Caps |-> IF Keeps(@[c], want[c]) \/ Raises(@[c], want[c])
                                      THEN @[c] ELSE want[c]],
              !.pending = pending,
              !.due = IF \A c \in Caps : pending[c] = Unset THEN Never
                      ELSE IF l.due # Never THEN l.due ELSE day + RaiseDelay]

(* ApplyCapChange: every change moves the date of whatever is pending after it *)
ApplyCapChange(current, want) ==
    LET l == Resolved(current)
        pending == [c \in Caps |-> IF Keeps(l.cap[c], want[c]) THEN l.pending[c]
                                   ELSE IF Raises(l.cap[c], want[c]) THEN want[c] ELSE Unset] IN
    [l EXCEPT !.cap = [c \in Caps |-> IF Keeps(@[c], want[c]) \/ Raises(@[c], want[c])
                                      THEN @[c] ELSE want[c]],
              !.pending = pending,
              !.due = IF \A c \in Caps : pending[c] = Unset THEN Never ELSE day + RaiseDelay]

-----------------------------------------------------------------------------
(* UpdateSpendLimits; cooling is {} when the request does not say.  A cooling-off lasts
   a day; one that is called off has no end, and blocks as little as one gone by.
   What a request says of the caps and of the cooling-off are apart; it says one. *)
UpdateSpendLimits(k, want, cooling) ==
    LET l == ApplyCapChange(limits, want) IN
    /\ Begin(IF cooling = {} THEN "caps" ELSE "cooling", k,
            [op |-> "limits", pc |-> "set", missed |-> FALSE, want |-> want,
             row |-> IF cooling = {} THEN l
                     ELSE [l EXCEPT !.coolingUntil =
                                IF TRUE \in cooling THEN day + 1 ELSE Never]])
    /\ UNCHANGED limitsVars

SetLimits(k) ==
    /\ At(k, "limits", "set")
    /\ limits' = call[k].row
    /\ asked' = [x \in Caps \X CapValues |->
                    IF call[k].want[x[1]] = x[2] THEN day ELSE asked[x]]
    /\ call' = [j \in Slots |-> IF j = k THEN Idle
                                ELSE IF call[j].op \in {"limits", "order"}
                                THEN [call[j] EXCEPT !.missed = TRUE] ELSE call[j]]
    /\ UNCHANGED <<served, failed, load, day>>

Tick ==
    /\ Serving({"caps", "cooling"})
    /\ day < LastDay
    /\ \A k \in Slots : call[k] = Idle
    /\ day' = day + 1
    /\ UNCHANGED <<callVars, limits, asked>>

(* bound: what requests say of the caps, next to orders of one cap at a time *)
Wants ==
    {want \in [Caps -> CapValues \cup {Unset}] :
        Serving({"orders"}) => Cardinality({c \in Caps : want[c] # Unset}) <= 1}

LimitsNext ==
    \/ \E k \in Slots, want \in Wants : UpdateSpendLimits(k, want, {})
    \/ \E k \in Slots, cooling \in {{TRUE}, {FALSE}} :
            UpdateSpendLimits(k, [c \in Caps |-> Unset], cooling)
    \/ \E k \in Slots : SetLimits(k)
    \/ Tick

-----------------------------------------------------------------------------
Cap(c) == Resolved(limits).cap[c]

StoredOverAnother == \E k \in Slots :
    At(k, "limits", "set") /\ call[k].missed /\ call'[k] = Idle /\ limits' = call[k].row

(* A cap goes up only when that value was asked for two days before, and not again
   since, whatever other caps are lowered, raised or asked for in between; a change
   that was stored over another one nobody read is the exception (spendlimits.go:
   "raising them requires a 48-hour cooling-off period"). *)
RaiseWaits ==
    \A c \in Caps : Cap(c) # Unset /\ Cap(c)' > Cap(c)
        => StoredOverAnother \/ asked[<<c, Cap(c)'>>] + RaiseDelay <= day'

-----------------------------------------------------------------------------
(****************************************************************************)
(* POST /orders (ledger/ordersvc CreateOrder): the process's cache of       *)
(* Idempotency-Keys, the limits of the account, and the new row.  What      *)
(* becomes of the order afterwards is Orders's subject; here it may only    *)
(* fail, as a failed order counts for no cap.                               *)
(*                                                                          *)
(* The cache is one of all accounts, whose keys are taken to differ; the    *)
(* lookup of a key and the reading of the limits are one step.              *)
(*                                                                          *)
(* missed is auxiliary: limits or another order have been stored since the  *)
(* request came in, or it came in before an order of its key was in the     *)
(* cache.                                                                   *)
(****************************************************************************)

CONSTANTS
    OrderKeys,  \* the Idempotency-Key headers of the account
    Packs       \* the coins of a product

VARIABLES
    bought,     \* the account's orders, oldest first
    createByKey \* key -> the order created for it

purchaseVars == <<bought, createByKey>>

PurchasesInit ==
    /\ bought = <<>>
    /\ createByKey = <<>>

(* days a cap looks back *)
Window == [daily |-> 1, weekly |-> 7, monthly |-> 30]

(* coinsPurchasedSince *)
Counted(c) ==
    {i \in DOMAIN bought : ~bought[i].failed /\ bought[i].day + Window[c] >= day}

Spent(c) == SumFunctionOnSet([i \in DOMAIN bought |-> bought[i].coins], Counted(c))

CoolingOff(l) == day < l.coolingUntil

(* Mutant of ExceedsCap: what is bought now is not counted. *)
HasExceeded(l, c, coins) == l.cap[c] # Unset /\ Spent(c) > l.cap[c]

ExceedsCap(l, c, coins) == l.cap[c] # Unset /\ Spent(c) + coins > l.cap[c]

(* CreateOrder; a key in the cache is answered with the order it has *)
CreateOrder(k, key, coins) ==
    /\ key \notin DOMAIN createByKey
    /\ ~CoolingOff(Resolved(limits))
    /\ Begin("orders", k,
            [op |-> "order", pc |-> "sum", key |-> key, coins |-> coins,
             row |-> Resolved(limits), unchecked |-> Caps,
             missed |-> \E j \in Slots : At(j, "order", "remember") /\ call[j].key = key])
    /\ UNCHANGED <<limitsVars, purchaseVars>>

(* checkSpendLimits reads the orders again for each cap *)
CheckSpendLimit(k, c) ==
    /\ At(k, "order", "sum")
    /\ c \in call[k].unchecked
    /\ IF ExceedsCap(call[k].row, c, call[k].coins)
       THEN Answer(k) ELSE GoOn(k, [call[k] EXCEPT !.unchecked = @ \ {c}])
    /\ UNCHANGED <<limitsVars, purchaseVars>>

StoreOrder(k) ==
    /\ At(k, "order", "sum")
    /\ call[k].unchecked = {}
    /\ bought' = Append(bought, [key |-> call[k].key, coins |-> call[k].coins, day |-> day,
                                 failed |-> FALSE, missed |-> call[k].missed])
    /\ call' = [j \in Slots |->
                    IF j = k THEN [call[j] EXCEPT !.pc = "remember"]
                    ELSE IF call[j].op = "order" THEN [call[j] EXCEPT !.missed = TRUE]
                    ELSE call[j]]
    /\ UNCHANGED <<served, failed, load, limitsVars, createByKey>>

RememberKey(k) ==
    /\ At(k, "order", "remember")
    /\ createByKey' = (call[k].key :> Len(bought)) @@ createByKey
    /\ Answer(k)
    /\ UNCHANGED <<limitsVars, bought>>

(* the store says no (Orders) *)
OrderFails(i) ==
    /\ Serve("orders")
    /\ bought' = [bought EXCEPT ![i].failed = TRUE]
    /\ UNCHANGED <<call, limitsVars, createByKey>>

(* the process goes down, and the cache with it *)
Restart ==
    /\ Fail
    /\ call' = [k \in Slots |-> Idle]
    /\ createByKey' = <<>>
    /\ UNCHANGED <<limitsVars, bought>>

PurchasesNext ==
    \/ \E k \in Slots, key \in OrderKeys, coins \in Packs : CreateOrder(k, key, coins)
    \/ \E k \in Slots, c \in Caps : CheckSpendLimit(k, c)
    \/ \E k \in Slots : StoreOrder(k) \/ RememberKey(k)
    \/ \E i \in DOMAIN bought : OrderFails(i)
    \/ Restart

-----------------------------------------------------------------------------
(* An order is stored only if, with it, the account has bought no more in any window
   than the cap that holds, no cooling-off is on, and no other order has its key -
   unless another order, or limits, were stored while the request ran, or that order
   was not in the cache when it came in (ordersvc checkSpendLimits: "a purchase that
   would immediately exceed the cap is rejected up front"; CreateOrder: "idempotent on
   idempotencyKey"). *)
PurchaseWithinLimits ==
    LET n == Len(bought') IN
    n > Len(bought) /\ ~bought'[n].missed =>
        /\ ~CoolingOff(limits)
        /\ \A c \in Caps : Cap(c) # Unset => Spent(c) + bought'[n].coins <= Cap(c)
        /\ failed = 0 => \A i \in DOMAIN bought : bought[i].key # bought'[n].key
=============================================================================
