---------------------------- MODULE AtomicLedger ----------------------------
(***************************************************************************)
(* What ledger.go's Repo interface promises its callers, whatever stores   *)
(* the ledger: every change is one transaction added to the history at     *)
(* once, under a key never used before, with entries that sum to zero and  *)
(* leave no wallet negative; a reversal has the opposite entries of an     *)
(* earlier transaction that is none itself; nothing is edited or removed.  *)
(***************************************************************************)
EXTENDS LedgerOps

VARIABLES
    posted,     \* the transactions, in the order they took effect
    balances    \* every account's balance

avars == <<posted, balances>>

AInit ==
    /\ posted = << >>
    /\ balances = [a \in Accounts |-> 0]

(* One transaction takes effect: the last of posted'. *)
TakesEffect(t) ==
    /\ \A i \in 1..Len(posted) : posted[i].key # t.key
    /\ DOMAIN t.entries # {}
    /\ Balanced(t.entries)
    /\ balances' = [a \in Accounts |->
                       balances[a] + (IF a \in DOMAIN t.entries THEN t.entries[a] ELSE 0)]
    /\ \A a \in Wallets : balances'[a] >= 0
    /\ t.kind = "reversal" =>
           /\ t.of \in 1..Len(posted)
           /\ posted[t.of].kind # "reversal"
           /\ t.entries = Negated(posted[t.of].entries)

ANext ==
    /\ Len(posted') = Len(posted) + 1
    /\ posted = [i \in 1..Len(posted) |-> posted'[i]]
    /\ TakesEffect(posted'[Len(posted')])

ASpec == AInit /\ [][ANext]_avars
=============================================================================
