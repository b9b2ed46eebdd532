------------------------------ MODULE MCLedger ------------------------------
(* Two users, real catalogue prices: top-ups and purchases (CreditEntries),  *)
(* gifts both ways (SpendEntries), a payout, an unbalanced and an empty      *)
(* request.                                                                  *)
EXTENDS Ledger, TLC

CONSTANTS u1, u2, k1, k2, k3

MCUsers == {u1, u2}
MCKeys == {k1, k2, k3}

MCRequests ==
    {[kind |-> "promo", entries |-> CreditEntries(u1, 60)],
     [kind |-> "gift", entries |-> SpendEntries(u1, u2, 50)],
     [kind |-> "payout", entries |-> PayoutEntries(u2, 20)],
     [kind |-> "promo", entries |-> [a \in {Coins(u2)} |-> 10]],
     [kind |-> "promo", entries |-> << >>]}

MCSymmetry == Permutations(MCKeys)
=============================================================================
