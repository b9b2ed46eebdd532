----------------------------- MODULE MCLedgerPg -----------------------------
(* Two calls, one user's wallet filled once and spent from twice: gifts of   *)
(* 50 out of 60 coins cannot both be covered.                                *)
EXTENDS LedgerPg, TLC

CONSTANTS u1, u2, k1, k2, k3, k4, c1, c2

MCUsers == {u1, u2}
MCKeys == {k1, k2, k3, k4}
MCCalls == {c1, c2}

MCRequests ==
    {[kind |-> "purchase", entries |-> CreditEntries(u1, 60)],
     [kind |-> "gift", entries |-> SpendEntries(u1, u2, 50)]}

MCSymmetry == Permutations(MCKeys) \cup Permutations(MCCalls)
=============================================================================
