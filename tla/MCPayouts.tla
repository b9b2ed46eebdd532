----------------------------- MODULE MCPayouts -----------------------------
(* One creator with gifts to earn and two keys to withdraw under; a      *)
(* withdrawal asks for what one gift brings (14 diamonds for 30 coins).      *)
EXTENDS Payouts, TLC

CONSTANTS u1, u2, k1, k2, r1, r2, a1

MCUsers == {u1, u2}
MCCreators == {u1}
MCRequests == {r1, r2}
MCAdmins == {a1}
MCAsk == [k \in PayoutKeys |-> [account |-> u1, amount |-> 14]]
MCKeys == {PayoutKey(k) : k \in PayoutKeys} \cup {ReversalKey(p) : p \in 1..MaxPayouts}
          \cup {GiftKey(n) : n \in 1..MaxGifts} \cup {<<"opening", u2>>}
MCSymmetry == Permutations(MCRequests) \cup Permutations(PayoutKeys)
=============================================================================
