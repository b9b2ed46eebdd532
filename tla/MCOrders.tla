------------------------------ MODULE MCOrders ------------------------------
(* One buyer, two orders, and one purchase whose token the client sends for  *)
(* both: the store would accept it for either (DevVerifier, or two orders    *)
(* for one product) or only for the first (a cheap purchase replayed).       *)
EXTENDS Orders

CONSTANTS u1, o1, o2, t1

MCUsers == {u1}
MCOrders == {o1, o2}
MCTokens == {t1}
MCOffers == [o \in MCOrders |-> {t1}]
MCPurchases == {{<<t1, o1>>}, {<<t1, o1>>, <<t1, o2>>}}
MCBuyer == [o \in MCOrders |-> u1]
MCPrice == [o \in MCOrders |-> IF o = o1 THEN 100 ELSE 500]
=============================================================================
