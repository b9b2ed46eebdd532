------------------------------ MODULE MCPvCall ------------------------------
(* One caller, one callee, one key that the client uses for requests at two  *)
(* rates or for a gift, and two ids to mint: retried or doubled requests     *)
(* with the key may become two sessions.  The caller can afford one rate;    *)
(* the other is only stored with what the key has paid for already.          *)
EXTENDS PvCall

CONSTANTS u1, u2, q1

MCUsers == {u1, u2}
MCClientKeys == {q1}
MCAsks == [caller : {u1}, callee : {u2}, rate : {10, 20}]
MCKeys == {ClientKey(k) : k \in MCClientKeys} \cup {HoldReverseKey(s) : s \in Sessions}
          \cup {SettleKey(s) : s \in Sessions} \cup {CashOutKey(u) : u \in MCUsers}
          \cup {OpeningKey(u) : u \in MCUsers}
=============================================================================
