-------------------------------- MODULE Calls --------------------------------
(****************************************************************************)
(* Requests in flight.  net/http runs each request in a goroutine of its    *)
(* own; the services keep no lock from one repository call to the next, so  *)
(* between two of them any other request may run.  A slot holds the local   *)
(* variables of one request; a model of a service adds one action for each  *)
(* step between two repository calls.  A request may end early after any    *)
(* step: its context is cancelled, a repository call fails, or the process  *)
(* goes down.                                                               *)
(*                                                                          *)
(* load bounds a run: the parts of the platform that get requests at the    *)
(* same time, how many requests, and how many of them end early.            *)
(****************************************************************************)
EXTENDS Naturals, Sequences, FiniteSets, TLC

CONSTANTS
    AccountIds, \* account ids
    Slots,      \* requests handled at the same time
    Loads       \* bound: what load may be

ASSUME AccountsAssumption == IsFiniteSet(AccountIds)
ASSUME CallsAssumption ==
    Loads \subseteq [parts : SUBSET STRING, requests : Nat, failures : Nat]

VARIABLES
    call,       \* call[k]: the request in slot k
    served,     \* bound: requests begun
    failed,     \* bound: requests that ended early
    load        \* which parts of the platform get requests

callVars == <<call, served, failed, load>>

Idle == [op |-> "none", pc |-> "idle"]

(* the local variables r, and more of them *)
Joined(r, more) ==
    [f \in DOMAIN r \cup DOMAIN more |-> IF f \in DOMAIN r THEN r[f] ELSE more[f]]

CallsInit ==
    /\ call = [k \in Slots |-> Idle]
    /\ served = 0
    /\ failed = 0
    /\ load \in Loads

(* a request of a part of the platform is let in *)
Serve(part) ==
    /\ part \in load.parts
    /\ served < load.requests
    /\ served' = served + 1
    /\ UNCHANGED <<failed, load>>

(* without a request of a part let in, it has nothing to do *)
Serving(parts) == load.parts \cap parts # {}

Begin(part, k, rec) ==
    /\ call[k] = Idle
    /\ Serve(part)
    /\ call' = [call EXCEPT ![k] = rec]

(* the request in slot k goes on with rec, or is answered *)
GoOn(k, rec) ==
    /\ call' = [call EXCEPT ![k] = rec]
    /\ UNCHANGED <<served, failed, load>>

Goto(k, pc) == GoOn(k, [call[k] EXCEPT !.pc = pc])

Answer(k) == GoOn(k, Idle)

At(k, op, pc) == call[k].op = op /\ call[k].pc = pc

Fail ==
    /\ failed < load.failures
    /\ failed' = failed + 1
    /\ UNCHANGED <<served, load>>

EndEarly(k) ==
    /\ call[k] # Idle
    /\ Fail
    /\ call' = [call EXCEPT ![k] = Idle]
=============================================================================
