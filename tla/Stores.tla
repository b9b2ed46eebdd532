-------------------------------- MODULE Stores -------------------------------
(****************************************************************************)
(* Every repository has two implementations: an in-memory one, which the    *)
(* tests and a process without DATABASE_URL use, and a Postgres one, which  *)
(* the deployment uses and which says of itself that it matches the other's *)
(* semantics exactly.  Both are given the same requests, one after another, *)
(* and their answers are compared.  Where the code of the two is known to   *)
(* differ the difference has a name, and a run that meets it says nothing   *)
(* of what comes after.                                                     *)
(*                                                                          *)
(* The arms of a CASE in the twins are the ifs of the code, in its order:   *)
(* the first whose condition holds is the one taken.                        *)
(****************************************************************************)
EXTENDS Calls

VARIABLES
    twins       \* what the two implementations hold, and whether they have
                \* answered alike so far

(* mem and pg: what the implementations start from *)
Twins(mem, pg) == [mem |-> mem, pg |-> pg, alike |-> TRUE, known |-> {}]

Mem == twins.mem
Pg == twins.pg

(* a call leaves rows behind and says something: <<"ok", value>> or a refusal *)
Says(rows, answer) == [rows |-> rows, says |-> answer]

Given(value) == <<"ok", value>>

Refused(m) == m.says[1] # "ok"

(* both are asked, m and p being what they do; differences names what is known to differ *)
AskKnowing(part, m, p, differences) ==
    /\ Serve(part)
    /\ twins' = [mem |-> m.rows, pg |-> p.rows,
                 alike |-> twins.alike /\ (m.says = p.says \/ differences # {}),
                 known |-> twins.known \cup differences]
    /\ UNCHANGED call

Ask(part, m, p) == AskKnowing(part, m, p, {})

(* names the difference when it is met *)
If(met, difference) == IF met THEN {difference} ELSE {}
=============================================================================
