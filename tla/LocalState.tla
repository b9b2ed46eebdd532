----------------------------- MODULE LocalState -----------------------------
(****************************************************************************)
(* The deployment without a database (feed/cmd/api/localstate.go): the      *)
(* repositories are in memory, and one JSON file has a snapshot of them.    *)
(* It is written every 30 seconds, and when the process is told to stop,    *)
(* while requests go on; it is read at the start.  A repository is          *)
(* snapshotted under its own lock, one after another, the accounts first.   *)
(* The process is killed, not the machine: what was written stays written,  *)
(* though the code syncs no file.                                           *)
(*                                                                          *)
(* What the other repositories have is rows under an account's id; a row    *)
(* is the id and, auxiliary, the person whose request stored it.            *)
(****************************************************************************)
EXTENDS Calls

CONSTANTS
    Parts       \* the repositories saved after the accounts, in that order

VARIABLES
    repos,      \* the repositories: the accounts, the last id, the rows of each part
    disk,       \* the state file and the .tmp file next to it
    saver,      \* saveLocalState, periodic and at shutdown
    kept        \* auxiliary: what the last save that went through began with, whether
                \* two saves ran at once, whether the file read had rows of no account

localVars == <<repos, disk, saver, kept>>

Savers == {"periodic", "shutdown"}
PartNames == {Parts[i] : i \in DOMAIN Parts}

Fresh == [accounts |-> <<>>, nextID |-> 0, rows |-> [p \in PartNames |-> {}]]

NoFile == [is |-> "none"]
Partial == [is |-> "partial"]
Whole(state) == [is |-> "whole", state |-> state]
NotSaving == [pc |-> "idle"]

LocalInit ==
    /\ repos = Fresh
    /\ disk = [tmp |-> NoFile, file |-> NoFile]
    /\ saver = [s \in Savers |-> NotSaving]
    /\ kept = [state |-> Fresh, overlapped |-> FALSE, torn |-> FALSE]

-----------------------------------------------------------------------------
(* auth/memrepo CreateAccount: acc-0001, acc-0002, ... *)
Register(person) ==
    /\ Serve("local")
    /\ repos' = [repos EXCEPT !.nextID = @ + 1,
                              !.accounts = (repos.nextID + 1 :> person) @@ @]
    /\ UNCHANGED <<call, disk, saver, kept>>

(* a profile, a follow, a transaction: under the id of whoever sends the request *)
StoreRow(part, id) ==
    /\ Serve("local")
    /\ repos' = [repos EXCEPT !.rows[part] = @ \cup {<<id, repos.accounts[id]>>}]
    /\ UNCHANGED <<call, disk, saver, kept>>

-----------------------------------------------------------------------------
(* saveLocalState, from the tick or from the signal on; the accounts are first *)
StartSave(s) ==
    /\ Serve("local")
    /\ saver[s] = NotSaving
    /\ saver' = [saver EXCEPT ![s] =
            [pc |-> "parts", left |-> Parts, began |-> repos,
             snap |-> [Fresh EXCEPT !.accounts = repos.accounts, !.nextID = repos.nextID]]]
    /\ kept' = [kept EXCEPT !.overlapped = @ \/ \E t \in Savers \ {s} : saver[t] # NotSaving]
    /\ UNCHANGED <<call, repos, disk>>

SnapshotPart(s) ==
    /\ saver[s].pc = "parts" /\ saver[s].left # <<>>
    /\ LET part == Head(saver[s].left) IN
       saver' = [saver EXCEPT ![s].snap.rows[part] = repos.rows[part], ![s].left = Tail(@)]
    /\ UNCHANGED <<callVars, repos, disk, kept>>

(* os.WriteFile, which first makes the file empty *)
OpenTmp(s) ==
    /\ saver[s].pc = "parts" /\ saver[s].left = <<>>
    /\ disk' = [disk EXCEPT !.tmp = Partial]
    /\ saver' = [saver EXCEPT ![s].pc = "write"]
    /\ UNCHANGED <<callVars, repos, kept>>

(* Another save may have renamed the file under the pen. *)
WriteTmp(s) ==
    /\ saver[s].pc = "write"
    /\ disk' = IF disk.tmp = NoFile THEN [disk EXCEPT !.file = Whole(saver[s].snap)]
               ELSE [disk EXCEPT !.tmp = Whole(saver[s].snap)]
    /\ saver' = [saver EXCEPT ![s].pc = "rename"]
    /\ UNCHANGED <<callVars, repos, kept>>

(* Mutant of Restored: the accounts are back, the counter of their ids is not. *)
RestoredWithoutNextID(file) ==
    IF file.is = "whole" THEN [file.state EXCEPT !.nextID = 0] ELSE Fresh

(* loadLocalState; a file that does not parse is a fresh start *)
Restored(file) == IF file.is = "whole" THEN file.state ELSE Fresh

RowsOfNoAccount(state) == \E p \in PartNames : \E row \in state.rows[p] :
    row[1] \notin DOMAIN state.accounts

(* The process is up again, with what the file has. *)
StartUp ==
    /\ repos' = Restored(disk.file)
    /\ saver' = [s \in Savers |-> NotSaving]
    /\ kept' = [kept EXCEPT !.torn = @ \/ RowsOfNoAccount(repos')]
    /\ UNCHANGED <<call, disk>>

(* os.Rename, which fails when the other save was faster; a save at shutdown is
   followed by the end of the process, after requests that no save will see *)
RenameTmp(s) ==
    /\ saver[s].pc = "rename"
    /\ IF disk.tmp = NoFile THEN UNCHANGED <<disk, kept>>
       ELSE /\ disk' = [tmp |-> NoFile, file |-> disk.tmp]
            /\ kept' = [kept EXCEPT !.state = saver[s].began]
    /\ saver' = [saver EXCEPT ![s] = IF s = "shutdown" THEN [pc |-> "done"] ELSE NotSaving]
    /\ UNCHANGED <<callVars, repos>>

Exit ==
    /\ saver["shutdown"].pc = "done"
    /\ StartUp
    /\ UNCHANGED <<served, failed, load>>

Killed == Fail /\ StartUp

LocalNext ==
    \/ \E person \in AccountIds : Register(person)
    \/ \E part \in PartNames, id \in DOMAIN repos.accounts : StoreRow(part, id)
    \/ \E s \in Savers :
        StartSave(s) \/ SnapshotPart(s) \/ OpenTmp(s) \/ WriteTmp(s) \/ RenameTmp(s)
    \/ Exit
    \/ Killed

-----------------------------------------------------------------------------
Includes(state, earlier) ==
    /\ \A id \in DOMAIN earlier.accounts :
        id \in DOMAIN state.accounts /\ state.accounts[id] = earlier.accounts[id]
    /\ \A p \in PartNames : earlier.rows[p] \subseteq state.rows[p]

(* What was there when a save began that went through outlives every crash, whatever
   save it cuts short, as long as no two saves ran at once; and nobody finds rows of
   somebody else under an id, unless a file was read that has rows of an account that
   registered between the snapshots of one save (localstate.go: "avoids a half-written
   state file if the process is killed mid-write"). *)
SavedIsKept ==
    /\ ~kept.overlapped => Includes(repos, kept.state)
    /\ ~kept.torn => \A p \in PartNames : \A row \in repos.rows[p] :
        repos.accounts[row[1]] = row[2]
=============================================================================
