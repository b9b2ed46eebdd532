------------------------------- MODULE Ledger -------------------------------
(***************************************************************************)
(* MemLedger as the running server uses it: concurrent callers post and    *)
(* reverse transactions, each call one step under l.mu; saveLocalState     *)
(* writes a snapshot to disk every so often; the process may die at any    *)
(* moment and come back with what loadLocalState restores.  Idempotency    *)
(* keys are not part of a snapshot.                                        *)
(***************************************************************************)
EXTENDS LedgerOps

CONSTANTS
    Requests,   \* what callers may ask to post: records [kind, entries]
    MaxTxs      \* bound on the length of the history

ASSUME RequestsAssumption ==
    \A req \in Requests :
        req.kind \in Kinds \ {"reversal"} /\ IsEntries(req.entries)
ASSUME MaxTxsAssumption == MaxTxs \in Nat

VARIABLES
    ledger,     \* MemLedger's maps
    disk,       \* the state file's ledger part, keys left out
    boot        \* how many transactions this process found on disk

vars == <<ledger, disk, boot>>

-----------------------------------------------------------------------------

Init ==
    /\ ledger = NewMemLedger
    /\ disk = NewMemLedger
    /\ boot = 0

PostTransaction(key, req) ==
    /\ ledger.seq < MaxTxs
    /\ ledger' = Post(ledger, req.kind, key, req.entries).ledger
    /\ UNCHANGED <<disk, boot>>

ReverseTransaction(key, id) ==
    /\ ledger.seq < MaxTxs
    /\ ledger' = Reverse(ledger, id, key).ledger
    /\ UNCHANGED <<disk, boot>>

(* Mutants of Snapshot: the sequence number, or what has been reversed, is  *)
(* not saved.                                                               *)
SnapshotWithoutSeq(L) == [L EXCEPT !.byKey = [k \in Keys |-> 0], !.seq = 0]

SnapshotWithoutReversals(L) ==
    [L EXCEPT !.byKey = [k \in Keys |-> 0], !.reversalOf = << >>]

(* Snapshot leaves byKey out. *)
Snapshot(L) == [L EXCEPT !.byKey = [k \in Keys |-> 0]]

(* saveLocalState: the temp file and the rename replace the old state in    *)
(* one step or not at all.                                                  *)
Save ==
    /\ disk' = Snapshot(ledger)
    /\ UNCHANGED <<ledger, boot>>

(* Mutant of Restart: a state file that cannot be read is taken for none. *)
RestartEmpty ==
    /\ ledger' = NewMemLedger
    /\ boot' = 0
    /\ UNCHANGED disk

(* The process dies and loadLocalState restores the last snapshot. *)
Restart ==
    /\ ledger' = disk
    /\ boot' = disk.seq
    /\ UNCHANGED disk

Next ==
    \/ \E key \in Keys, req \in Requests : PostTransaction(key, req)
    \/ \E key \in Keys, id \in 1..MaxTxs : ReverseTransaction(key, id)
    \/ Save
    \/ Restart

Spec == Init /\ [][Next]_vars

-----------------------------------------------------------------------------
(* Properties *)

(* Every map has its type; the state file never holds a key. *)
TypeOK ==
    /\ IsLedger(ledger)
    /\ IsLedger(disk)
    /\ boot \in 0..ledger.seq

(* IntegrityCheck: money is neither made nor lost.  Whatever was posted,    *)
(* reversed, saved and restored, all balances of a currency sum to zero.    *)
ZeroSum ==
    /\ SumOver(ledger.balances, CoinAccounts) = 0
    /\ SumOver(ledger.balances, DiamondAccounts) = 0

(* No wallet is ever overdrawn, through reversals of money already spent    *)
(* and through restarts; only platform accounts go below zero.              *)
NoOverdraft == \A a \in Wallets : ledger.balances[a] >= 0

(* The materialised balance of every account is the sum of the history      *)
(* History pages through, in the running process and on disk: a restart     *)
(* never pairs the balances of one moment with the history of another.      *)
BalanceIsHistory ==
    \A L \in {ledger, disk} : \A a \in Accounts :
        L.balances[a] =
            SumFunction([i \in DOMAIN L.byAcct[a] |-> L.byAcct[a][i].amount])

(* "A retry with the same key returns the original transaction": within     *)
(* one process every transaction posted is the one its key remembers, so    *)
(* no key posts twice before the next restart.                              *)
KeyRemembersItsTransaction ==
    \A i \in 1..ledger.seq : i > boot => ledger.byKey[ledger.byID[i].key] = i

(* "A transaction can be refunded exactly once": even though restarts       *)
(* forget the keys, no two reversals name the same original, a reversal is  *)
(* the exact inverse of an earlier transaction, and is never reversed.      *)
RefundedOnce ==
    \A i \in 1..ledger.seq :
        LET o == ledger.byID[i].of IN
        o # 0 => /\ o < i
                 /\ ledger.byID[i].entries = Negated(ledger.byID[o].entries)
                 /\ ledger.byID[o].of = 0
                 /\ \A j \in 1..ledger.seq : ledger.byID[j].of = o => j = i

(* L is where M stood at some earlier time. *)
IsBeginningOf(L, M) ==
    L.seq <= M.seq /\ \A i \in 1..L.seq : L.byID[i] = M.byID[i]

(* Entries are append-only and what was saved is never lost: a step either  *)
(* extends the history or, at a restart, takes it back to what is on disk,  *)
(* and what is on disk is always a beginning of the history.                *)
AppendOnly ==
    [][/\ IsBeginningOf(disk, ledger')
       /\ IsBeginningOf(disk, disk')
       /\ IsBeginningOf(ledger, ledger') \/ ledger' = disk]_vars
=============================================================================
