---------------------------- MODULE LedgerProofs ----------------------------
(***************************************************************************)
(* Proofs about Ledger for any users, keys, requests and length of the     *)
(* history: every map keeps its type, the balances of a currency sum to    *)
(* zero and each is the sum of its account's history, no wallet is         *)
(* overdrawn, a key remembers its transaction, a transaction is refunded   *)
(* at most once even though a restart forgets the keys, and the history is *)
(* append-only.                                                            *)
(***************************************************************************)
EXTENDS Ledger, LedgerOpsProofs

-----------------------------------------------------------------------------
(* The inductive invariant. *)
IInv ==
    /\ Sound(ledger)
    /\ Sound(disk)
    /\ boot \in 0..ledger.seq
    /\ KeyRemembersItsTransaction
    /\ IsBeginningOf(disk, ledger)

-----------------------------------------------------------------------------
(* The steps of the machine *)

(* A snapshot of a sound ledger is a sound ledger with the same history. *)
LEMMA SnapshotSound ==
    ASSUME NEW L, Sound(L)
    PROVE  /\ Sound(Snapshot(L))
           /\ Snapshot(L).seq = L.seq /\ Snapshot(L).byID = L.byID
<1> DEFINE M == Snapshot(L)
<1>1. L = [balances |-> L.balances, seq |-> L.seq, byKey |-> L.byKey,
           byID |-> L.byID, byAcct |-> L.byAcct, reversalOf |-> L.reversalOf]
  BY DEF Sound, IsLedger
<1>2. M = [balances |-> L.balances, seq |-> L.seq, byKey |-> [k \in Keys |-> 0],
           byID |-> L.byID, byAcct |-> L.byAcct, reversalOf |-> L.reversalOf]
  BY <1>1 DEF Snapshot
<1>3. IsLedger(M)
  <2>1. [k \in Keys |-> 0] \in [Keys -> 0..L.seq]
    BY DEF Sound, IsLedger
  <2>2. QED
    BY <1>2, <2>1 DEF Sound, IsLedger
<1>4. Solvent(M) /\ RefundsNoted(M) /\ BooksClose(M) /\ HistoryAddsUp(M)
  BY <1>2 DEF Sound, Solvent, RefundsNoted, BooksClose, HistoryAddsUp, Amounts
<1>5. QED
  BY <1>2, <1>3, <1>4 DEF Sound

(* Posting and reversing only ever extend the history. *)
LEMMA AppliedExtends ==
    ASSUME NEW L, IsLedger(L), NEW kind, NEW key, NEW e, NEW of
    PROVE  IsBeginningOf(L, Applied(L, kind, key, e, of))
BY DEF IsBeginningOf, Applied, IsLedger

(* A step that applies one transaction under an unused key leaves every     *)
(* transaction since the restart remembered by its key.                     *)
LEMMA AppliedRemembers ==
    ASSUME IsLedger(ledger), boot \in 0..ledger.seq, KeyRemembersItsTransaction,
           NEW kind, NEW key \in Keys, NEW e, NEW of, ledger.byKey[key] = 0,
           boot' = boot, ledger'.seq = ledger.seq + 1,
           ledger'.byKey = Applied(ledger, kind, key, e, of).byKey,
           ledger'.byID = Applied(ledger, kind, key, e, of).byID
    PROVE  KeyRemembersItsTransaction'
<1> SUFFICES ASSUME NEW i \in 1..ledger'.seq, i > boot
             PROVE  ledger'.byKey[ledger'.byID[i].key] = i
  BY DEF KeyRemembersItsTransaction
<1>1. /\ ledger.seq \in Nat
      /\ ledger.byKey \in [Keys -> 0..ledger.seq]
      /\ ledger'.byKey = [ledger.byKey EXCEPT ![key] = ledger.seq + 1]
  BY DEF IsLedger, Applied
<1>2. CASE i = ledger.seq + 1
  <2>1. ledger'.byID[i].key = key
    BY <1>1, <1>2 DEF Applied
  <2>2. QED
    BY <1>1, <1>2, <2>1
<1>3. CASE i \in 1..ledger.seq
  <2>1. ledger'.byID[i] = ledger.byID[i]
    BY <1>1, <1>3 DEF Applied
  <2>2. ledger.byID[i].key \in Keys
    BY <1>3 DEF IsLedger, IsTransaction
  <2>3. ledger.byKey[ledger.byID[i].key] = i
    BY <1>3 DEF KeyRemembersItsTransaction
  <2>4. ledger.byID[i].key # key
    BY <1>3, <2>3
  <2>5. QED
    BY <1>1, <2>1, <2>2, <2>3, <2>4
<1>4. QED
  BY <1>1, <1>2, <1>3

(* A refused or repeated call changes nothing. *)
LEMMA IdleStep ==
    ASSUME IInv, ledger' = ledger, disk' = disk, boot' = boot
    PROVE  IInv' /\ IsBeginningOf(ledger, ledger')
<1>1. ledger.seq \in Nat
  BY DEF IInv, Sound, IsLedger
<1>2. IsBeginningOf(ledger, ledger')
  BY <1>1 DEF IsBeginningOf
<1>3. KeyRemembersItsTransaction'
  BY DEF IInv, KeyRemembersItsTransaction
<1>4. Sound(ledger') /\ Sound(disk') /\ boot' \in 0..ledger'.seq
      /\ IsBeginningOf(disk', ledger')
  BY DEF IInv
<1>5. QED
  BY <1>2, <1>3, <1>4 DEF IInv

(* One post under the mutex: the invariant, and the history only grows. *)
LEMMA PostStep ==
    ASSUME IInv, NEW key \in Keys, NEW req \in Requests, PostTransaction(key, req)
    PROVE  IInv' /\ IsBeginningOf(ledger, ledger')
<1> DEFINE e == req.entries
           M == Applied(ledger, req.kind, key, e, 0)
<1>1. req.kind \in Kinds \ {"reversal"} /\ IsEntries(e)
  BY RequestsAssumption
<1>2. ledger' = Post(ledger, req.kind, key, e).ledger /\ disk' = disk /\ boot' = boot
  BY DEF PostTransaction
<1>3. Sound(ledger') /\ Sound(disk') /\ IsLedger(ledger)
  BY <1>1, <1>2, PostSound DEF IInv, Sound
<1>4. CASE ledger' = ledger
  BY <1>2, <1>4, IdleStep
<1>5. CASE ledger' = M /\ ledger.byKey[key] = 0
  <2>1. IsBeginningOf(ledger, ledger')
    BY <1>3, <1>5, AppliedExtends
  <2>2. ledger'.seq = ledger.seq + 1 /\ ledger.seq \in Nat /\ disk.seq \in Nat
    BY <1>5 DEF Applied, IInv, Sound, IsLedger
  <2>3. KeyRemembersItsTransaction'
    <3> HIDE DEF e
    <3>1. QED
      BY <1>2, <1>3, <1>5, <2>2, AppliedRemembers DEF IInv
  <2>4. IsBeginningOf(disk', ledger')
    BY <1>2, <2>1, <2>2 DEF IInv, IsBeginningOf
  <2>5. QED
    BY <1>2, <1>3, <2>1, <2>2, <2>3, <2>4 DEF IInv
<1>6. QED
  BY <1>2, <1>4, <1>5, PostLockedCases DEF Post

(* One reversal under the mutex, likewise. *)
LEMMA ReverseStep ==
    ASSUME IInv, NEW key \in Keys, NEW id, ReverseTransaction(key, id)
    PROVE  IInv' /\ IsBeginningOf(ledger, ledger')
<1> DEFINE e == Negated(ledger.byID[id].entries)
           A == Applied(ledger, "reversal", key, e, id)
<1>1. ledger' = Reverse(ledger, id, key).ledger /\ disk' = disk /\ boot' = boot
  BY DEF ReverseTransaction
<1>2. Sound(ledger') /\ Sound(disk') /\ IsLedger(ledger)
  BY <1>1, ReverseSound DEF IInv, Sound
<1>3. CASE ledger' = ledger
  BY <1>1, <1>3, IdleStep
<1>4. CASE ledger' = NoteReversal(A, id, ledger.seq + 1) /\ ledger.byKey[key] = 0
  <2>1. ledger'.seq = A.seq /\ ledger'.byID = A.byID /\ ledger'.byKey = A.byKey
    BY <1>4 DEF NoteReversal, Applied
  <2>2. A.seq = ledger.seq + 1 /\ ledger.seq \in Nat /\ disk.seq \in Nat
    BY DEF Applied, IInv, Sound, IsLedger
  <2>3. IsBeginningOf(ledger, ledger')
    BY <1>2, <2>1, AppliedExtends DEF IsBeginningOf
  <2>4. KeyRemembersItsTransaction'
    <3> HIDE DEF e
    <3>1. QED
      BY <1>1, <1>2, <1>4, <2>1, <2>2, AppliedRemembers DEF IInv
  <2>5. IsBeginningOf(disk', ledger')
    BY <1>1, <2>1, <2>2, <2>3 DEF IInv, IsBeginningOf
  <2>6. QED
    BY <1>1, <1>2, <2>1, <2>2, <2>3, <2>4, <2>5 DEF IInv
<1>5. QED
  BY <1>1, <1>2, <1>3, <1>4, ReverseCases

(* Every step keeps the invariant and honours AppendOnly's action. *)
LEMMA NextStep ==
    ASSUME IInv, [Next]_vars
    PROVE  /\ IInv'
           /\ IsBeginningOf(disk, ledger')
           /\ IsBeginningOf(disk, disk')
           /\ IsBeginningOf(ledger, ledger') \/ ledger' = disk
<1>1. ASSUME NEW key \in Keys, NEW req \in Requests, PostTransaction(key, req)
      PROVE  IInv' /\ IsBeginningOf(ledger, ledger') /\ disk' = disk
  BY <1>1, PostStep DEF PostTransaction
<1>2. ASSUME NEW key \in Keys, NEW id \in 1..MaxTxs, ReverseTransaction(key, id)
      PROVE  IInv' /\ IsBeginningOf(ledger, ledger') /\ disk' = disk
  BY <1>2, ReverseStep DEF ReverseTransaction
<1>3. CASE Save
  <2>1. Sound(disk') /\ disk'.seq = ledger.seq /\ disk'.byID = ledger.byID
    BY <1>3, SnapshotSound DEF Save, IInv
  <2>2. ledger' = ledger /\ boot' = boot
    BY <1>3 DEF Save
  <2>3. ledger.seq \in Nat
    BY DEF IInv, Sound, IsLedger
  <2>4. KeyRemembersItsTransaction'
    BY <2>2 DEF IInv, KeyRemembersItsTransaction
  <2>5. IsBeginningOf(disk', ledger') /\ IsBeginningOf(ledger, ledger')
    BY <2>1, <2>2, <2>3 DEF IsBeginningOf
  <2>6. IsBeginningOf(disk, ledger') /\ IsBeginningOf(disk, disk')
    BY <2>1, <2>2 DEF IInv, IsBeginningOf
  <2>7. QED
    BY <2>1, <2>2, <2>4, <2>5, <2>6 DEF IInv
<1>4. CASE Restart
  <2>1. ledger' = disk /\ disk' = disk /\ boot' = disk.seq
    BY <1>4 DEF Restart
  <2>2. disk.seq \in Nat
    BY DEF IInv, Sound, IsLedger
  <2>3. KeyRemembersItsTransaction'
    BY <2>1, <2>2 DEF KeyRemembersItsTransaction
  <2>4. IsBeginningOf(disk, disk)
    BY <2>2 DEF IsBeginningOf
  <2>5. QED
    BY <2>1, <2>2, <2>3, <2>4 DEF IInv
<1>5. ASSUME IInv', IsBeginningOf(ledger, ledger'), disk' = disk
      PROVE  IsBeginningOf(disk, ledger') /\ IsBeginningOf(disk, disk')
  <2>1. disk.seq \in Nat
    BY DEF IInv, Sound, IsLedger
  <2>2. QED
    BY <1>5, <2>1 DEF IInv, IsBeginningOf
<1>6. CASE UNCHANGED vars
  BY <1>5, <1>6, IdleStep DEF vars
<1>7. QED
  BY <1>1, <1>2, <1>3, <1>4, <1>5, <1>6 DEF Next

-----------------------------------------------------------------------------
(* Theorems *)

(* The invariant holds of every reachable state. *)
THEOREM Invariant == Spec => []IInv
<1>1. Init => IInv
  <2> SUFFICES ASSUME Init PROVE IInv
    OBVIOUS
  <2>1. ledger = NewMemLedger /\ disk = NewMemLedger /\ boot = 0
    BY DEF Init
  <2>2. QED
    BY <2>1, NewLedgerSound DEF IInv, KeyRemembersItsTransaction, IsBeginningOf
<1>2. IInv /\ [Next]_vars => IInv'
  BY NextStep
<1>3. QED
  BY <1>1, <1>2, PTL DEF Spec

(* MemLedger's maps have their types in every reachable state. *)
THEOREM TypeCorrect == Spec => []TypeOK
<1>1. IInv => TypeOK
  BY DEF IInv, TypeOK, Sound
<1>2. QED
  BY <1>1, Invariant, PTL

(* No wallet is ever overdrawn. *)
THEOREM NeverOverdrawn == Spec => []NoOverdraft
<1>1. IInv => NoOverdraft
  BY DEF IInv, NoOverdraft, Sound, Solvent
<1>2. QED
  BY <1>1, Invariant, PTL

(* IntegrityCheck: whatever was posted, reversed, saved and restored, the   *)
(* balances of each currency sum to zero.                                   *)
THEOREM MoneyIsConserved == Spec => []ZeroSum
<1>1. IInv => ZeroSum
  BY DEF IInv, ZeroSum, Sound, BooksClose
<1>2. QED
  BY <1>1, Invariant, PTL

(* The materialised balance of every account is the sum of its history, in  *)
(* memory and on disk.                                                      *)
THEOREM BalancesAreHistories == Spec => []BalanceIsHistory
<1>1. IInv => BalanceIsHistory
  BY DEF IInv, BalanceIsHistory, Sound, HistoryAddsUp, Amounts
<1>2. QED
  BY <1>1, Invariant, PTL

(* PostTransaction is idempotent on its key for the life of a process. *)
THEOREM Idempotent == Spec => []KeyRemembersItsTransaction
<1>1. IInv => KeyRemembersItsTransaction
  BY DEF IInv
<1>2. QED
  BY <1>1, Invariant, PTL

(* A transaction is refunded at most once, exactly, across restarts. *)
THEOREM RefundsHappenOnce == Spec => []RefundedOnce
<1>1. IInv => RefundedOnce
  <2> SUFFICES ASSUME IInv, NEW i \in 1..ledger.seq, ledger.byID[i].of # 0
               PROVE  LET o == ledger.byID[i].of IN
                      /\ o < i
                      /\ ledger.byID[i].entries = Negated(ledger.byID[o].entries)
                      /\ ledger.byID[o].of = 0
                      /\ \A j \in 1..ledger.seq : ledger.byID[j].of = o => j = i
    BY DEF RefundedOnce
  <2> DEFINE o == ledger.byID[i].of
  <2>1. RefundsNoted(ledger) /\ IsLedger(ledger)
    BY DEF IInv, Sound
  <2>2. /\ o < i /\ ledger.byID[o].kind # "reversal"
        /\ ledger.byID[i].entries = Negated(ledger.byID[o].entries)
        /\ ledger.reversalOf[o] = i
    BY <2>1 DEF RefundsNoted
  <2>3. o \in 1..ledger.seq
    BY <2>1, <2>2 DEF IsLedger, IsTransaction
  <2>4. ledger.byID[o].of = 0
    BY <2>1, <2>2, <2>3 DEF RefundsNoted
  <2>5. \A j \in 1..ledger.seq : ledger.byID[j].of = o => j = i
    BY <2>1, <2>2 DEF RefundsNoted
  <2>6. QED
    BY <2>2, <2>4, <2>5
<1>2. QED
  BY <1>1, Invariant, PTL

(* The history is append-only, and what was saved is never lost. *)
THEOREM HistoryAppendOnly == Spec => AppendOnly
<1>1. IInv /\ [Next]_vars =>
        [/\ IsBeginningOf(disk, ledger')
         /\ IsBeginningOf(disk, disk')
         /\ IsBeginningOf(ledger, ledger') \/ ledger' = disk]_vars
  BY NextStep
<1>2. QED
  BY <1>1, Invariant, PTL DEF Spec, AppendOnly
=============================================================================
