------------------------------ MODULE LedgerPg ------------------------------
(***************************************************************************)
(* pgrepo.Repo: the ledger in Postgres, used by several calls at once.     *)
(* A post is a SERIALIZABLE transaction that reads the key and the         *)
(* balances it needs, inserts, commits, and is tried again when Postgres   *)
(* reports a serialization failure.  A reversal is a chain of separate     *)
(* statements on the pool: look the key up, read the original, look for a  *)
(* reversal row, post the opposite entries, insert the reversal row.  Any  *)
(* call may stop between two statements: the process dies, or the client   *)
(* disconnects and the request's context is cancelled.                     *)
(***************************************************************************)
EXTENDS LedgerOps

CONSTANTS
    Calls,      \* request goroutines
    Requests,   \* what callers post: records [kind, entries]
    MaxTxs,     \* bound on the length of the history
    MaxSerializationRetries

ASSUME PgRequestsAssumption ==
    \A req \in Requests : req.kind \in Kinds \ {"reversal"} /\ IsEntries(req.entries)
ASSUME PgBoundsAssumption == MaxTxs \in Nat /\ MaxSerializationRetries \in Nat \ {0}

VARIABLES
    ledger,     \* the committed rows; byKey is the UNIQUE index on
                \* idempotency_key, reversalOf the table ledger_reversals
    call        \* each goroutine's local state

vars == <<ledger, call>>

Steps == {"done", "lookup", "original", "mark", "begin", "commit", "note"}

NoKey == "none"

(* A goroutine: what it was asked (of # 0: reverse that transaction), where *)
(* it stands, how much of the history its database snapshot saw, how often  *)
(* it tried, and the transaction it answered with (0: an error, or none).   *)
NoCall == [pc |-> "done", kind |-> "promo", key |-> NoKey,
           entries |-> << >>, of |-> 0, at |-> 0, tries |-> 0, answer |-> 0]

Init ==
    /\ ledger = NewMemLedger
    /\ call = [c \in Calls |-> NoCall]

At(c, step) == call[c].pc = step

Goto(c, step) == call' = [call EXCEPT ![c].pc = step]

(* The call returns; only its key and its answer outlive it. *)
Answer(c, tx) ==
    call' = [call EXCEPT ![c] = [NoCall EXCEPT !.key = call[c].key, !.answer = tx]]

-----------------------------------------------------------------------------
(* PostTransaction and ReverseTransaction are called. *)

(* What PostTransaction checks before it opens a database transaction. *)
Postable(entries) == DOMAIN entries # {} /\ Balanced(entries)

StartPost(c, key, req) ==
    /\ At(c, "done")
    /\ call' = [call EXCEPT ![c] =
           IF Postable(req.entries)
           THEN [NoCall EXCEPT !.kind = req.kind, !.key = key, !.entries = req.entries,
                               !.pc = "begin"]
           ELSE [NoCall EXCEPT !.key = key]]
    /\ UNCHANGED ledger

StartReverse(c, key, id) ==
    /\ At(c, "done")
    /\ call' = [call EXCEPT ![c] =
           [NoCall EXCEPT !.kind = "reversal", !.key = key, !.of = id, !.pc = "lookup"]]
    /\ UNCHANGED ledger

(* GetTransaction(idempotencyKey) *)
LookUpKey(c) ==
    /\ At(c, "lookup")
    /\ IF ledger.byKey[call[c].key] # 0
       THEN Answer(c, ledger.byKey[call[c].key])
       ELSE Goto(c, "original")
    /\ UNCHANGED ledger

(* GetTransactionByID(originalTxID) and the check of its kind *)
ReadOriginal(c) ==
    LET o == call[c].of IN
    /\ At(c, "original")
    /\ IF o \notin 1..ledger.seq THEN Answer(c, 0)
       ELSE IF ledger.byID[o].kind = "reversal" THEN Answer(c, 0)
       ELSE call' = [call EXCEPT ![c].pc = "mark",
                                 ![c].entries = Negated(ledger.byID[o].entries)]
    /\ UNCHANGED ledger

(* Mutant of ReadReversalMark: answers with the reversal it finds. *)
ReadReversalMarkAsAnswer(c) ==
    LET o == call[c].of IN
    /\ At(c, "mark")
    /\ IF o \in DOMAIN ledger.reversalOf THEN Answer(c, ledger.reversalOf[o])
       ELSE Goto(c, "begin")
    /\ UNCHANGED ledger

(* SELECT EXISTS(... FROM ledger_reversals ...), and the checks with which  *)
(* PostTransaction takes the opposite entries.                              *)
ReadReversalMark(c) ==
    /\ At(c, "mark")
    /\ IF call[c].of \in DOMAIN ledger.reversalOf \/ ~ Postable(call[c].entries)
       THEN Answer(c, 0)
       ELSE Goto(c, "begin")
    /\ UNCHANGED ledger

-----------------------------------------------------------------------------
(* postOnce *)

(* Mutant of Begin: no check of the balances. *)
BeginUnchecked(c) ==
    /\ At(c, "begin")
    /\ IF ledger.byKey[call[c].key] # 0 THEN Answer(c, ledger.byKey[call[c].key])
       ELSE call' = [call EXCEPT ![c].pc = "commit", ![c].at = ledger.seq]
    /\ UNCHANGED ledger

(* The transaction takes its snapshot, reads the key and the balances. *)
Begin(c) ==
    /\ At(c, "begin")
    /\ IF ledger.byKey[call[c].key] # 0 THEN Answer(c, ledger.byKey[call[c].key])
       ELSE IF ~ Covered(ledger, call[c].entries) THEN Answer(c, 0)
       ELSE call' = [call EXCEPT ![c].pc = "commit", ![c].at = ledger.seq]
    /\ UNCHANGED ledger

(* Someone committed, since the snapshot, the key or a leg on an account    *)
(* this transaction has read: both read and wrote it, so no serial order    *)
(* explains both and Postgres lets only the first commit.                   *)
Conflict(c) ==
    \E i \in (call[c].at + 1)..ledger.seq :
        \/ ledger.byID[i].key = call[c].key
        \/ DOMAIN ledger.byID[i].entries \cap DOMAIN call[c].entries # {}

Commit(c) ==
    /\ At(c, "commit")
    /\ ~ Conflict(c)
    /\ ledger.seq < MaxTxs
    /\ ledger' = Applied(ledger, call[c].kind, call[c].key, call[c].entries, call[c].of)
    /\ IF call[c].of # 0
       THEN call' = [call EXCEPT ![c].pc = "note", ![c].answer = ledger'.seq]
       ELSE Answer(c, ledger'.seq)

(* SQLSTATE 40001, which Postgres may also raise without need: the whole of *)
(* postOnce runs again, a limited number of times.                          *)
SerializationFailure(c) ==
    /\ At(c, "commit")
    /\ IF call[c].tries + 1 < MaxSerializationRetries
       THEN call' = [call EXCEPT ![c].pc = "begin", ![c].tries = @ + 1]
       ELSE Answer(c, 0)
    /\ UNCHANGED ledger

(* SQLSTATE 23505 on the key's UNIQUE index: an error of its own, no retry. *)
KeyTaken(c) ==
    /\ At(c, "commit")
    /\ ledger.byKey[call[c].key] # 0
    /\ Answer(c, 0)
    /\ UNCHANGED ledger

(* INSERT INTO ledger_reversals, outside the transaction that posted; its   *)
(* primary key refuses a second row for one original.                       *)
InsertReversalRow(c) ==
    /\ At(c, "note")
    /\ IF call[c].of \in DOMAIN ledger.reversalOf
       THEN Answer(c, 0) /\ UNCHANGED ledger
       ELSE /\ ledger' = NoteReversal(ledger, call[c].of, call[c].answer)
            /\ Answer(c, call[c].answer)

(* The call ends between two statements; an open transaction rolls back. *)
Abandon(c) ==
    /\ ~ At(c, "done")
    /\ Answer(c, 0)
    /\ UNCHANGED ledger

-----------------------------------------------------------------------------

Next ==
    \E c \in Calls :
        \/ \E key \in Keys, req \in Requests : StartPost(c, key, req)
        \/ \E key \in Keys, id \in 1..MaxTxs : StartReverse(c, key, id)
        \/ LookUpKey(c)
        \/ ReadOriginal(c)
        \/ ReadReversalMark(c)
        \/ Begin(c)
        \/ Commit(c)
        \/ SerializationFailure(c)
        \/ KeyTaken(c)
        \/ InsertReversalRow(c)
        \/ Abandon(c)

Spec == Init /\ [][Next]_vars

-----------------------------------------------------------------------------
(* Properties *)

(* A call that names a transaction names the one under its own key, posted  *)
(* by it or by an earlier call with the same key.                           *)
AnswersNameTheirKey ==
    \A c \in Calls :
        call[c].answer # 0 => ledger.byID[call[c].answer].key = call[c].key

(* Serializability: the concurrent calls implement the Repo interface's     *)
(* atomic ledger, in which each transaction takes effect at once, under a   *)
(* fresh key, and within the balances it finds.                             *)
Atomic == INSTANCE AtomicLedger WITH posted <- ledger.byID, balances <- ledger.balances

ImplementsAtomicLedger == Atomic!ASpec

(* "A transaction can be refunded exactly once" (ledger.go, ErrAlreadyReversed). *)
RefundedAtMostOnce ==
    \A i, j \in 1..ledger.seq :
        ledger.byID[i].of # 0 /\ ledger.byID[i].of = ledger.byID[j].of => i = j
=============================================================================
