--------------------------- MODULE LedgerPgProofs ---------------------------
(***************************************************************************)
(* Proofs about LedgerPg for any users, keys, calls, requests and bounds:  *)
(* concurrent calls, retries and calls that stop half way implement the    *)
(* atomic ledger, and a call that names a transaction names its own.       *)
(***************************************************************************)
EXTENDS LedgerPg, LedgerOpsProofs, SequenceTheorems

-----------------------------------------------------------------------------
(* The inductive invariant *)

EntryMaps == UNION {[D -> Int] : D \in SUBSET Accounts}

Call == [pc : Steps, kind : Kinds, key : Keys \cup {NoKey}, entries : EntryMaps,
         of : Nat, at : Nat, tries : Nat, answer : Nat]

TypeOK ==
    /\ IsLedger(ledger)
    /\ call \in [Calls -> Call]

(* The UNIQUE index and the rows say the same. *)
KeysAreUnique(L) ==
    /\ \A k \in Keys : L.byKey[k] # 0 => L.byID[L.byKey[k]].key = k
    /\ \A i \in 1..L.seq : L.byKey[L.byID[i].key] = i

(* Conflict, of a call's local state. *)
Conflicts(L, k) ==
    \E i \in (k.at + 1)..L.seq :
        \/ L.byID[i].key = k.key
        \/ DOMAIN L.byID[i].entries \cap DOMAIN k.entries # {}

(* The call holds the opposite entries of a transaction that is there. *)
Opposes(L, k) ==
    /\ k.of \in 1..L.seq
    /\ L.byID[k.of].kind # "reversal"
    /\ k.entries = Negated(L.byID[k.of].entries)

(* What a call may rely on at each of its steps, whatever the others have   *)
(* committed: a call that is about to commit either will be refused for a   *)
(* conflict, or what it read of the key and the balances still stands.      *)
CallSound(L, k) ==
    /\ k.pc # "done" => k.key \in Keys
    /\ k.kind = "reversal" <=> k.of # 0
    /\ k.answer \in 0..L.seq
    /\ k.answer # 0 => L.byID[k.answer].key = k.key
    /\ k.pc \in {"mark", "begin", "commit", "note"} /\ k.of # 0 => Opposes(L, k)
    /\ k.pc \in {"begin", "commit"} => Postable(k.entries)
    /\ k.pc = "commit" =>
           /\ k.at <= L.seq
           /\ Conflicts(L, k) \/ (L.byKey[k.key] = 0 /\ Covered(L, k.entries))
    /\ k.pc = "note" => k.of # 0 /\ k.answer # 0

IInv ==
    /\ TypeOK
    /\ Solvent(ledger)
    /\ KeysAreUnique(ledger)
    /\ \A c \in Calls : CallSound(ledger, call[c])

-----------------------------------------------------------------------------
(* Calls that change nothing but their own state *)

(* The two ways to say what a map of entries is, and the empty one. *)
LEMMA EntryMapsAre == \A e : IsEntries(e) <=> e \in EntryMaps
BY DEF IsEntries, EntryMaps

(* The entries of a call that has not begun. *)
LEMMA NoEntries == << >> \in EntryMaps
<1>1. << >> \in [{} -> Int]
  OBVIOUS
<1>2. QED
  BY <1>1 DEF EntryMaps

(* The fields of a call. *)
LEMMA CallFields ==
    ASSUME IInv, NEW c \in Calls
    PROVE  /\ call[c] \in Call
           /\ IsEntries(call[c].entries)
           /\ CallSound(ledger, call[c])
           /\ ledger.seq \in Nat /\ 0 \in 0..ledger.seq
<1>1. call[c] \in Call /\ call[c].entries \in EntryMaps
  BY DEF IInv, TypeOK, Call
<1>2. QED
  BY <1>1, EntryMapsAre DEF IInv, TypeOK, IsLedger

(* A call may replace its local state by a sound one. *)
LEMMA CallStep ==
    ASSUME IInv, NEW c \in Calls, ledger' = ledger, call' \in [Calls -> Call],
           \A d \in Calls \ {c} : call'[d] = call[d],
           CallSound(ledger, call'[c])
    PROVE  IInv'
<1>1. \A d \in Calls : CallSound(ledger, call'[d])
  BY DEF IInv
<1>2. QED
  BY <1>1 DEF IInv, TypeOK

(* What Answer leaves of a call. *)
LEMMA AnswerFields ==
    ASSUME IInv, NEW c \in Calls, NEW tx \in Nat, Answer(c, tx)
    PROVE  /\ call' \in [Calls -> Call]
           /\ \A d \in Calls \ {c} : call'[d] = call[d]
           /\ call'[c].pc = "done" /\ call'[c].kind = "promo"
           /\ call'[c].key = call[c].key /\ call'[c].of = 0 /\ call'[c].answer = tx
<1>1. << >> \in EntryMaps
  BY NoEntries
<1>2. call \in [Calls -> Call]
  BY DEF IInv, TypeOK
<1>3. call' \in [Calls -> Call]
  BY <1>1, <1>2 DEF Answer, NoCall, Call, Steps, Kinds
<1>4. QED
  BY <1>2, <1>3 DEF Answer, NoCall

(* A call may return no transaction, or one under its own key. *)
LEMMA AnswerStep ==
    ASSUME IInv, NEW c \in Calls, NEW tx \in 0..ledger.seq,
           tx # 0 => ledger.byID[tx].key = call[c].key,
           ledger' = ledger, Answer(c, tx)
    PROVE  IInv'
<1>1. tx \in Nat
  BY DEF IInv, TypeOK, IsLedger
<1>2. CallSound(ledger, call'[c])
  BY <1>1, AnswerFields DEF CallSound
<1>3. QED
  BY <1>1, <1>2, AnswerFields, CallStep

(* The answer a key lookup finds. *)
LEMMA FoundByKey ==
    ASSUME IInv, NEW key \in Keys, ledger.byKey[key] # 0
    PROVE  ledger.byKey[key] \in 1..ledger.seq /\ ledger.byID[ledger.byKey[key]].key = key
BY DEF IInv, TypeOK, IsLedger, KeysAreUnique

(* PostTransaction is called. *)
LEMMA StartPostStep ==
    ASSUME IInv, NEW c \in Calls, NEW key \in Keys, NEW req \in Requests,
           StartPost(c, key, req)
    PROVE  IInv'
<1>1. req.kind \in Kinds \ {"reversal"} /\ req.entries \in EntryMaps
  BY PgRequestsAssumption, EntryMapsAre
<1>2. << >> \in EntryMaps /\ call \in [Calls -> Call]
  BY NoEntries DEF IInv, TypeOK
<1>3. /\ ledger' = ledger /\ \A d \in Calls \ {c} : call'[d] = call[d]
  BY <1>2 DEF StartPost
<1>4. CASE Postable(req.entries)
  <2>1. call' \in [Calls -> Call]
    BY <1>1, <1>2, <1>4 DEF StartPost, NoCall, Call, Steps
  <2>2. /\ call'[c].pc = "begin" /\ call'[c].kind = req.kind /\ call'[c].key = key
        /\ call'[c].entries = req.entries /\ call'[c].of = 0 /\ call'[c].answer = 0
    BY <1>2, <1>4 DEF StartPost, NoCall
  <2>3. CallSound(ledger, call'[c])
    BY <1>1, <1>4, <2>2, CallFields DEF CallSound
  <2>4. QED
    BY <1>3, <2>1, <2>3, CallStep
<1>5. CASE ~ Postable(req.entries)
  <2>1. call' \in [Calls -> Call]
    BY <1>2, <1>5 DEF StartPost, NoCall, Call, Steps, Kinds
  <2>2. /\ call'[c].pc = "done" /\ call'[c].kind = "promo"
        /\ call'[c].of = 0 /\ call'[c].answer = 0
    BY <1>2, <1>5 DEF StartPost, NoCall
  <2>3. CallSound(ledger, call'[c])
    BY <2>2, CallFields DEF CallSound
  <2>4. QED
    BY <1>3, <2>1, <2>3, CallStep
<1>6. QED
  BY <1>4, <1>5

(* ReverseTransaction is called. *)
LEMMA StartReverseStep ==
    ASSUME IInv, NEW c \in Calls, NEW key \in Keys, NEW id \in 1..MaxTxs,
           StartReverse(c, key, id)
    PROVE  IInv'
<1>1. id \in Nat /\ id # 0
  BY PgBoundsAssumption
<1>2. << >> \in EntryMaps /\ call \in [Calls -> Call]
  BY NoEntries DEF IInv, TypeOK
<1>3. ledger' = ledger /\ \A d \in Calls \ {c} : call'[d] = call[d]
  BY <1>2 DEF StartReverse
<1>4. call' \in [Calls -> Call]
  BY <1>1, <1>2 DEF StartReverse, NoCall, Call, Steps, Kinds
<1>5. /\ call'[c].pc = "lookup" /\ call'[c].kind = "reversal" /\ call'[c].key = key
      /\ call'[c].of = id /\ call'[c].answer = 0
  BY <1>2 DEF StartReverse, NoCall
<1>6. CallSound(ledger, call'[c])
  BY <1>1, <1>5, CallFields DEF CallSound
<1>7. QED
  BY <1>3, <1>4, <1>6, CallStep

(* A call goes on to another step and notes nothing. *)
LEMMA GotoFields ==
    ASSUME IInv, NEW c \in Calls, NEW step \in Steps, Goto(c, step)
    PROVE  /\ call' \in [Calls -> Call]
           /\ \A d \in Calls \ {c} : call'[d] = call[d]
           /\ call'[c].pc = step /\ call'[c].kind = call[c].kind
           /\ call'[c].key = call[c].key /\ call'[c].entries = call[c].entries
           /\ call'[c].of = call[c].of /\ call'[c].answer = call[c].answer
<1>1. call \in [Calls -> Call]
  BY DEF IInv, TypeOK
<1>2. call' \in [Calls -> Call]
  BY <1>1 DEF Goto, Call
<1>3. QED
  BY <1>1, <1>2 DEF Goto, Call

(* The statements before the post: each answers or goes on. *)
LEMMA LookUpKeyStep ==
    ASSUME IInv, NEW c \in Calls, LookUpKey(c)
    PROVE  IInv'
<1>1. call[c].pc = "lookup" /\ call[c].key \in Keys /\ ledger' = ledger
  BY CallFields DEF LookUpKey, At, CallSound
<1>2. CASE ledger.byKey[call[c].key] # 0
  <2>1. Answer(c, ledger.byKey[call[c].key])
    BY <1>2 DEF LookUpKey
  <2>2. QED
    BY <1>1, <1>2, <2>1, FoundByKey, AnswerStep
<1>3. CASE ledger.byKey[call[c].key] = 0
  <2>1. Goto(c, "original") /\ "original" \in Steps
    BY <1>3 DEF LookUpKey, Steps
  <2>2. CallSound(ledger, call'[c])
    BY <1>1, <2>1, GotoFields, CallFields DEF CallSound
  <2>3. QED
    BY <1>1, <2>1, <2>2, GotoFields, CallStep
<1>4. QED
  BY <1>2, <1>3

(* ReverseTransaction reads what it is to reverse. *)
LEMMA ReadOriginalStep ==
    ASSUME IInv, NEW c \in Calls, ReadOriginal(c)
    PROVE  IInv'
<1> DEFINE o == call[c].of
           e == Negated(ledger.byID[o].entries)
<1>1. call[c].pc = "original" /\ ledger' = ledger /\ IsLedger(ledger)
  BY DEF ReadOriginal, At, IInv, TypeOK
<1>2. CASE Answer(c, 0)
  BY <1>1, <1>2, CallFields, AnswerStep
<1>3. CASE /\ o \in 1..ledger.seq
           /\ ledger.byID[o].kind # "reversal"
           /\ call' = [call EXCEPT ![c].pc = "mark", ![c].entries = e]
  <2>1. e \in EntryMaps
    BY <1>1, <1>3, NegatedType, EntryMapsAre DEF IsLedger, IsTransaction
  <2>2. call \in [Calls -> Call]
    BY DEF IInv, TypeOK
  <2> HIDE DEF e
  <2>3. call' \in [Calls -> Call] /\ \A d \in Calls \ {c} : call'[d] = call[d]
    BY ZenonT(30), <1>3, <2>1, <2>2 DEF Call, Steps
  <2>4. /\ call'[c].pc = "mark" /\ call'[c].kind = call[c].kind
        /\ call'[c].key = call[c].key /\ call'[c].entries = e
        /\ call'[c].of = call[c].of /\ call'[c].answer = call[c].answer
    BY <1>3, <2>2 DEF Call
  <2>5. CallSound(ledger, call'[c])
    BY <1>1, <1>3, <2>4, CallFields DEF CallSound, Opposes, e
  <2>6. QED
    BY <1>1, <2>3, <2>5, CallStep
<1>4. QED
  BY <1>2, <1>3 DEF ReadOriginal

(* ... and whether that has been reversed already. *)
LEMMA ReadReversalMarkStep ==
    ASSUME IInv, NEW c \in Calls, ReadReversalMark(c)
    PROVE  IInv'
<1>1. call[c].pc = "mark" /\ ledger' = ledger
  BY DEF ReadReversalMark, At
<1>2. CASE Answer(c, 0)
  BY <1>1, <1>2, CallFields, AnswerStep
<1>3. CASE Postable(call[c].entries) /\ Goto(c, "begin")
  <2>1. "begin" \in Steps
    BY DEF Steps
  <2>2. CallSound(ledger, call'[c])
    BY <1>1, <1>3, <2>1, GotoFields, CallFields DEF CallSound, Opposes
  <2>3. QED
    BY <1>1, <1>3, <2>1, <2>2, GotoFields, CallStep
<1>4. QED
  BY <1>2, <1>3 DEF ReadReversalMark

(* What postOnce reads holds at the moment it reads it. *)
LEMMA BeginStep ==
    ASSUME IInv, NEW c \in Calls, Begin(c)
    PROVE  IInv'
<1>1. call[c].pc = "begin" /\ ledger' = ledger /\ call[c].key \in Keys
  BY CallFields DEF Begin, At, CallSound
<1>2. CASE ledger.byKey[call[c].key] # 0
  <2>1. Answer(c, ledger.byKey[call[c].key])
    BY <1>2 DEF Begin
  <2>2. QED
    BY <1>1, <1>2, <2>1, FoundByKey, AnswerStep
<1>3. CASE ledger.byKey[call[c].key] = 0 /\ ~ Covered(ledger, call[c].entries)
  <2>1. Answer(c, 0)
    BY <1>3 DEF Begin
  <2>2. QED
    BY <1>1, <2>1, CallFields, AnswerStep
<1>4. CASE ledger.byKey[call[c].key] = 0 /\ Covered(ledger, call[c].entries)
  <2>1. call' = [call EXCEPT ![c].pc = "commit", ![c].at = ledger.seq]
    BY <1>4 DEF Begin
  <2>2. call \in [Calls -> Call] /\ ledger.seq \in Nat
    BY CallFields DEF IInv, TypeOK
  <2>3. call' \in [Calls -> Call] /\ \A d \in Calls \ {c} : call'[d] = call[d]
    BY ZenonT(30), <2>1, <2>2 DEF Call, Steps
  <2>4. /\ call'[c].pc = "commit" /\ call'[c].kind = call[c].kind
        /\ call'[c].key = call[c].key /\ call'[c].entries = call[c].entries
        /\ call'[c].of = call[c].of /\ call'[c].answer = call[c].answer
        /\ call'[c].at = ledger.seq
    BY <2>1, <2>2 DEF Call
  <2>5. CallSound(ledger, call'[c])
    BY <1>1, <1>4, <2>2, <2>4, CallFields DEF CallSound, Opposes
  <2>6. QED
    BY <1>1, <2>3, <2>5, CallStep
<1>5. QED
  BY <1>2, <1>3, <1>4

(* Postgres refuses a commit, and the call tries again or gives up. *)
LEMMA SerializationFailureStep ==
    ASSUME IInv, NEW c \in Calls, SerializationFailure(c)
    PROVE  IInv'
<1>1. call[c].pc = "commit" /\ ledger' = ledger
  BY DEF SerializationFailure, At
<1>2. CASE Answer(c, 0)
  BY <1>1, <1>2, CallFields, AnswerStep
<1>3. CASE call' = [call EXCEPT ![c].pc = "begin", ![c].tries = @ + 1]
  <2>1. call \in [Calls -> Call]
    BY DEF IInv, TypeOK
  <2>2. call' \in [Calls -> Call] /\ \A d \in Calls \ {c} : call'[d] = call[d]
    BY <1>3, <2>1 DEF Call, Steps
  <2>3. /\ call'[c].pc = "begin" /\ call'[c].kind = call[c].kind
        /\ call'[c].key = call[c].key /\ call'[c].entries = call[c].entries
        /\ call'[c].of = call[c].of /\ call'[c].answer = call[c].answer
    BY <1>3, <2>1 DEF Call
  <2>4. CallSound(ledger, call'[c])
    BY <1>1, <2>3, CallFields DEF CallSound, Opposes
  <2>5. QED
    BY <1>1, <2>2, <2>4, CallStep
<1>4. QED
  BY <1>2, <1>3 DEF SerializationFailure

(* An error, or a call that stops, answers with nothing. *)
LEMMA KeyTakenStep ==
    ASSUME IInv, NEW c \in Calls, KeyTaken(c) \/ Abandon(c)
    PROVE  IInv'
<1>1. Answer(c, 0) /\ ledger' = ledger
  BY DEF KeyTaken, Abandon
<1>2. QED
  BY <1>1, CallFields, AnswerStep

-----------------------------------------------------------------------------
(* A transaction commits *)

(* The index stays in step with the rows. *)
LEMMA AppliedKeys ==
    ASSUME NEW L, IsLedger(L), KeysAreUnique(L), NEW kind, NEW key \in Keys,
           L.byKey[key] = 0, NEW e, NEW of,
           NEW M, M = Applied(L, kind, key, e, of)
    PROVE  KeysAreUnique(M)
<1>1. /\ L.seq \in Nat /\ M.seq = L.seq + 1
      /\ \A i \in 1..L.seq : M.byID[i] = L.byID[i]
      /\ M.byID[M.seq].key = key
      /\ M.byKey[key] = M.seq
      /\ \A k \in Keys \ {key} : M.byKey[k] = L.byKey[k]
  <2>1. OneMore(L, M, kind, key, e, of)
    BY AppliedRows
  <2>2. QED
    BY <2>1 DEF OneMore
<1>2. /\ \A k \in Keys : L.byKey[k] \in 0..L.seq
      /\ \A i \in 1..L.seq : L.byID[i].key \in Keys
  BY DEF IsLedger, IsTransaction
<1>3. ASSUME NEW k \in Keys, M.byKey[k] # 0
      PROVE  M.byID[M.byKey[k]].key = k
  <2>1. CASE k = key
    BY <1>1, <2>1
  <2>2. CASE k # key
    <3>1. L.byKey[k] \in 1..L.seq /\ M.byKey[k] = L.byKey[k]
      BY <1>1, <1>2, <1>3, <2>2
    <3>2. QED
      BY <1>1, <3>1 DEF KeysAreUnique
  <2>3. QED
    BY <2>1, <2>2
<1>4. ASSUME NEW i \in 1..M.seq
      PROVE  M.byKey[M.byID[i].key] = i
  <2>1. CASE i = M.seq
    BY <1>1, <2>1
  <2>2. CASE i \in 1..L.seq
    <3>1. M.byID[i] = L.byID[i] /\ L.byKey[L.byID[i].key] = i /\ i # 0
      BY <1>1, <2>2 DEF KeysAreUnique
    <3>2. L.byID[i].key \in Keys \ {key}
      BY <1>2, <2>2, <3>1
    <3>3. QED
      BY <1>1, <3>1, <3>2
  <2>3. QED
    BY <1>1, <2>1, <2>2
<1>5. QED
  BY <1>3, <1>4 DEF KeysAreUnique

(* Whatever another call commits, a call stays sound: the new transaction   *)
(* shares a key or an account with what it is about to commit, which is a   *)
(* conflict from now on, or leaves alone all it has read.                   *)
LEMMA AppliedCallSound ==
    ASSUME NEW L, IsLedger(L), NEW kind, NEW key \in Keys, NEW e, NEW of,
           NEW k \in Call, CallSound(L, k),
           NEW M, M = Applied(L, kind, key, e, of)
    PROVE  CallSound(M, k)
<1>1. /\ L.seq \in Nat /\ M.seq = L.seq + 1
      /\ \A i \in 1..L.seq : M.byID[i] = L.byID[i]
      /\ M.byID[M.seq].key = key /\ M.byID[M.seq].entries = e
      /\ \A kk \in Keys \ {key} : M.byKey[kk] = L.byKey[kk]
      /\ \A a \in Accounts \ DOMAIN e : M.balances[a] = L.balances[a]
  <2>1. OneMore(L, M, kind, key, e, of)
    BY AppliedRows
  <2>2. QED
    BY <2>1 DEF OneMore
<1>2. k.at \in Nat /\ DOMAIN k.entries \subseteq Accounts
  <2>1. k.at \in Nat /\ k.entries \in EntryMaps
    BY DEF Call
  <2>2. QED
    BY <2>1, EntryMapsAre DEF IsEntries
<1>3. k.answer \in 0..M.seq /\ (k.answer # 0 => M.byID[k.answer].key = k.key)
  BY <1>1 DEF CallSound
<1>4. Opposes(L, k) => Opposes(M, k)
  BY <1>1 DEF Opposes
<1>5. ASSUME k.pc = "commit"
      PROVE  /\ k.at <= M.seq
             /\ Conflicts(M, k) \/ (M.byKey[k.key] = 0 /\ Covered(M, k.entries))
  <2>1. k.at <= L.seq /\ k.key \in Keys
    BY <1>5 DEF CallSound
  <2>2. M.seq \in (k.at + 1)..M.seq
    BY <1>1, <1>2, <2>1
  <2>3. CASE Conflicts(L, k)
    <3>1. PICK i \in (k.at + 1)..L.seq :
              \/ L.byID[i].key = k.key
              \/ DOMAIN L.byID[i].entries \cap DOMAIN k.entries # {}
      BY <2>3 DEF Conflicts
    <3>2. i \in (k.at + 1)..M.seq /\ M.byID[i] = L.byID[i]
      BY <1>1, <1>2, <3>1
    <3>3. Conflicts(M, k)
      BY <3>1, <3>2 DEF Conflicts
    <3>4. QED
      BY <1>1, <1>2, <2>1, <3>3
  <2>4. CASE key = k.key \/ DOMAIN e \cap DOMAIN k.entries # {}
    <3>1. Conflicts(M, k)
      BY <1>1, <2>2, <2>4 DEF Conflicts
    <3>2. QED
      BY <1>1, <1>2, <2>1, <3>1
  <2>5. CASE /\ key # k.key /\ DOMAIN e \cap DOMAIN k.entries = {}
             /\ L.byKey[k.key] = 0 /\ Covered(L, k.entries)
    <3>1. M.byKey[k.key] = 0
      BY <1>1, <2>1, <2>5
    <3>2. Covered(M, k.entries)
      BY <1>1, <1>2, <2>5 DEF Covered
    <3>3. QED
      BY <1>1, <1>2, <2>1, <3>1, <3>2
  <2>6. QED
    BY <1>5, <2>3, <2>4, <2>5 DEF CallSound
<1>6. QED
  BY <1>3, <1>4, <1>5 DEF CallSound

(* What a call that may commit relies on. *)
LEMMA CommitReads ==
    ASSUME IInv, NEW c \in Calls, call[c].pc = "commit", ~ Conflict(c)
    PROVE  LET k == call[c] IN
           /\ IsLedger(ledger) /\ k.kind \in Kinds /\ k.key \in Keys
           /\ IsEntries(k.entries) /\ k.of \in Nat
           /\ Postable(k.entries)
           /\ ledger.byKey[k.key] = 0 /\ Covered(ledger, k.entries)
           /\ k.of # 0 => Opposes(ledger, k)
           /\ k.kind = "reversal" <=> k.of # 0
<1>1. ~ Conflicts(ledger, call[c])
  BY DEF Conflict, Conflicts
<1>2. call[c].kind \in Kinds /\ call[c].of \in Nat
  BY CallFields DEF Call
<1>3. QED
  BY <1>1, <1>2, CallFields DEF CallSound, IInv, TypeOK

(* Its commit adds one transaction and keeps the invariant. *)
LEMMA CommitStep ==
    ASSUME IInv, NEW c \in Calls, Commit(c)
    PROVE  IInv'
<1> DEFINE k == call[c]
           M == Applied(ledger, k.kind, k.key, k.entries, k.of)
<1>1. k.pc = "commit" /\ ~ Conflict(c) /\ ledger' = M
  BY DEF Commit, At
<1>2. /\ IsLedger(ledger) /\ k.kind \in Kinds /\ k.key \in Keys
      /\ IsEntries(k.entries) /\ k.of \in Nat
      /\ ledger.byKey[k.key] = 0 /\ Covered(ledger, k.entries)
      /\ k.of # 0 => Opposes(ledger, k)
      /\ k.kind = "reversal" <=> k.of # 0
  BY <1>1, CommitReads
<1>0. M = Applied(ledger, k.kind, k.key, k.entries, k.of)
  OBVIOUS
<1> HIDE DEF M
<1>3. /\ ledger.seq \in Nat /\ M.seq = ledger.seq + 1
      /\ M.byID[M.seq].key = k.key
  <2>1. OneMore(ledger, M, k.kind, k.key, k.entries, k.of)
    BY <1>0, <1>2, AppliedRows
  <2>2. QED
    BY <2>1 DEF OneMore
<1> HIDE DEF k
<1>4. IsLedger(M) /\ Solvent(M) /\ KeysAreUnique(M)
  BY <1>0, <1>2, AppliedType, AppliedSolvent, AppliedKeys DEF IInv
<1>5. \A d \in Calls : CallSound(M, call[d])
  BY <1>0, <1>2, AppliedCallSound, CallFields
<1>6. call \in [Calls -> Call] /\ M.seq \in Nat
  BY <1>3 DEF IInv, TypeOK
<1>7. CASE k.of # 0
  <2>1. call' = [call EXCEPT ![c].pc = "note", ![c].answer = M.seq]
    BY <1>1, <1>7 DEF Commit, k
  <2>2. call' \in [Calls -> Call] /\ \A d \in Calls \ {c} : call'[d] = call[d]
    BY ZenonT(30), <1>6, <2>1 DEF Call, Steps
  <2>3. /\ call'[c].pc = "note" /\ call'[c].kind = call[c].kind
        /\ call'[c].key = call[c].key /\ call'[c].entries = call[c].entries
        /\ call'[c].of = call[c].of /\ call'[c].answer = M.seq
    BY <1>6, <2>1 DEF Call
  <2>4. CallSound(M, call'[c])
    BY <1>1, <1>3, <1>5, <1>7, <2>3 DEF CallSound, Opposes, k
  <2>5. QED
    BY <1>1, <1>4, <1>5, <2>2, <2>4 DEF IInv, TypeOK
<1>8. CASE k.of = 0
  <2>1. Answer(c, M.seq)
    BY <1>1, <1>8 DEF Commit, k
  <2>2. CallSound(M, call'[c])
    BY <1>1, <1>3, <1>6, <2>1, AnswerFields DEF CallSound, k
  <2>3. QED
    BY <1>1, <1>4, <1>5, <1>6, <2>1, <2>2, AnswerFields DEF IInv, TypeOK
<1>9. QED
  BY <1>7, <1>8

(* The row in ledger_reversals changes none of what the calls rely on. *)
LEMMA InsertReversalRowStep ==
    ASSUME IInv, NEW c \in Calls, InsertReversalRow(c)
    PROVE  IInv'
<1> DEFINE k == call[c]
           M == NoteReversal(ledger, k.of, k.answer)
<1>1. k.pc = "note" /\ IsLedger(ledger)
  BY DEF InsertReversalRow, At, IInv, TypeOK
<1>2. /\ k.of \in 1..ledger.seq /\ k.answer \in 1..ledger.seq
      /\ ledger.byID[k.answer].key = k.key
  BY <1>1, CallFields DEF CallSound, Opposes
<1>3. CASE Answer(c, 0) /\ ledger' = ledger
  BY <1>3, CallFields, AnswerStep
<1>4. CASE ledger' = M /\ Answer(c, k.answer)
  <2>1. /\ IsLedger(M)
        /\ M.balances = ledger.balances /\ M.seq = ledger.seq
        /\ M.byID = ledger.byID /\ M.byKey = ledger.byKey
    BY <1>1, <1>2, NoteReversalType
  <2>2. k.answer \in Nat
    BY <1>2
  <2> HIDE DEF M, k
  <2>3. Solvent(M) /\ KeysAreUnique(M)
    BY <2>1 DEF IInv, Solvent, KeysAreUnique
  <2>4. \A d \in Calls : CallSound(M, call[d])
    BY <2>1 DEF IInv, CallSound, Opposes, Conflicts, Covered
  <2>5. CallSound(M, call'[c])
    BY <1>2, <1>4, <2>1, <2>2, AnswerFields DEF CallSound, k
  <2>6. QED
    BY <1>4, <2>1, <2>2, <2>3, <2>4, <2>5, AnswerFields DEF IInv, TypeOK
<1>5. QED
  BY <1>3, <1>4 DEF InsertReversalRow

-----------------------------------------------------------------------------
(* Every step keeps the invariant *)

(* Whatever call takes a step, the invariant is kept. *)
LEMMA NextStep ==
    ASSUME IInv, [Next]_vars
    PROVE  IInv'
<1>1. CASE Next
  <2>1. PICK c \in Calls :
            \/ \E key \in Keys, req \in Requests : StartPost(c, key, req)
            \/ \E key \in Keys, id \in 1..MaxTxs : StartReverse(c, key, id)
            \/ LookUpKey(c) \/ ReadOriginal(c) \/ ReadReversalMark(c)
            \/ Begin(c) \/ Commit(c) \/ SerializationFailure(c)
            \/ KeyTaken(c) \/ InsertReversalRow(c) \/ Abandon(c)
    BY <1>1 DEF Next
  <2>2. CASE \E key \in Keys, req \in Requests : StartPost(c, key, req)
    BY <2>2, StartPostStep
  <2>3. CASE \E key \in Keys, id \in 1..MaxTxs : StartReverse(c, key, id)
    BY <2>3, StartReverseStep
  <2>4. CASE LookUpKey(c) \/ ReadOriginal(c) \/ ReadReversalMark(c)
    BY <2>4, LookUpKeyStep, ReadOriginalStep, ReadReversalMarkStep
  <2>5. CASE Begin(c) \/ Commit(c) \/ SerializationFailure(c)
    BY <2>5, BeginStep, CommitStep, SerializationFailureStep
  <2>6. CASE KeyTaken(c) \/ InsertReversalRow(c) \/ Abandon(c)
    BY <2>6, KeyTakenStep, InsertReversalRowStep
  <2>7. QED
    BY <2>1, <2>2, <2>3, <2>4, <2>5, <2>6
<1>2. CASE UNCHANGED vars
  BY <1>2 DEF vars, IInv, TypeOK
<1>3. QED
  BY <1>1, <1>2

(* An empty database satisfies it. *)
LEMMA InitInvariant == Init => IInv
<1> SUFFICES ASSUME Init PROVE IInv
  OBVIOUS
<1>1. Sound(ledger) /\ ledger.seq = 0 /\ ledger.byKey = [k \in Keys |-> 0]
  BY NewLedgerSound DEF Init, NewMemLedger
<1>2. << >> \in EntryMaps
  BY NoEntries
<1>3. call \in [Calls -> Call]
  BY <1>2 DEF Init, NoCall, Call, Steps, Kinds
<1>4. KeysAreUnique(ledger)
  BY <1>1 DEF KeysAreUnique
<1>5. \A c \in Calls : CallSound(ledger, call[c])
  BY <1>1 DEF Init, NoCall, CallSound
<1>6. QED
  BY <1>1, <1>3, <1>4, <1>5 DEF IInv, TypeOK, Sound

(* The rows keep their types and no wallet is overdrawn, keys and rows      *)
(* agree, and every call in flight may rely on what it has read unless a    *)
(* conflict will refuse its commit.                                         *)
THEOREM Invariant == Spec => []IInv
<1>1. Init => IInv
  BY InitInvariant
<1>2. IInv /\ [Next]_vars => IInv'
  BY NextStep
<1>3. QED
  BY <1>1, <1>2, PTL DEF Spec

(* A call that names a transaction names the one under its own key, however *)
(* many calls race with that key and wherever any of them stops.            *)
THEOREM AnswersAreTheirOwn == Spec => []AnswersNameTheirKey
<1>1. IInv => AnswersNameTheirKey
  BY DEF IInv, CallSound, AnswersNameTheirKey
<1>2. QED
  BY <1>1, Invariant, PTL

-----------------------------------------------------------------------------
(* The refinement of the atomic ledger *)

(* The abstract ledger's own copies of the ledger's operators are the same. *)
LEMMA SameWords ==
    /\ Atomic!Accounts = Accounts
    /\ Atomic!Wallets = Wallets
    /\ \A e : Atomic!Negated(e) = Negated(e)
    /\ \A e : Atomic!Balanced(e) <=> Balanced(e)
<1>1. Atomic!Wallets = Wallets
  BY DEF Atomic!Wallets, Wallets, Atomic!Coins, Coins, Atomic!Diamonds, Diamonds
<1>2. Atomic!Accounts = Accounts
  BY <1>1 DEF Atomic!Accounts, Accounts, Atomic!PlatformAccounts, PlatformAccounts,
     Atomic!Revenue, Revenue, Atomic!Liability, Liability,
     Atomic!DiamondLiability, DiamondLiability
<1>3. \A e : Atomic!Negated(e) = Negated(e)
  BY DEF Atomic!Negated, Negated
<1>4. /\ Atomic!CoinAccounts = CoinAccounts
      /\ Atomic!DiamondAccounts = DiamondAccounts
  BY DEF Atomic!CoinAccounts, CoinAccounts, Atomic!DiamondAccounts, DiamondAccounts,
     Atomic!Coins, Coins, Atomic!Diamonds, Diamonds, Atomic!Revenue, Revenue,
     Atomic!Liability, Liability, Atomic!DiamondLiability, DiamondLiability
<1>5. \A e, S : Atomic!SumOver(e, S) = SumOver(e, S)
  BY DEF Atomic!SumOver, SumOver, Atomic!SumFunctionOnSet, SumFunctionOnSet,
     Atomic!FoldFunctionOnSet, FoldFunctionOnSet, Atomic!MapThenFoldSet, MapThenFoldSet
<1>6. \A e : Atomic!Balanced(e) <=> Balanced(e)
  BY <1>4, <1>5 DEF Atomic!Balanced, Balanced
<1>7. QED
  BY <1>1, <1>2, <1>3, <1>6

(* The rows are a sequence, as long as the ids go. *)
LEMMA RowsAreASequence ==
    ASSUME NEW L, L.seq \in Nat, L.byID = [i \in 1..L.seq |-> L.byID[i]]
    PROVE  Len(L.byID) = L.seq
<1> DEFINE R == {L.byID[i] : i \in 1..L.seq}
<1>1. L.byID \in [1..L.seq -> R]
  OBVIOUS
<1>2. L.byID \in Seq(R)
  BY <1>1, SeqDef
<1>3. DOMAIN L.byID = 1..L.seq
  OBVIOUS
<1>4. Len(L.byID) \in Nat /\ DOMAIN L.byID = 1..Len(L.byID)
  BY <1>2, LenProperties
<1>5. QED
  BY <1>3, <1>4

(* A commit is one transaction of the atomic ledger taking effect. *)
LEMMA CommitTakesEffect ==
    ASSUME IInv, NEW c \in Calls, Commit(c)
    PROVE  Atomic!ANext
<1> DEFINE k == call[c]
           t == ledger'.byID[ledger'.seq]
<1>1. /\ k.pc = "commit" /\ ~ Conflict(c)
      /\ ledger' = Applied(ledger, k.kind, k.key, k.entries, k.of)
  BY DEF Commit, At
<1>2. /\ IsLedger(ledger) /\ k.kind \in Kinds /\ k.key \in Keys
      /\ IsEntries(k.entries) /\ k.of \in Nat
      /\ Postable(k.entries)
      /\ ledger.byKey[k.key] = 0 /\ Covered(ledger, k.entries)
      /\ k.of # 0 => Opposes(ledger, k)
      /\ k.kind = "reversal" <=> k.of # 0
  BY <1>1, CommitReads
<1>3. OneMore(ledger, ledger', k.kind, k.key, k.entries, k.of)
  BY <1>1, <1>2, AppliedRows
<1>4. Solvent(ledger')
  BY <1>1, <1>2, AppliedSolvent DEF IInv
<1>5. /\ ledger.seq \in Nat /\ ledger'.seq = ledger.seq + 1
      /\ \A i \in 1..ledger.seq : ledger'.byID[i] = ledger.byID[i]
      /\ t.kind = k.kind /\ t.key = k.key /\ t.entries = k.entries /\ t.of = k.of
      /\ ledger'.balances = Proposed(ledger, k.entries)
  BY <1>3 DEF OneMore
<1>6. ledger.byID = [i \in 1..ledger.seq |-> ledger.byID[i]]
  BY <1>2 DEF IsLedger
<1>7. ledger'.byID = [i \in 1..ledger'.seq |-> ledger'.byID[i]]
  BY <1>3 DEF OneMore
<1>8. Len(ledger.byID) = ledger.seq /\ Len(ledger'.byID) = ledger'.seq
  <2>1. Len(ledger.byID) = ledger.seq
    BY <1>5, <1>6, RowsAreASequence
  <2>2. ledger'.seq \in Nat
    BY <1>5
  <2>3. Len(ledger'.byID) = ledger'.seq
    BY <1>7, <2>2, RowsAreASequence
  <2>4. QED
    BY <2>1, <2>3
<1> HIDE DEF k, t
<1>9. \A i \in 1..ledger.seq : ledger.byID[i].key # t.key
  BY <1>2, <1>5 DEF IInv, KeysAreUnique
<1>10. DOMAIN t.entries # {} /\ Balanced(t.entries)
  BY <1>2, <1>5 DEF Postable
<1>11. ledger'.balances = [a \in Accounts |->
          ledger.balances[a] + (IF a \in DOMAIN t.entries THEN t.entries[a] ELSE 0)]
  BY <1>5 DEF Proposed
<1>12. t.kind = "reversal" =>
          /\ t.of \in 1..ledger.seq
          /\ ledger.byID[t.of].kind # "reversal"
          /\ t.entries = Negated(ledger.byID[t.of].entries)
  BY <1>2, <1>5 DEF Opposes
<1>13. Atomic!TakesEffect(t)
  BY <1>4, <1>8, <1>9, <1>10, <1>11, <1>12, SameWords DEF Atomic!TakesEffect, Solvent
<1>14. ledger.byID = [i \in 1..Len(ledger.byID) |-> ledger'.byID[i]]
  BY <1>5, <1>6, <1>8
<1>15. QED
  BY <1>5, <1>8, <1>13, <1>14 DEF Atomic!ANext, t

(* Every other step leaves the rows and the balances as they are. *)
LEMMA OtherStepsStutter ==
    ASSUME IInv, [Next]_vars, ~ \E c \in Calls : Commit(c)
    PROVE  UNCHANGED <<ledger.byID, ledger.balances>>
<1>1. CASE UNCHANGED ledger
  BY <1>1
<1>2. CASE \E c \in Calls : InsertReversalRow(c)
  <2>1. PICK c \in Calls : InsertReversalRow(c)
    BY <1>2
  <2>2. CASE ledger' = NoteReversal(ledger, call[c].of, call[c].answer)
    BY <2>2 DEF NoteReversal, IInv, TypeOK, IsLedger
  <2>3. QED
    BY <1>1, <2>1, <2>2 DEF InsertReversalRow
<1>3. QED
  BY <1>1, <1>2 DEF Next, vars, StartPost, StartReverse, LookUpKey, ReadOriginal,
     ReadReversalMark, Begin, SerializationFailure, KeyTaken, Abandon

(* Serializability: whatever calls race, retry, fail or stop half way, the  *)
(* committed rows and balances are those of a ledger on which every         *)
(* transaction takes effect at once.                                        *)
THEOREM Serializable == Spec => ImplementsAtomicLedger
<1>1. Init => Atomic!AInit
  BY SameWords DEF Init, NewMemLedger, Atomic!AInit
<1>2. IInv /\ [Next]_vars => [Atomic!ANext]_<<ledger.byID, ledger.balances>>
  BY CommitTakesEffect, OtherStepsStutter
<1>3. QED
  BY <1>1, <1>2, Invariant, PTL DEF Spec, ImplementsAtomicLedger, Atomic!ASpec, Atomic!avars
=============================================================================
