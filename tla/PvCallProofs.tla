---------------------------- MODULE PvCallProofs ----------------------------
(***************************************************************************)
(* Proofs about PvCall for any users, keys, requests, sessions, rates and  *)
(* bounds: a session that rings is held by what its request's key was      *)
(* charged for, a call is over or billed only after the ledger was asked   *)
(* for its hold back, and a caller pays for minutes only of a call that    *)
(* was taken, once.                                                        *)
(*                                                                         *)
(* The hard part is what the ledger answers when it is asked: it refuses   *)
(* only if someone the hold paid no longer has the diamonds.  The          *)
(* invariant accounts for everyone's diamonds by the transactions that     *)
(* still stand.  That the question may also get lost on the way is part of *)
(* the model, and the theorem says of which sessions.                      *)
(***************************************************************************)
EXTENDS PvCall, LedgerOpsProofs

-----------------------------------------------------------------------------
(* The inductive invariant *)

Run == [pc : Steps, id : Sessions, key : ClientKeys, copy : Row]

TypeOK ==
    /\ IsLedger(ledger)
    /\ session \in [Sessions -> Row]
    /\ run \in [Runners -> Run]
    /\ named \in [ClientKeys -> Sessions \cup {NoSession}]
    /\ accepted \subseteq Sessions
    /\ uses = [k \in ClientKeys |-> uses[k]]

(* The transactions that stand: no reversals, and none that was reversed. *)
Standing(L) == {i \in 1..L.seq : L.byID[i].kind # "reversal" /\ i \notin DOMAIN L.reversalOf}

(* What each transaction gave v in diamonds. *)
Given(L, v) ==
    [i \in 1..L.seq |-> IF Diamonds(v) \in DOMAIN L.byID[i].entries
                        THEN L.byID[i].entries[Diamonds(v)] ELSE 0]

CashedOut(L, v) == L.byKey[CashOutKey(v)] # 0

(* Whoever was not paid out has all the diamonds that standing transactions *)
(* gave him, and none of them took any.                                     *)
DiamondsStand(L, v) ==
    ~ CashedOut(L, v) =>
        /\ L.balances[Diamonds(v)] = SumFunctionOnSet(Given(L, v), Standing(L))
        /\ \A i \in Standing(L) : Given(L, v)[i] >= 0

(* Someone's coins went to somebody else, for a call or as a gift. *)
Spent(e) == \E u, v \in Users, n \in Nat : e = SpendEntries(u, v, n)

IsSpend(L, tx) ==
    tx \in 1..L.seq /\ L.byID[tx].kind # "reversal" /\ Spent(L.byID[tx].entries)

(* tx is what stands under a key that was used, per U, for the first minute *)
(* of such a call, and for what tx is.                                      *)
IsHold(L, U, tx, ask) ==
    /\ IsSpend(L, tx)
    /\ \E k \in ClientKeys :
          /\ tx = L.byKey[ClientKey(k)]
          /\ {FirstMinute(ask), Use(L, tx)} \subseteq U[k]

(* tx charges minutes of it. *)
IsBill(L, tx, ask) ==
    \E minutes \in 1..MaxMinutes :
        L.byID[tx].entries[Coins(ask.caller)] = - minutes * ask.rate

Released(L, row, isLost) ==
    /\ row.hold \in 1..L.seq
    /\ row.hold \in DOMAIN L.reversalOf \/ isLost \/ PaidOut(L, row.hold)

LedgerSound(L) ==
    /\ IsLedger(L)
    /\ Solvent(L)
    /\ \A v \in Users : DiamondsStand(L, v)
    /\ \A k \in ClientKeys : L.byKey[ClientKey(k)] # 0 => IsSpend(L, L.byKey[ClientKey(k)])

(* What stands under a client's key is something the client used it for. *)
KeysUsed(L, U) ==
    \A k \in ClientKeys :
        L.byKey[ClientKey(k)] # 0 => Use(L, L.byKey[ClientKey(k)]) \in U[k]

(* What the ledger says of a session. *)
SessionSound(L, U, s, row, isAccepted, isLost) ==
    LET reversal == L.byKey[HoldReverseKey(s)]
        bill == L.byKey[SettleKey(s)]
    IN
    /\ row.state # "absent" => IsHold(L, U, row.hold, row.ask)
    /\ row.state = "accepted" => isAccepted
    /\ row.state \in {"declined", "ended"} \/ bill # 0 => Released(L, row, isLost)
    /\ reversal # 0 => row.state # "absent" /\ row.hold \in DOMAIN L.reversalOf
    /\ bill # 0 => row.state # "absent" /\ isAccepted /\ IsBill(L, bill, row.ask)

Requesting == {"charge", "create"}
Ending == {"settle", "bill"}

(* What a run's copy has to do with the row it came from. *)
RunSound(L, U, row, k, isAccepted, isLost) ==
    /\ k.pc \in Requesting => row = Absent /\ k.copy.state = "requested"
    /\ k.pc = "create" => IsHold(L, U, k.copy.hold, k.copy.ask)
    /\ k.pc \notin Requesting \cup {"idle"} =>
           /\ row.state # "absent" /\ k.copy.ask = row.ask /\ k.copy.hold = row.hold
           /\ k.copy.state \in {"accepted", "declined", "ended"}
           /\ k.copy.state = "accepted" => k.pc = "write"
    /\ k.pc \in Ending => isAccepted
    /\ k.pc = "bill" \/ (k.pc = "write" /\ k.copy.state # "accepted") => Released(L, row, isLost)

IInv ==
    /\ TypeOK
    /\ LedgerSound(ledger)
    /\ KeysUsed(ledger, uses)
    /\ \A s \in Sessions :
           SessionSound(ledger, uses, s, session[s], s \in accepted, s \in lost)
    /\ \A r \in Runners :
           RunSound(ledger, uses, session[run[r].id], run[r], run[r].id \in accepted,
                    run[r].id \in lost)
    /\ \A r, q \in Runners :
           run[r].pc \in Requesting /\ run[q].pc \in Requesting /\ run[r].id = run[q].id => r = q

-----------------------------------------------------------------------------
(* Constants and keys *)

(* What a request asks for. *)
LEMMA AskType ==
    ASSUME NEW ask \in Asks
    PROVE  /\ ask.caller \in Users /\ ask.callee \in Users
           /\ ask.rate \in Nat /\ ask.caller # ask.callee
BY PvAssumption

(* Keys of different purposes are different. *)
LEMMA KeysApart ==
    /\ \A k \in ClientKeys : ClientKey(k) \in Keys
    /\ \A s \in Sessions : HoldReverseKey(s) \in Keys /\ SettleKey(s) \in Keys
    /\ \A u \in Users : CashOutKey(u) \in Keys /\ OpeningKey(u) \in Keys
    /\ \A x, y : /\ ClientKey(x) = ClientKey(y) => x = y
                 /\ HoldReverseKey(x) = HoldReverseKey(y) => x = y
                 /\ SettleKey(x) = SettleKey(y) => x = y
                 /\ CashOutKey(x) = CashOutKey(y) => x = y
                 /\ ClientKey(x) \notin {HoldReverseKey(y), SettleKey(y), CashOutKey(y),
                                          OpeningKey(y)}
                 /\ HoldReverseKey(x) \notin {SettleKey(y), CashOutKey(y), OpeningKey(y)}
                 /\ SettleKey(x) \notin {CashOutKey(y), OpeningKey(y)}
<1>1. \A x, y : /\ ClientKey(x) = ClientKey(y) => x = y
                /\ HoldReverseKey(x) = HoldReverseKey(y) => x = y
                /\ SettleKey(x) = SettleKey(y) => x = y
                /\ CashOutKey(x) = CashOutKey(y) => x = y
  BY DEF ClientKey, HoldReverseKey, SettleKey, CashOutKey
<1>2. \A x, y : /\ ClientKey(x) \notin {HoldReverseKey(y), SettleKey(y), CashOutKey(y),
                                         OpeningKey(y)}
                /\ HoldReverseKey(x) \notin {SettleKey(y), CashOutKey(y), OpeningKey(y)}
                /\ SettleKey(x) \notin {CashOutKey(y), OpeningKey(y)}
  BY DEF ClientKey, HoldReverseKey, SettleKey, CashOutKey, OpeningKey
<1>3. QED
  BY <1>1, <1>2, PvAssumption

-----------------------------------------------------------------------------
(* What a ledger and a history that only grew still say *)

Extends(L, M) ==
    /\ L.seq \in Nat /\ M.seq \in Nat /\ L.seq <= M.seq
    /\ \A i \in 1..L.seq : M.byID[i] = L.byID[i]
    /\ \A k \in Keys : L.byKey[k] # 0 => M.byKey[k] = L.byKey[k]
    /\ DOMAIN L.reversalOf \subseteq DOMAIN M.reversalOf

Later(U, V) == \A k \in ClientKeys : U[k] \subseteq V[k]

(* A post takes nothing back. *)
LEMMA GrowsExtends ==
    ASSUME NEW L, IsLedger(L), NEW M, NEW kind, NEW key, NEW e, Grows(L, M, kind, key, e)
    PROVE  Extends(L, M)
<1>1. L.seq \in Nat
  BY DEF IsLedger
<1>2. CASE M = L
  BY <1>1, <1>2 DEF Extends
<1>3. CASE L.byKey[key] = 0 /\ OneMore(L, M, kind, key, e, 0)
  <2>1. /\ M.seq = L.seq + 1 /\ M.reversalOf = L.reversalOf
        /\ \A i \in 1..L.seq : M.byID[i] = L.byID[i]
        /\ \A k \in Keys \ {key} : M.byKey[k] = L.byKey[k]
    BY <1>3 DEF OneMore
  <2>2. QED
    BY <1>1, <1>3, <2>1 DEF Extends
<1>4. QED
  BY <1>2, <1>3 DEF Grows

(* Nor does a reversal. *)
LEMMA RefundsExtends ==
    ASSUME NEW L, IsLedger(L), NEW M, NEW id, NEW key, Refunds(L, M, id, key)
    PROVE  Extends(L, M)
<1>1. L.seq \in Nat
  BY DEF IsLedger
<1>2. CASE M = L
  BY <1>1, <1>2 DEF Extends
<1>3. CASE L.byKey[key] = 0 /\ Refunded(L, M, id, key)
  BY <1>1, <1>3 DEF Refunded, Extends
<1>4. QED
  BY <1>2, <1>3 DEF Refunds

(* A spend stays a spend, and what it was for. *)
LEMMA SpendKept ==
    ASSUME NEW L, NEW M, Extends(L, M), NEW tx, IsSpend(L, tx)
    PROVE  IsSpend(M, tx) /\ Use(M, tx) = Use(L, tx)
<1>1. tx \in 1..M.seq /\ M.byID[tx] = L.byID[tx]
  BY DEF Extends, IsSpend
<1>2. QED
  BY <1>1 DEF IsSpend, Use

(* A hold stays a hold. *)
LEMMA HoldKept ==
    ASSUME NEW L, NEW M, Extends(L, M), NEW U, NEW V, Later(U, V), NEW tx, NEW ask,
           IsHold(L, U, tx, ask)
    PROVE  IsHold(M, V, tx, ask)
<1>1. PICK k \in ClientKeys : /\ tx = L.byKey[ClientKey(k)]
                              /\ {FirstMinute(ask), Use(L, tx)} \subseteq U[k]
  BY DEF IsHold
<1>2. IsSpend(M, tx) /\ Use(M, tx) = Use(L, tx) /\ tx # 0
  BY SpendKept DEF IsHold, IsSpend
<1>3. tx = M.byKey[ClientKey(k)]
  BY <1>1, <1>2, KeysApart DEF Extends
<1>4. {FirstMinute(ask), Use(M, tx)} \subseteq V[k]
  BY <1>1, <1>2 DEF Later
<1>5. QED
  BY <1>2, <1>3, <1>4 DEF IsHold

(* What was released stays released. *)
LEMMA ReleasedKept ==
    ASSUME NEW L, NEW M, Extends(L, M), NEW row, NEW c, NEW d, c => d, Released(L, row, c)
    PROVE  Released(M, row, d)
<1>1. row.hold \in 1..M.seq /\ M.byID[row.hold] = L.byID[row.hold]
  BY DEF Extends, Released
<1>2. ASSUME PaidOut(L, row.hold)
      PROVE  PaidOut(M, row.hold)
  BY <1>1, <1>2, KeysApart DEF PaidOut, Extends
<1>3. QED
  BY <1>1, <1>2 DEF Released, Extends

(* The client's keys stay accounted for when what is new under one of them  *)
(* is noted.                                                                *)
LEMMA UsesKept ==
    ASSUME NEW L, LedgerSound(L), NEW M, Extends(L, M), NEW U, KeysUsed(L, U),
           NEW V, Later(U, V),
           \A k \in ClientKeys : M.byKey[ClientKey(k)] # L.byKey[ClientKey(k)] =>
               Use(M, M.byKey[ClientKey(k)]) \in V[k]
    PROVE  KeysUsed(M, V)
<1>1. ASSUME NEW k \in ClientKeys, M.byKey[ClientKey(k)] # 0,
             M.byKey[ClientKey(k)] = L.byKey[ClientKey(k)]
      PROVE  Use(M, M.byKey[ClientKey(k)]) \in V[k]
  <2>1. IsSpend(L, L.byKey[ClientKey(k)]) /\ Use(L, L.byKey[ClientKey(k)]) \in U[k]
    BY <1>1 DEF LedgerSound, KeysUsed
  <2>2. Use(M, M.byKey[ClientKey(k)]) = Use(L, L.byKey[ClientKey(k)])
    BY <1>1, <2>1, SpendKept
  <2>3. QED
    BY <2>1, <2>2 DEF Later
<1>2. QED
  BY <1>1 DEF KeysUsed

(* A session's facts survive a step of the ledger, which may have given its *)
(* hold back or billed it.                                                  *)
LEMMA SessionKept ==
    ASSUME NEW L, IsLedger(L), NEW M, Extends(L, M), NEW U, NEW V, Later(U, V),
           NEW s \in Sessions, NEW row \in Row, NEW b, NEW c, NEW d, c => d,
           M.byKey[HoldReverseKey(s)] # L.byKey[HoldReverseKey(s)] =>
               row.state # "absent" /\ row.hold \in DOMAIN M.reversalOf,
           M.byKey[SettleKey(s)] # L.byKey[SettleKey(s)] =>
               /\ row.state # "absent" /\ b /\ Released(M, row, d)
               /\ IsBill(M, M.byKey[SettleKey(s)], row.ask),
           SessionSound(L, U, s, row, b, c)
    PROVE  SessionSound(M, V, s, row, b, d)
<1> DEFINE reversal == M.byKey[HoldReverseKey(s)]
           bill == M.byKey[SettleKey(s)]
<1>1. row.state # "absent" => IsHold(M, V, row.hold, row.ask)
  BY HoldKept DEF SessionSound
<1>2. row.state \in {"declined", "ended"} \/ bill # 0 => Released(M, row, d)
  BY ReleasedKept DEF SessionSound
<1>3. reversal # 0 => row.state # "absent" /\ row.hold \in DOMAIN M.reversalOf
  BY DEF SessionSound, Extends
<1>4. bill # 0 => row.state # "absent" /\ b /\ IsBill(M, bill, row.ask)
  <2>1. ASSUME bill # 0, bill = L.byKey[SettleKey(s)]
        PROVE  IsBill(M, bill, row.ask)
    <3>1. bill \in 1..L.seq
      BY <2>1, KeysApart DEF IsLedger
    <3>2. M.byID[bill] = L.byID[bill]
      BY <3>1 DEF Extends
    <3>3. IsBill(L, bill, row.ask)
      BY <2>1 DEF SessionSound
    <3> HIDE DEF bill
    <3>4. QED
      BY <3>2, <3>3 DEF IsBill
  <2>2. QED
    BY <2>1 DEF SessionSound
<1>5. QED
  BY <1>1, <1>2, <1>3, <1>4 DEF SessionSound

(* A run's facts survive a step of the ledger. *)
LEMMA RunKept ==
    ASSUME NEW L, NEW M, Extends(L, M), NEW U, NEW V, Later(U, V), NEW row, NEW k,
           NEW b, NEW lostOnce, NEW lostNow, lostOnce \subseteq lostNow,
           RunSound(L, U, row, k, b, k.id \in lostOnce)
    PROVE  RunSound(M, V, row, k, b, k.id \in lostNow)
<1>1. IsHold(L, U, k.copy.hold, k.copy.ask) => IsHold(M, V, k.copy.hold, k.copy.ask)
  BY HoldKept
<1>2. ASSUME Released(L, row, k.id \in lostOnce)
      PROVE  Released(M, row, k.id \in lostNow)
  <2> DEFINE s == k.id
  <2>1. (s \in lostOnce => s \in lostNow) /\ Released(L, row, s \in lostOnce)
    BY <1>2
  <2> HIDE DEF s
  <2>2. Released(M, row, s \in lostNow)
    BY <2>1, ReleasedKept
  <2>3. QED
    BY <2>2 DEF s
<1>3. QED
  BY <1>1, <1>2 DEF RunSound

-----------------------------------------------------------------------------
(* The diamonds that stand *)

(* What the ledger's own facts say of a creator's diamonds. *)
LEMMA GivenType ==
    ASSUME NEW L, IsLedger(L), NEW v
    PROVE  /\ \A i \in 1..L.seq : Given(L, v)[i] \in Int
           /\ IsFiniteSet(Standing(L)) /\ Standing(L) \subseteq 1..L.seq
           /\ L.seq \in Nat
<1>1. L.seq \in Nat /\ \A i \in 1..L.seq : IsEntries(L.byID[i].entries)
  BY DEF IsLedger, IsTransaction
<1>2. \A i \in 1..L.seq : Given(L, v)[i] \in Int
  BY <1>1 DEF Given, IsEntries
<1>3. Standing(L) \subseteq 1..L.seq
  BY DEF Standing
<1>4. IsFiniteSet(1..L.seq)
  BY <1>1, FS_Interval
<1>5. QED
  BY <1>1, <1>2, <1>3, <1>4, FS_Subset

(* A post that takes no diamonds off v, or that pays him out, keeps them    *)
(* accounted for.                                                           *)
LEMMA PostKeepsDiamonds ==
    ASSUME NEW L, IsLedger(L), NEW M, IsLedger(M), NEW kind, kind # "reversal",
           NEW key, NEW e, IsEntries(e),
           Grows(L, M, kind, key, e), NEW v \in Users, DiamondsStand(L, v),
           Diamonds(v) \in DOMAIN e => e[Diamonds(v)] >= 0 \/ key = CashOutKey(v)
    PROVE  DiamondsStand(M, v)
<1>1. CASE M = L
  BY <1>1
<1>2. CASE L.byKey[key] = 0 /\ OneMore(L, M, kind, key, e, 0) /\ ~ CashedOut(M, v)
  <2> DEFINE x == Diamonds(v)
             n == L.seq + 1
             new == IF x \in DOMAIN e THEN e[x] ELSE 0
             f == Given(L, v)
             g == Given(M, v)
             S == Standing(L)
             T == Standing(M)
  <2>1. /\ M.seq = n /\ M.reversalOf = L.reversalOf /\ M.balances = Proposed(L, e)
        /\ \A i \in 1..L.seq : M.byID[i] = L.byID[i]
        /\ M.byID[n].kind = kind /\ M.byID[n].entries = e
        /\ M.byKey[key] # 0 /\ \A k \in Keys \ {key} : M.byKey[k] = L.byKey[k]
    <3>1. /\ L.seq \in Nat /\ M.seq = L.seq + 1 /\ M.byKey[key] = M.seq
          /\ M.reversalOf = L.reversalOf /\ M.balances = Proposed(L, e)
          /\ \A i \in 1..L.seq : M.byID[i] = L.byID[i]
      BY <1>2 DEF OneMore
    <3>2. /\ M.byID[M.seq].kind = kind /\ M.byID[M.seq].entries = e
          /\ \A k \in Keys \ {key} : M.byKey[k] = L.byKey[k]
      BY <1>2 DEF OneMore
    <3>3. QED
      BY <3>1, <3>2
  <2>2. CashOutKey(v) \in Keys /\ x \in Accounts
    BY KeysApart DEF Accounts, Wallets
  <2>3. key # CashOutKey(v) /\ ~ CashedOut(L, v)
    BY <1>2, <2>1, <2>2 DEF CashedOut
  <2>4. /\ L.balances[x] = SumFunctionOnSet(f, S) /\ \A i \in S : f[i] >= 0
    BY <2>3 DEF DiamondsStand
  <2>5. /\ L.seq \in Nat /\ IsFiniteSet(S) /\ S \subseteq 1..L.seq /\ \A i \in 1..L.seq : f[i] \in Int
        /\ IsFiniteSet(T) /\ \A i \in 1..M.seq : g[i] \in Int
    BY GivenType
  <2>6. n \in Nat /\ n \notin 1..L.seq /\ 1..M.seq = 1..L.seq \cup {n}
    BY <2>1, <2>5
  <2>7. DOMAIN L.reversalOf \subseteq 1..L.seq
    BY DEF IsLedger
  <2>8. T = S \cup {n} /\ n \notin S
    BY <2>1, <2>5, <2>6, <2>7 DEF Standing
  <2>9. \A i \in 1..L.seq : g[i] = f[i]
    BY <2>1, <2>6 DEF Given
  <2>10. g[n] = new
    BY <2>1, <2>6 DEF Given
  <2>11. new \in Int /\ new >= 0
    BY <2>3 DEF IsEntries
  <2>12. M.balances[x] = L.balances[x] + new
    BY <2>1, <2>2 DEF Proposed
  <2> HIDE DEF f, g, S, T, x, n, new
  <2>13. SumFunctionOnSet(g, T) = new + SumFunctionOnSet(g, S)
    <3>1. n \in T /\ T \ {n} = S /\ \A i \in T : g[i] \in Int
      BY <2>5, <2>6, <2>8
    <3>2. QED
      BY <2>5, <2>10, <3>1, SumTakeOut
  <2>14. SumFunctionOnSet(g, S) = SumFunctionOnSet(f, S)
    BY <2>5, <2>9, SumCongruence
  <2>15. SumFunctionOnSet(f, S) \in Int
    BY <2>5, SumIsInt
  <2>16. M.balances[x] = SumFunctionOnSet(g, T)
    BY <2>4, <2>11, <2>12, <2>13, <2>14, <2>15
  <2>17. \A i \in T : g[i] >= 0
    BY <2>4, <2>5, <2>8, <2>9, <2>10, <2>11
  <2>18. QED
    BY <2>16, <2>17 DEF DiamondsStand, g, T, x
<1>3. QED
  BY <1>1, <1>2 DEF Grows, DiamondsStand

(* A reversal takes back what its original gave, which stands no longer.    *)
LEMMA RefundKeepsDiamonds ==
    ASSUME NEW L, IsLedger(L), NEW M, IsLedger(M), NEW id, NEW key \in Keys,
           Refunds(L, M, id, key), NEW v \in Users, DiamondsStand(L, v), key # CashOutKey(v)
    PROVE  DiamondsStand(M, v)
<1>1. CASE M = L
  BY <1>1
<1>2. CASE L.byKey[key] = 0 /\ Refunded(L, M, id, key) /\ ~ CashedOut(M, v)
  <2> DEFINE x == Diamonds(v)
             n == L.seq + 1
             old == L.byID[id].entries
             f == Given(L, v)
             g == Given(M, v)
             S == Standing(L)
             T == Standing(M)
  <2>1. /\ id \in 1..L.seq /\ L.byID[id].kind # "reversal" /\ id \notin DOMAIN L.reversalOf
        /\ M.seq = n /\ DOMAIN M.reversalOf = DOMAIN L.reversalOf \cup {id}
        /\ M.balances = Proposed(L, Negated(old))
        /\ \A i \in 1..L.seq : M.byID[i] = L.byID[i]
        /\ M.byID[n].kind = "reversal" /\ \A k \in Keys \ {key} : M.byKey[k] = L.byKey[k]
    BY <1>2 DEF Refunded
  <2>2. CashOutKey(v) \in Keys /\ x \in Accounts
    BY KeysApart DEF Accounts, Wallets
  <2>3. ~ CashedOut(L, v)
    BY <1>2, <2>1, <2>2 DEF CashedOut
  <2>4. /\ L.balances[x] = SumFunctionOnSet(f, S) /\ \A i \in S : f[i] >= 0
    BY <2>3 DEF DiamondsStand
  <2>5. /\ L.seq \in Nat /\ IsFiniteSet(S) /\ S \subseteq 1..L.seq /\ \A i \in 1..L.seq : f[i] \in Int
        /\ IsFiniteSet(T) /\ \A i \in 1..M.seq : g[i] \in Int
    BY GivenType
  <2>6. 1..M.seq = 1..L.seq \cup {n}
    BY <2>1, <2>5
  <2>7. id \in S /\ T = S \ {id}
    BY <2>1, <2>5, <2>6 DEF Standing
  <2>8. \A i \in 1..L.seq : g[i] = f[i]
    BY <2>1, <2>6 DEF Given
  <2>9. M.balances[x] = L.balances[x] - f[id]
    <3>1. IsEntries(old)
      BY <2>1 DEF IsLedger, IsTransaction
    <3>2. L.balances[x] \in Int
      BY <2>2 DEF IsLedger
    <3>3. CASE x \in DOMAIN old
      <4>1. x \in DOMAIN Negated(old) /\ Negated(old)[x] = - old[x]
        BY <3>3 DEF Negated
      <4>2. f[id] = old[x] /\ old[x] \in Int
        BY <2>1, <3>1, <3>3 DEF Given, IsEntries
      <4>3. M.balances[x] = L.balances[x] + (- old[x])
        BY <2>1, <2>2, <4>1 DEF Proposed
      <4> HIDE DEF old, f, x
      <4>4. QED
        BY <3>2, <4>2, <4>3
    <3>4. CASE x \notin DOMAIN old
      <4>1. x \notin DOMAIN Negated(old)
        BY <3>4 DEF Negated
      <4>2. f[id] = 0
        BY <2>1, <3>4 DEF Given
      <4>3. M.balances[x] = L.balances[x] + 0
        BY <2>1, <2>2, <4>1 DEF Proposed
      <4> HIDE DEF old, f, x
      <4>4. QED
        BY <3>2, <4>2, <4>3
    <3>5. QED
      BY <3>3, <3>4
  <2> HIDE DEF f, g, S, T, x, n, old
  <2>10. SumFunctionOnSet(f, S) = f[id] + SumFunctionOnSet(f, T)
    <3>1. \A i \in S : f[i] \in Int
      BY <2>5
    <3>2. IsFiniteSet(S) /\ id \in S
      BY <2>5, <2>7
    <3>3. SumFunctionOnSet(f, S) = f[id] + SumFunctionOnSet(f, S \ {id})
      BY <3>1, <3>2, SumTakeOut
    <3>4. QED
      BY <2>7, <3>3
  <2>11. \A i \in T : g[i] = f[i] /\ f[i] \in Int
    BY <2>5, <2>7, <2>8
  <2>12. SumFunctionOnSet(g, T) = SumFunctionOnSet(f, T)
    BY <2>5, <2>11, SumCongruence
  <2>13. SumFunctionOnSet(f, T) \in Int /\ f[id] \in Int
    BY <2>1, <2>5, <2>11, SumIsInt
  <2>14. M.balances[x] = SumFunctionOnSet(g, T)
    BY <2>4, <2>9, <2>10, <2>12, <2>13
  <2>15. \A i \in T : g[i] >= 0
    BY <2>4, <2>7, <2>11
  <2>16. QED
    BY <2>14, <2>15 DEF DiamondsStand, g, T, x
<1>3. QED
  BY <1>1, <1>2 DEF Refunds, DiamondsStand

(* So whoever was not paid out can give back any transaction that stands.   *)
LEMMA GivesBack ==
    ASSUME NEW L, IsLedger(L), NEW v \in Users, DiamondsStand(L, v), ~ CashedOut(L, v),
           NEW id \in Standing(L)
    PROVE  Given(L, v)[id] <= L.balances[Diamonds(v)]
<1> DEFINE f == Given(L, v)
           S == Standing(L)
<1>1. L.balances[Diamonds(v)] = SumFunctionOnSet(f, S) /\ \A i \in S : f[i] >= 0
  BY DEF DiamondsStand
<1>2. IsFiniteSet(S) /\ \A i \in S : f[i] \in Int
  BY GivenType
<1>3. id \in S /\ {id} \subseteq S
  OBVIOUS
<1> HIDE DEF f, S
<1>4. SumFunctionOnSet(f, {id}) <= SumFunctionOnSet(f, S)
  BY <1>1, <1>2, <1>3, SumGrows
<1>5. SumFunctionOnSet(f, {id}) = f[id]
  <2>1. IsFiniteSet({id}) /\ f[id] \in Int /\ {id} \ {id} = {}
    BY <1>2, <1>3, FS_Singleton
  <2>2. SumFunctionOnSet(f, {id}) = f[id] + SumFunctionOnSet(f, {id} \ {id})
    BY <2>1, SumTakeOut
  <2>3. QED
    BY <2>1, <2>2, SumEmpty
<1>6. QED
  BY <1>1, <1>4, <1>5 DEF f

-----------------------------------------------------------------------------
(* The ledger *)

(* A post other than a reversal keeps the ledger sound. *)
LEMMA PostKeeps ==
    ASSUME NEW L, LedgerSound(L), NEW kind \in Kinds, kind # "reversal", NEW key \in Keys,
           NEW e, IsEntries(e), NEW M, M = Post(L, kind, key, e).ledger,
           \A v \in Users : Diamonds(v) \in DOMAIN e =>
               e[Diamonds(v)] >= 0 \/ key = CashOutKey(v),
           \A k \in ClientKeys : key = ClientKey(k) => Spent(e)
    PROVE  LedgerSound(M) /\ Extends(L, M) /\ Grows(L, M, kind, key, e)
<1>1. IsLedger(L) /\ Solvent(L)
  BY DEF LedgerSound
<1>2. IsLedger(M) /\ Solvent(M) /\ Grows(L, M, kind, key, e)
  BY <1>1, PostGrows
<1>3. Extends(L, M)
  BY <1>1, <1>2, GrowsExtends
<1>4. ASSUME NEW v \in Users
      PROVE  DiamondsStand(M, v)
  <2>1. DiamondsStand(L, v)
    BY DEF LedgerSound
  <2>2. QED
    BY <1>1, <1>2, <2>1, PostKeepsDiamonds
<1>5. ASSUME NEW k \in ClientKeys, M.byKey[ClientKey(k)] # 0
      PROVE  IsSpend(M, M.byKey[ClientKey(k)])
  <2>1. ClientKey(k) \in Keys
    BY KeysApart
  <2>2. CASE L.byKey[ClientKey(k)] # 0
    <3>1. IsSpend(L, L.byKey[ClientKey(k)])
      BY <2>2 DEF LedgerSound
    <3>2. M.byKey[ClientKey(k)] = L.byKey[ClientKey(k)]
      BY <1>3, <2>1, <2>2 DEF Extends
    <3>3. QED
      BY <1>3, <3>1, <3>2, SpendKept
  <2>3. CASE L.byKey[ClientKey(k)] = 0
    <3>1. OneMore(L, M, kind, key, e, 0)
      BY <1>2, <1>5, <2>3 DEF Grows
    <3>2. key = ClientKey(k)
      BY <1>5, <2>1, <2>3, <3>1 DEF OneMore
    <3>3. Spent(e)
      BY <3>2
    <3>4. /\ M.seq = L.seq + 1 /\ L.seq \in Nat /\ M.byKey[key] = M.seq
          /\ M.byID[M.seq].kind = kind /\ M.byID[M.seq].entries = e
      BY <3>1 DEF OneMore
    <3>5. M.seq \in 1..M.seq
      BY <3>4
    <3>6. IsSpend(M, M.seq)
      BY <3>3, <3>4, <3>5 DEF IsSpend
    <3>7. QED
      BY <3>2, <3>4, <3>6
  <2>4. QED
    BY <2>2, <2>3
<1>6. QED
  BY <1>2, <1>3, <1>4, <1>5 DEF LedgerSound

(* What a post under a client's key adds is what the client used it for. *)
LEMMA PostUses ==
    ASSUME NEW L, LedgerSound(L), NEW U, KeysUsed(L, U), NEW V, Later(U, V),
           NEW M, Extends(L, M), NEW kind, NEW key, NEW e, Grows(L, M, kind, key, e),
           M # L => \A k \in ClientKeys :
               key = ClientKey(k) => [kind |-> kind, entries |-> e] \in V[k]
    PROVE  KeysUsed(M, V)
<1>1. ASSUME NEW k \in ClientKeys, M.byKey[ClientKey(k)] # L.byKey[ClientKey(k)]
      PROVE  Use(M, M.byKey[ClientKey(k)]) \in V[k]
  <2>1. M # L /\ OneMore(L, M, kind, key, e, 0)
    BY <1>1 DEF Grows
  <2>2. key = ClientKey(k)
    BY <1>1, <2>1, KeysApart DEF OneMore
  <2>3. /\ M.byKey[key] = M.seq
        /\ M.byID[M.seq].kind = kind /\ M.byID[M.seq].entries = e
    BY <2>1 DEF OneMore
  <2>4. Use(M, M.byKey[key]) = [kind |-> kind, entries |-> e]
    BY <2>3 DEF Use
  <2>5. QED
    BY <2>1, <2>2, <2>4
<1>2. QED
  BY <1>1, UsesKept

(* The release of a hold keeps the ledger sound. *)
LEMMA RefundKeeps ==
    ASSUME NEW L, LedgerSound(L), NEW id, NEW s \in Sessions,
           NEW M, M = Reverse(L, id, HoldReverseKey(s)).ledger
    PROVE  LedgerSound(M) /\ Extends(L, M) /\ Refunds(L, M, id, HoldReverseKey(s))
<1> DEFINE key == HoldReverseKey(s)
<1>1. IsLedger(L) /\ Solvent(L) /\ key \in Keys
  BY KeysApart DEF LedgerSound
<1>2. /\ \A v : key # CashOutKey(v)
      /\ \A k : key # ClientKey(k)
  BY KeysApart
<1> HIDE DEF key
<1>3. M = Reverse(L, id, key).ledger
  BY DEF key
<1>4. IsLedger(M) /\ Solvent(M) /\ Refunds(L, M, id, key)
  BY <1>1, <1>3, ReverseRefunds
<1>5. Extends(L, M)
  BY <1>1, <1>4, RefundsExtends
<1>6. ASSUME NEW v \in Users
      PROVE  DiamondsStand(M, v)
  <2>1. DiamondsStand(L, v)
    BY DEF LedgerSound
  <2>2. QED
    BY <1>1, <1>2, <1>4, <2>1, RefundKeepsDiamonds
<1>7. ASSUME NEW k \in ClientKeys, M.byKey[ClientKey(k)] # 0
      PROVE  IsSpend(M, M.byKey[ClientKey(k)])
  <2>1. ClientKey(k) \in Keys
    BY KeysApart
  <2>2. M.byKey[ClientKey(k)] = L.byKey[ClientKey(k)]
    BY <1>2, <1>4, <2>1 DEF Refunds, Refunded
  <2>3. IsSpend(L, L.byKey[ClientKey(k)])
    BY <1>7, <2>2 DEF LedgerSound
  <2>4. QED
    BY <1>5, <2>2, <2>3, SpendKept
<1>8. QED
  BY <1>4, <1>5, <1>6, <1>7 DEF LedgerSound, key

(* The ledger refuses to give a spend back only when someone it paid was    *)
(* paid out.                                                                *)
LEMMA RefundReleases ==
    ASSUME NEW L, LedgerSound(L), NEW s \in Sessions, NEW id, IsSpend(L, id),
           L.byKey[HoldReverseKey(s)] # 0 => id \in DOMAIN L.reversalOf,
           NEW M, M = Reverse(L, id, HoldReverseKey(s)).ledger
    PROVE  /\ PaidOut(M, id) \/ id \in DOMAIN M.reversalOf
           /\ M.byKey[HoldReverseKey(s)] # 0 => id \in DOMAIN M.reversalOf
<1> DEFINE key == HoldReverseKey(s)
           old == L.byID[id].entries
           e == Negated(old)
<1>1. PICK u \in Users, v \in Users, n \in Nat : old = SpendEntries(u, v, n)
  BY DEF IsSpend, Spent
<1>2. /\ IsLedger(L) /\ Solvent(L) /\ Extends(L, M) /\ Refunds(L, M, id, key) /\ key \in Keys
      /\ id \in 1..L.seq /\ L.byID[id].kind # "reversal"
  BY RefundKeeps, KeysApart DEF LedgerSound, IsSpend
<1>3. Spends(old, u, v, n)
  <2> HIDE DEF old
  <2>1. QED
    BY <1>1, SpendEntriesAre
<1> HIDE DEF key
<1>4. CASE id \in DOMAIN L.reversalOf
  BY <1>2, <1>4 DEF Extends
<1>5. CASE CashedOut(L, v)
  <2>1. M.byKey[CashOutKey(v)] # 0 /\ M.byID[id] = L.byID[id]
    BY <1>2, <1>5, KeysApart DEF CashedOut, Extends
  <2>2. PaidOut(M, id)
    BY <1>3, <2>1 DEF PaidOut, Spends
  <2>3. M = L \/ Refunded(L, M, id, key)
    BY <1>2 DEF Refunds
  <2>4. M.byKey[key] # 0 => id \in DOMAIN M.reversalOf
    BY <2>3 DEF Refunded, key
  <2>5. QED
    BY <2>2, <2>4 DEF key
<1>6. CASE id \notin DOMAIN L.reversalOf /\ ~ CashedOut(L, v)
  <2>1. L.byKey[key] = 0
    BY <1>6 DEF key
  <2>2. ReverseError(L, id) = "nil"
    BY <1>2, <1>6 DEF ReverseError
  <2>3. IsEntries(old) /\ Balanced(old)
    BY <1>3 DEF Spends
  <2>4. IsEntries(e) /\ Balanced(e)
    <3> HIDE DEF old
    <3>1. QED
      BY <2>3, NegatedType, NegatedBalanced
  <2>5. /\ DOMAIN e = {Coins(u), Revenue, Liability, Diamonds(v), DiamondLiability}
        /\ e[Coins(u)] = - old[Coins(u)] /\ e[Diamonds(v)] = - old[Diamonds(v)]
        /\ old[Coins(u)] = - n /\ old[Diamonds(v)] \in Int
    BY <1>3 DEF Spends, Negated, IsEntries
  <2>6. /\ L.balances[Coins(u)] \in Int /\ L.balances[Coins(u)] >= 0
        /\ L.balances[Diamonds(v)] \in Int
    BY <1>2 DEF IsLedger, Solvent, Accounts, Wallets
  <2>7. old[Diamonds(v)] <= L.balances[Diamonds(v)]
    <3>1. id \in Standing(L) /\ DiamondsStand(L, v)
      BY <1>2, <1>6 DEF Standing, LedgerSound
    <3>2. Given(L, v)[id] = old[Diamonds(v)]
      BY <1>2, <1>3 DEF Given, Spends
    <3> HIDE DEF old
    <3>3. Given(L, v)[id] <= L.balances[Diamonds(v)]
      BY <1>2, <1>6, <3>1, GivesBack
    <3>4. QED
      BY <3>2, <3>3
  <2>8. Covered(L, e)
    <3>1. \A a \in DOMAIN e \ PlatformAccounts : a = Coins(u) \/ a = Diamonds(v)
      BY <2>5 DEF PlatformAccounts
    <3>2. L.balances[Coins(u)] + e[Coins(u)] >= 0
      <4> HIDE DEF old, e
      <4>1. QED
        BY <2>5, <2>6
    <3>3. L.balances[Diamonds(v)] + e[Diamonds(v)] >= 0
      <4> HIDE DEF old, e
      <4>1. QED
        BY <2>5, <2>6, <2>7
    <3> HIDE DEF old, e
    <3>4. QED
      BY <3>1, <3>2, <3>3 DEF Covered
  <2>9. PostError(L, e) = "nil"
    BY <2>4, <2>5, <2>8 DEF PostError
  <2>10. Refunded(L, M, id, key)
    BY <1>2, <2>1, <2>2, <2>9 DEF Refunds
  <2>11. QED
    BY <2>10 DEF Refunded
<1>7. QED
  BY <1>4, <1>5, <1>6

-----------------------------------------------------------------------------
(* Steps *)

(* A run and the row it works on. *)
LEMMA RunIs ==
    ASSUME TypeOK, NEW r \in Runners
    PROVE  /\ run \in [Runners -> Run] /\ run[r] \in Run /\ run[r].pc \in Steps
           /\ run[r].id \in Sessions /\ run[r].key \in ClientKeys
           /\ run[r].copy \in Row /\ run[r].copy.ask \in Asks /\ run[r].copy.hold \in Nat
           /\ session[run[r].id] \in Row
BY DEF TypeOK, Run, Row

(* The records of no session and of no request. *)
LEMMA IdleType == Absent \in Row /\ Absent.state = "absent" /\ Idle \in Run /\ Idle.pc = "idle"
<1>1. AnyKey \in ClientKeys /\ AnyAsk \in Asks
  BY PvAssumption DEF AnyKey, AnyAsk
<1>2. Absent \in Row /\ Absent.state = "absent"
  BY <1>1 DEF Absent, Row, States
<1>3. 1 \in Sessions
  BY PvAssumption DEF Sessions
<1> HIDE DEF Absent
<1>4. QED
  BY <1>1, <1>2, <1>3 DEF Idle, Run, Steps

(* Run r becomes k, and the others stay. *)
Moved(r, k) ==
    /\ run' \in [Runners -> Run] /\ run'[r] = k
    /\ \A q \in Runners \ {r} : run'[q] = run[q]

(* The ledger and the history only grow, and agree. *)
Onward ==
    /\ LedgerSound(ledger') /\ Extends(ledger, ledger')
    /\ uses' = [k \in ClientKeys |-> uses'[k]]
    /\ Later(uses, uses') /\ KeysUsed(ledger', uses')
    /\ lost \subseteq lost'

(* A step of one run, and what it does to the ledger. *)
LEMMA RunStep ==
    ASSUME IInv, NEW r \in Runners, Onward,
           \A s \in Sessions :
               SessionSound(ledger', uses', s, session[s], s \in accepted, s \in lost'),
           NEW k \in Run, Moved(r, k),
           RunSound(ledger', uses', session[k.id], k, k.id \in accepted, k.id \in lost'),
           k.pc \in Requesting =>
               \A q \in Runners \ {r} : run[q].pc \in Requesting => run[q].id # k.id,
           named' \in [ClientKeys -> Sessions \cup {NoSession}],
           UNCHANGED <<session, accepted>>
    PROVE  IInv'
<1>1. TypeOK /\ run \in [Runners -> Run]
  BY DEF IInv, TypeOK
<1>2. /\ run' \in [Runners -> Run] /\ run'[r] = k
      /\ \A q \in Runners \ {r} : run'[q] = run[q]
  BY DEF Moved
<1>3. TypeOK' /\ LedgerSound(ledger') /\ KeysUsed(ledger', uses')
  BY <1>1, <1>2 DEF TypeOK, LedgerSound, Onward
<1>4. ASSUME NEW q \in Runners
      PROVE  RunSound(ledger', uses', session'[run'[q].id], run'[q], run'[q].id \in accepted',
                      run'[q].id \in lost')
  <2>1. CASE q = r
    BY <1>2, <2>1
  <2>2. CASE q # r
    <3> DEFINE g == run[q]
    <3>1. /\ run'[q] = g /\ session' = session /\ accepted' = accepted
          /\ RunSound(ledger, uses, session[g.id], g, g.id \in accepted, g.id \in lost)
      BY <1>1, <1>2, <2>2 DEF IInv
    <3>2. /\ Extends(ledger, ledger') /\ Later(uses, uses') /\ lost \subseteq lost'
      BY DEF Onward
    <3> HIDE DEF g
    <3>3. RunSound(ledger', uses', session[g.id], g, g.id \in accepted, g.id \in lost')
      BY <3>1, <3>2, RunKept
    <3>4. QED
      BY <3>1, <3>3
  <2>3. QED
    BY <2>1, <2>2
<1>5. \A p, q \in Runners :
          run'[p].pc \in Requesting /\ run'[q].pc \in Requesting /\ run'[p].id = run'[q].id
          => p = q
  BY <1>2 DEF IInv
<1>6. \A s \in Sessions :
          SessionSound(ledger', uses', s, session'[s], s \in accepted', s \in lost')
  OBVIOUS
<1>7. QED
  BY <1>3, <1>4, <1>5, <1>6 DEF IInv

(* A step of one run that leaves the ledger alone. *)
LEMMA QuietRunStep ==
    ASSUME IInv, NEW r \in Runners, NEW k \in Run, run' = [run EXCEPT ![r] = k],
           RunSound(ledger, uses, session[k.id], k, k.id \in accepted, k.id \in lost),
           k.pc \in Requesting =>
               \A q \in Runners \ {r} : run[q].pc \in Requesting => run[q].id # k.id,
           UNCHANGED <<session, ledger, named, history>>
    PROVE  IInv'
<1>1. Onward /\ named' \in [ClientKeys -> Sessions \cup {NoSession}]
  BY DEF IInv, TypeOK, LedgerSound, IsLedger, Onward, Extends, Later, history
<1>2. /\ RunSound(ledger', uses', session[k.id], k, k.id \in accepted, k.id \in lost')
      /\ \A s \in Sessions :
             SessionSound(ledger', uses', s, session[s], s \in accepted, s \in lost')
      /\ UNCHANGED <<session, accepted>>
  BY DEF IInv, history
<1>3. Moved(r, k)
  BY DEF IInv, TypeOK, Moved
<1>4. QED
  BY <1>1, <1>2, <1>3, RunStep

(* Every way a run ends without a write. *)
LEMMA ReturnStep ==
    ASSUME IInv, NEW r \in Runners, Return(r), UNCHANGED <<session, ledger, named, history>>
    PROVE  IInv'
<1>1. Idle \in Run /\ Idle.pc = "idle"
  BY IdleType
<1>2. run' = [run EXCEPT ![r] = Idle]
  BY DEF Return
<1> HIDE DEF Idle
<1>3. RunSound(ledger, uses, session[Idle.id], Idle, Idle.id \in accepted, Idle.id \in lost)
  BY <1>1 DEF RunSound, Requesting, Ending
<1>4. QED
  BY <1>1, <1>2, <1>3, QuietRunStep DEF Requesting

(* The write of a run's copy. *)
LEMMA RowStep ==
    ASSUME IInv, NEW r \in Runners, Return(r), run[r].pc # "idle",
           NEW s, s = run[r].id, NEW copy \in Row, copy.state # "absent",
           session' = [session EXCEPT ![s] = copy],
           accepted \subseteq accepted', accepted' \subseteq accepted \cup {s},
           SessionSound(ledger, uses, s, copy, s \in accepted', s \in lost),
           \/ session[s] = Absent /\ run[r].pc \in Requesting
           \/ session[s].state # "absent" /\ copy.ask = session[s].ask
                  /\ copy.hold = session[s].hold,
           UNCHANGED <<ledger, named, uses, lost>>
    PROVE  IInv'
<1>1. TypeOK /\ run \in [Runners -> Run] /\ session \in [Sessions -> Row] /\ s \in Sessions
  BY RunIs DEF IInv, TypeOK
<1>2. Idle \in Run /\ Idle.pc = "idle" /\ Absent.state = "absent"
  BY IdleType
<1>3. run' = [run EXCEPT ![r] = Idle]
  BY DEF Return
<1> HIDE DEF Idle, Absent
<1>4. /\ run' \in [Runners -> Run] /\ run'[r] = Idle
      /\ \A q \in Runners \ {r} : run'[q] = run[q]
      /\ session' \in [Sessions -> Row] /\ session'[s] = copy
      /\ \A t \in Sessions \ {s} : session'[t] = session[t]
  BY <1>1, <1>2, <1>3
<1>5. TypeOK' /\ LedgerSound(ledger') /\ KeysUsed(ledger', uses')
  BY <1>1, <1>4 DEF TypeOK, IInv
<1>6. ASSUME NEW t \in Sessions
      PROVE  SessionSound(ledger', uses', t, session'[t], t \in accepted', t \in lost')
  <2>1. CASE t = s
    BY <1>4, <2>1
  <2>2. CASE t # s
    <3>1. session'[t] = session[t] /\ (t \in accepted' <=> t \in accepted)
      BY <1>4, <2>2
    <3>2. SessionSound(ledger, uses, t, session[t], t \in accepted, t \in lost)
      BY DEF IInv
    <3>3. QED
      BY <3>1, <3>2 DEF SessionSound
  <2>3. QED
    BY <2>1, <2>2
<1>7. ASSUME NEW q \in Runners
      PROVE  RunSound(ledger', uses', session'[run'[q].id], run'[q], run'[q].id \in accepted',
                      run'[q].id \in lost')
  <2>1. CASE q = r
    BY <1>2, <1>4, <2>1 DEF RunSound, Requesting, Ending
  <2>2. CASE q # r
    <3>1. /\ run'[q] = run[q] /\ run[q].id \in Sessions
          /\ RunSound(ledger, uses, session[run[q].id], run[q], run[q].id \in accepted,
                      run[q].id \in lost)
      BY <1>1, <1>4, <2>2, RunIs DEF IInv
    <3>2. CASE run[q].id # s
      <4>1. /\ session'[run[q].id] = session[run[q].id]
            /\ (run[q].id \in accepted' <=> run[q].id \in accepted)
        BY <1>4, <3>1, <3>2
      <4>2. QED
        BY <3>1, <4>1 DEF RunSound
    <3>3. CASE run[q].id = s /\ session[s].state # "absent"
      <4>1. /\ copy.ask = session[s].ask /\ copy.hold = session[s].hold
            /\ session'[s] = copy /\ session[s] # Absent /\ copy # Absent
        BY <1>2, <1>4, <3>3
      <4>2. Released(ledger, session[s], s \in lost) => Released(ledger, copy, s \in lost)
        BY <4>1 DEF Released
      <4>3. QED
        BY <3>1, <3>3, <4>1, <4>2 DEF RunSound
    <3>4. CASE run[q].id = s /\ session[s] = Absent
      <4>1. run[r].pc \in Requesting
        BY <1>2, <3>4
      <4>2. run[q].pc \notin Requesting
        BY <2>2, <3>4, <4>1 DEF IInv
      <4>3. run[q].pc = "idle"
        BY <1>2, <3>1, <3>4, <4>2 DEF RunSound
      <4>4. QED
        BY <3>1, <4>3 DEF RunSound, Requesting, Ending
    <3>5. QED
      BY <3>2, <3>3, <3>4
  <2>3. QED
    BY <2>1, <2>2
<1>8. \A p, q \in Runners :
          run'[p].pc \in Requesting /\ run'[q].pc \in Requesting /\ run'[p].id = run'[q].id
          => p = q
  <2>1. Idle.pc \notin Requesting
    BY <1>2 DEF Requesting
  <2>2. QED
    BY <1>4, <2>1 DEF IInv
<1>9. QED
  BY <1>5, <1>6, <1>7, <1>8 DEF IInv

-----------------------------------------------------------------------------
(* Requests *)

(* A request: the id is new, so its row is empty and nobody else works on it. *)
LEMMA RequestStep ==
    ASSUME IInv, NEW r \in Runners, NEW q \in ClientKeys, NEW ask \in Asks, NEW s \in Sessions,
           RequestSession(r, q, ask, s)
    PROVE  IInv'
<1> DEFINE c == [Absent EXCEPT !.state = "requested", !.ask = ask]
           k == [pc |-> "charge", id |-> s, key |-> q, copy |-> c]
<1>1. Absent \in Row
  BY IdleType
<1>2. c \in Row /\ c.state = "requested"
  BY <1>1 DEF Row, States
<1>3. /\ run' = [run EXCEPT ![r] = k] /\ session[s] = Absent
      /\ \A p \in Runners : run[p].pc = "idle" \/ run[p].id # s
      /\ UNCHANGED <<session, ledger, named, history>>
  BY DEF RequestSession, Fresh, At
<1> HIDE DEF c, Absent
<1>4. k \in Run /\ k.pc = "charge" /\ k.id = s /\ k.copy = c
  BY <1>2 DEF Run, Steps
<1> HIDE DEF k
<1>5. RunSound(ledger, uses, session[k.id], k, k.id \in accepted, k.id \in lost)
  BY <1>2, <1>3, <1>4 DEF RunSound, Requesting, Ending
<1>6. \A p \in Runners \ {r} : run[p].pc \in Requesting => run[p].id # k.id
  BY <1>3, <1>4 DEF Requesting
<1>7. QED
  BY <1>3, <1>4, <1>5, <1>6, QuietRunStep

(* A step that takes a hold, and what it makes of the run... *)
TakesHold(r, pc, hold, consumed) ==
    run' = [run EXCEPT ![r].pc = pc, ![r].copy.hold = hold, ![r].copy.consumed = consumed]

LEMMA MoveWithHold ==
    ASSUME TypeOK, NEW r \in Runners, NEW pc \in Steps, NEW hold \in Nat, NEW consumed \in Nat,
           TakesHold(r, pc, hold, consumed)
    PROVE  \E k \in Run :
              /\ Moved(r, k)
              /\ k.pc = pc /\ k.id = run[r].id
              /\ k.copy.state = run[r].copy.state /\ k.copy.ask = run[r].copy.ask
              /\ k.copy.hold = hold
<1> DEFINE c == [run[r].copy EXCEPT !.hold = hold, !.consumed = consumed]
<1>1. run \in [Runners -> Run] /\ run[r] \in Run /\ run[r].copy \in Row
  BY DEF TypeOK, Run
<1>2. /\ run'[r] = [run[r] EXCEPT !.pc = pc, !.copy = c]
      /\ \A q \in Runners \ {r} : run'[q] = run[q]
      /\ DOMAIN run' = Runners /\ run' = [q \in Runners |-> run'[q]]
  BY <1>1 DEF Run, TakesHold
<1>3. c \in Row /\ c.state = run[r].copy.state /\ c.ask = run[r].copy.ask /\ c.hold = hold
  BY <1>1 DEF Row
<1> HIDE DEF c
<1>4. /\ run'[r] \in Run
      /\ run'[r].pc = pc /\ run'[r].id = run[r].id /\ run'[r].copy = c
  BY <1>1, <1>2, <1>3 DEF Run
<1>5. Moved(r, run'[r])
  <2>1. \A q \in Runners : run'[q] \in Run
    BY <1>1, <1>2, <1>4
  <2>2. run' \in [Runners -> Run]
    BY <1>2, <2>1
  <2>3. QED
    BY <1>2, <2>2 DEF Moved
<1>6. QED
  BY <1>3, <1>4, <1>5

(* ...and one after which the hold stays what it is. *)
LEMMA MoveOn ==
    ASSUME TypeOK, NEW r \in Runners, NEW pc \in Steps, NEW consumed \in Nat,
           GoOn(r, pc, consumed)
    PROVE  \E k \in Run :
              /\ Moved(r, k)
              /\ k.pc = pc /\ k.id = run[r].id
              /\ k.copy.state = run[r].copy.state /\ k.copy.ask = run[r].copy.ask
              /\ k.copy.hold = run[r].copy.hold
<1>1. run \in [Runners -> Run]
  BY DEF TypeOK
<1>2. run' \in [Runners -> Run]
  BY <1>1 DEF Run, Row, GoOn
<1>3. /\ run'[r].pc = pc /\ run'[r].id = run[r].id
      /\ run'[r].copy.state = run[r].copy.state /\ run'[r].copy.ask = run[r].copy.ask
      /\ run'[r].copy.hold = run[r].copy.hold
  BY <1>1 DEF Run, Row, GoOn
<1>4. \A q \in Runners \ {r} : run'[q] = run[q]
  BY <1>1 DEF GoOn
<1>5. run'[r] \in Run
  BY <1>2
<1>6. Moved(r, run'[r])
  BY <1>2, <1>4 DEF Moved
<1>7. QED
  BY <1>3, <1>5, <1>6

(* A charge for the entries of a spend: what it may do to the ledger.       *)
LEMMA ChargeKeeps ==
    ASSUME LedgerSound(ledger), NEW ask \in Asks, NEW gross \in Nat, NEW key \in Keys,
           NEW e, e = SpendEntries(ask.caller, ask.callee, gross),
           NEW reply, reply = Post(ledger, "pv_call", key, e), NEW M, M = reply.ledger
    PROVE  /\ LedgerSound(M) /\ Extends(ledger, M)
           /\ Grows(ledger, M, "pv_call", key, e)
           /\ reply.tx \in Nat
           /\ reply.err = "nil" => reply.tx # 0 /\ reply.tx = M.byKey[key]
           /\ reply.err # "nil" => M = ledger
           /\ e[Coins(ask.caller)] = - gross
<1>1. ask.caller \in Users /\ ask.callee \in Users
  BY AskType
<1>2. Spends(e, ask.caller, ask.callee, gross)
  BY <1>1, SpendEntriesAre
<1>3. IsLedger(ledger) /\ IsEntries(e) /\ "pv_call" \in Kinds
  BY <1>2 DEF LedgerSound, Spends, Kinds
<1>4. \A v \in Users : Diamonds(v) \in DOMAIN e => e[Diamonds(v)] >= 0
  BY <1>1, <1>2, SpendTakesNoDiamonds
<1>5. Spent(e)
  BY <1>1 DEF Spent
<1> HIDE DEF LedgerSound
<1>6. M = Post(ledger, "pv_call", key, e).ledger
  OBVIOUS
<1>7. /\ LedgerSound(M) /\ Extends(ledger, M)
      /\ Grows(ledger, M, "pv_call", key, e)
  BY <1>3, <1>4, <1>5, <1>6, PostKeeps
<1>8. /\ reply.tx \in Nat
      /\ reply.err = "nil" => reply.tx # 0 /\ reply.tx = M.byKey[key]
  BY <1>3, PostAnswers
<1>9. reply.err # "nil" => M = ledger
  BY DEF Post, PostLocked, Reply
<1>10. e[Coins(ask.caller)] = - gross
  BY <1>2 DEF Spends
<1>11. QED
  BY <1>7, <1>8, <1>9, <1>10

(* A post changes no other key's transaction. *)
LEMMA OtherKeysStay ==
    ASSUME NEW L, NEW M, NEW kind, NEW key, NEW e, Grows(L, M, kind, key, e)
    PROVE  \A k \in Keys \ {key} : M.byKey[k] = L.byKey[k]
BY DEF Grows, OneMore

(* The charge for the first minute. *)
LEMMA ChargeHoldStep ==
    ASSUME IInv, NEW r \in Runners, ChargeHold(r)
    PROVE  IInv'
<1> DEFINE copy == run[r].copy
           ask == copy.ask
           q == run[r].key
           s == run[r].id
           e == SpendEntries(ask.caller, ask.callee, ask.rate)
           key == ClientKey(q)
           reply == Post(ledger, "pv_call", key, e)
<1>1. /\ TypeOK /\ LedgerSound(ledger) /\ KeysUsed(ledger, uses)
      /\ run[r] \in Run /\ s \in Sessions
      /\ q \in ClientKeys /\ ask \in Asks /\ copy \in Row
  BY RunIs DEF IInv
<1>2. FirstMinute(ask) = [kind |-> "pv_call", entries |-> e]
  BY DEF FirstMinute
<1>3. /\ run[r].pc = "charge" /\ ledger' = reply.ledger
      /\ reply.err = "nil" => /\ run' = [run EXCEPT ![r].pc = "create", ![r].copy.hold = reply.tx,
                                                    ![r].copy.consumed = ask.rate]
                              /\ uses' = [uses EXCEPT ![q] = @ \cup {FirstMinute(ask)}]
      /\ reply.err # "nil" => Return(r) /\ uses' = uses
      /\ named' = named \/ named' = [named EXCEPT ![q] = s]
      /\ UNCHANGED <<session, accepted, lost>>
  BY DEF ChargeHold, ChargeFirstMinute, FirstMinute, At, Uses
<1>4. ask.rate \in Nat /\ key \in Keys
  BY <1>1, AskType, KeysApart
<1>5. named' \in [ClientKeys -> Sessions \cup {NoSession}]
  BY <1>1, <1>3 DEF TypeOK
<1>6. /\ session[s] = Absent /\ copy.state = "requested"
      /\ \A p \in Runners \ {r} : run[p].pc \in Requesting => run[p].id # s
  BY <1>3 DEF IInv, RunSound, Requesting
<1> HIDE DEF copy, ask, q, s, reply, e
<1>7. /\ LedgerSound(ledger') /\ Extends(ledger, ledger')
      /\ Grows(ledger, ledger', "pv_call", key, e)
      /\ reply.tx \in Nat
      /\ reply.err = "nil" => reply.tx # 0 /\ reply.tx = ledger'.byKey[key]
      /\ reply.err # "nil" => ledger' = ledger
  BY <1>1, <1>3, <1>4, ChargeKeeps DEF reply, e
<1>8. /\ uses' = [k \in ClientKeys |-> uses'[k]] /\ Later(uses, uses')
      /\ reply.err = "nil" => FirstMinute(ask) \in uses'[q]
  <2>1. uses = [k \in ClientKeys |-> uses[k]]
    BY <1>1 DEF TypeOK
  <2>2. QED
    BY <1>1, <1>3, <2>1 DEF Later
<1>9. \A k \in ClientKeys : key = ClientKey(k) => k = q
  BY KeysApart
<1> HIDE DEF key
<1>10. ledger' # ledger => \A k \in ClientKeys :
           key = ClientKey(k) => [kind |-> "pv_call", entries |-> e] \in uses'[k]
  BY <1>2, <1>7, <1>8, <1>9
<1>11. KeysUsed(ledger', uses')
  BY <1>1, <1>7, <1>8, <1>10, PostUses
<1>12. Onward
  BY <1>3, <1>7, <1>8, <1>11 DEF Onward
<1>13. ASSUME NEW t \in Sessions
       PROVE  SessionSound(ledger', uses', t, session[t], t \in accepted, t \in lost')
  <2>1. /\ ledger'.byKey[HoldReverseKey(t)] = ledger.byKey[HoldReverseKey(t)]
        /\ ledger'.byKey[SettleKey(t)] = ledger.byKey[SettleKey(t)]
    BY <1>7, OtherKeysStay, KeysApart DEF key
  <2>2. /\ session[t] \in Row /\ IsLedger(ledger) /\ (t \in lost => t \in lost')
        /\ SessionSound(ledger, uses, t, session[t], t \in accepted, t \in lost)
    BY <1>1, <1>3 DEF IInv, TypeOK
  <2>3. QED
    BY <1>7, <1>8, <2>1, <2>2, SessionKept
<1>14. CASE reply.err = "nil"
  <2>1. "create" \in Steps
    BY DEF Steps
  <2>2. PICK g \in Run : /\ Moved(r, g) /\ g.pc = "create" /\ g.id = s
                         /\ g.copy.state = copy.state /\ g.copy.ask = ask
                         /\ g.copy.hold = reply.tx
    <3> DEFINE pc == "create"
               hold == reply.tx
               consumed == ask.rate
    <3>1. TakesHold(r, pc, hold, consumed)
      BY <1>3, <1>14 DEF TakesHold
    <3>2. pc \in Steps /\ hold \in Nat /\ consumed \in Nat /\ TypeOK
      BY <1>1, <1>4, <1>7, <2>1
    <3> HIDE DEF pc, hold, consumed
    <3>3. \E g \in Run : /\ Moved(r, g) /\ g.pc = pc /\ g.id = run[r].id
                         /\ g.copy.state = run[r].copy.state /\ g.copy.ask = run[r].copy.ask
                         /\ g.copy.hold = hold
      BY <3>1, <3>2, MoveWithHold
    <3>4. QED
      BY <3>3 DEF pc, hold, s, ask, copy
  <2>3. IsHold(ledger', uses', reply.tx, ask)
    <3>1. ledger'.byKey[ClientKey(q)] = reply.tx /\ reply.tx # 0
      BY <1>7, <1>14 DEF key
    <3>2. IsSpend(ledger', reply.tx) /\ Use(ledger', reply.tx) \in uses'[q]
      BY <1>1, <1>7, <1>11, <3>1 DEF LedgerSound, KeysUsed
    <3>3. {FirstMinute(ask), Use(ledger', reply.tx)} \subseteq uses'[q]
      BY <1>8, <1>14, <3>2
    <3>4. QED
      BY <1>1, <3>1, <3>2, <3>3 DEF IsHold
  <2>4. RunSound(ledger', uses', session[g.id], g, g.id \in accepted, g.id \in lost')
    BY <1>6, <2>2, <2>3 DEF RunSound, Requesting, Ending
  <2>5. g.pc \in Requesting => \A p \in Runners \ {r} : run[p].pc \in Requesting => run[p].id # g.id
    BY <1>6, <2>2
  <2>6. QED
    BY <1>3, <1>5, <1>12, <1>13, <2>2, <2>4, <2>5, RunStep
<1>15. CASE reply.err # "nil"
  <2>1. Idle \in Run /\ Idle.pc = "idle"
    BY IdleType
  <2>2. Moved(r, Idle)
    BY <1>1, <1>3, <1>15, <2>1 DEF Moved, Return, TypeOK
  <2> HIDE DEF Idle
  <2>3. RunSound(ledger', uses', session[Idle.id], Idle, Idle.id \in accepted, Idle.id \in lost')
    BY <2>1 DEF RunSound, Requesting, Ending
  <2>4. Idle.pc \notin Requesting
    BY <2>1 DEF Requesting
  <2>5. QED
    BY <1>3, <1>5, <1>12, <1>13, <2>1, <2>2, <2>3, <2>4, RunStep
<1>16. QED
  BY <1>14, <1>15

(* A session is stored: under its id the ledger has nothing to return or to *)
(* bill yet.                                                                *)
LEMMA CreateStep ==
    ASSUME IInv, NEW r \in Runners, Create(r)
    PROVE  IInv'
<1> DEFINE s == run[r].id
           copy == run[r].copy
<1>1. /\ run[r].pc = "create" /\ session' = [session EXCEPT ![s] = copy] /\ Return(r)
      /\ UNCHANGED <<ledger, named, accepted, uses, lost>>
  BY DEF Create, At, history
<1>2. s \in Sessions /\ copy \in Row /\ Absent.state = "absent"
  BY RunIs, IdleType DEF IInv
<1>3. /\ session[s] = Absent /\ copy.state = "requested"
      /\ IsHold(ledger, uses, copy.hold, copy.ask)
  BY <1>1 DEF IInv, RunSound, Requesting
<1>4. SessionSound(ledger, uses, s, session[s], s \in accepted, s \in lost)
  BY <1>2 DEF IInv
<1> HIDE DEF s, copy, Absent
<1>5. ledger.byKey[HoldReverseKey(s)] = 0 /\ ledger.byKey[SettleKey(s)] = 0
  BY <1>2, <1>3, <1>4 DEF SessionSound
<1>6. SessionSound(ledger, uses, s, copy, s \in accepted', s \in lost)
  BY <1>1, <1>3, <1>5 DEF SessionSound
<1>7. QED
  BY <1>1, <1>2, <1>3, <1>6, RowStep DEF s, Requesting

-----------------------------------------------------------------------------
(* Answers and endings *)

(* Loading a stored session to accept, decline or end it. *)
LEMMA LoadStep ==
    ASSUME IInv, NEW r \in Runners, NEW s \in Sessions,
           NEW pc \in Steps, NEW state \in {"accepted", "declined", "ended"},
           NEW copy, copy = [session[s] EXCEPT !.state = state],
           session[s].state # "absent", Load(r, s, pc, copy),
           pc \notin Requesting \cup {"idle", "bill"},
           pc = "write" <=> state = "accepted",
           pc = "settle" => session[s].state = "accepted"
    PROVE  IInv'
<1> DEFINE k == [pc |-> pc, id |-> s, key |-> AnyKey, copy |-> copy]
<1>1. session[s] \in Row /\ AnyKey \in ClientKeys
  BY PvAssumption DEF IInv, TypeOK, AnyKey
<1>2. /\ copy \in Row /\ copy.state = state
      /\ copy.ask = session[s].ask /\ copy.hold = session[s].hold
  BY <1>1 DEF Row, States
<1>3. k \in Run /\ k.pc = pc /\ k.id = s /\ k.copy = copy
  BY <1>1, <1>2 DEF Run
<1>4. run' = [run EXCEPT ![r] = k] /\ UNCHANGED <<session, ledger, named, history>>
  BY DEF Load
<1>5. pc = "settle" => s \in accepted
  BY DEF IInv, SessionSound
<1> HIDE DEF k
<1>6. RunSound(ledger, uses, session[k.id], k, k.id \in accepted, k.id \in lost)
  BY <1>2, <1>3, <1>5 DEF RunSound, Requesting, Ending
<1>7. QED
  BY <1>3, <1>4, <1>6, QuietRunStep

(* Each of the three calls is such a load. *)
LEMMA AnswerStep ==
    ASSUME IInv, NEW r \in Runners, NEW s \in Sessions,
           AcceptSession(r, s) \/ DeclineSession(r, s) \/ EndSession(r, s)
    PROVE  IInv'
<1>1. {"write", "decline", "cancel", "settle"} \subseteq Steps
  BY DEF Steps
<1>2. CASE AcceptSession(r, s)
  <2>1. session[s].state = "requested" /\ Load(r, s, "write", [session[s] EXCEPT !.state = "accepted"])
    BY <1>2 DEF AcceptSession
  <2>2. QED
    BY <1>1, <2>1, LoadStep DEF Requesting
<1>3. CASE DeclineSession(r, s)
  <2>1. session[s].state = "requested" /\ Load(r, s, "decline", [session[s] EXCEPT !.state = "declined"])
    BY <1>3 DEF DeclineSession
  <2>2. QED
    BY <1>1, <2>1, LoadStep DEF Requesting
<1>4. CASE /\ session[s].state = "requested"
           /\ Load(r, s, "cancel", [session[s] EXCEPT !.state = "ended"])
  BY <1>1, <1>4, LoadStep DEF Requesting
<1>5. CASE /\ session[s].state = "accepted"
           /\ Load(r, s, "settle", [session[s] EXCEPT !.state = "ended"])
  BY <1>1, <1>5, LoadStep DEF Requesting
<1>6. QED
  BY <1>2, <1>3, <1>4, <1>5 DEF EndSession

(* The reversal of a hold, answered or lost, on the way to bill or to write. *)
LEMMA ReverseHoldStep ==
    ASSUME IInv, NEW r \in Runners, NEW next \in {"write", "bill"}, ReverseHold(r, next),
           run[r].pc \in {"decline", "cancel", "settle"},
           next = "bill" => run[r].pc = "settle"
    PROVE  IInv'
<1> DEFINE copy == run[r].copy
           s == run[r].id
           row == session[s]
           key == HoldReverseKey(s)
           none == 0
<1>1. /\ TypeOK /\ LedgerSound(ledger) /\ KeysUsed(ledger, uses)
      /\ run[r] \in Run /\ s \in Sessions /\ row \in Row /\ row.ask \in Asks
  BY RunIs DEF IInv, Row
<1>2. /\ \/ ledger' = Reverse(ledger, copy.hold, key).ledger
         \/ lost' = lost \cup {s} /\ ledger' = ledger
      /\ lost \subseteq lost'
      /\ GoOn(r, next, none)
      /\ UNCHANGED <<session, named, accepted, uses>>
  BY DEF ReverseHold
<1>3. next \in Steps /\ none \in Nat
  BY DEF Steps
<1>4. /\ row.state # "absent" /\ copy.ask = row.ask /\ copy.hold = row.hold
      /\ copy.state \in {"declined", "ended"}
      /\ next = "bill" => s \in accepted
  BY DEF IInv, RunSound, Requesting, Ending
<1>5. SessionSound(ledger, uses, s, row, s \in accepted, s \in lost) /\ IsLedger(ledger)
  BY <1>1 DEF IInv, LedgerSound
<1> HIDE DEF none, copy, row
<1>6. PICK k \in Run : /\ Moved(r, k) /\ k.pc = next /\ k.id = s
                       /\ k.copy.state = copy.state /\ k.copy.ask = copy.ask
                       /\ k.copy.hold = copy.hold
  <2>1. \E k \in Run :
            /\ Moved(r, k) /\ k.pc = next /\ k.id = run[r].id
            /\ k.copy.state = run[r].copy.state /\ k.copy.ask = run[r].copy.ask
            /\ k.copy.hold = run[r].copy.hold
    BY <1>1, <1>2, <1>3, MoveOn
  <2>2. QED
    BY <2>1 DEF copy
<1> HIDE DEF s
<1>7. /\ IsHold(ledger, uses, row.hold, row.ask) /\ IsSpend(ledger, row.hold)
      /\ ledger.byKey[key] # 0 => row.hold \in DOMAIN ledger.reversalOf
  BY <1>4, <1>5 DEF SessionSound, IsHold
<1>8. /\ LedgerSound(ledger') /\ Extends(ledger, ledger')
      /\ \A x \in Keys \ {key} : ledger'.byKey[x] = ledger.byKey[x]
      /\ ledger'.byKey[key] # ledger.byKey[key] => row.hold \in DOMAIN ledger'.reversalOf
      /\ Released(ledger', row, s \in lost')
  <2>1. CASE ledger' = Reverse(ledger, copy.hold, key).ledger
    <3>1. /\ LedgerSound(ledger') /\ Extends(ledger, ledger')
          /\ Refunds(ledger, ledger', row.hold, key)
      BY <1>1, <1>4, <2>1, RefundKeeps
    <3>2. /\ PaidOut(ledger', row.hold) \/ row.hold \in DOMAIN ledger'.reversalOf
          /\ ledger'.byKey[key] # 0 => row.hold \in DOMAIN ledger'.reversalOf
      BY <1>1, <1>4, <1>7, <2>1, RefundReleases
    <3>3. row.hold \in 1..ledger'.seq
      BY <1>7, <3>1 DEF IsSpend, Extends
    <3>4. /\ \A x \in Keys \ {key} : ledger'.byKey[x] = ledger.byKey[x]
          /\ ledger'.byKey[key] # ledger.byKey[key] => ledger'.byKey[key] # 0
      BY <3>1 DEF Refunds, Refunded
    <3>5. QED
      BY <3>1, <3>2, <3>3, <3>4 DEF Released
  <2>2. CASE lost' = lost \cup {s} /\ ledger' = ledger
    BY <1>1, <1>7, <2>2 DEF Released, IsSpend, LedgerSound, IsLedger, Extends
  <2>3. QED
    BY <1>2, <2>1, <2>2
<1>9. lost \subseteq lost' /\ Later(uses, uses')
  BY <1>2 DEF Later
<1>10. Onward
  <2>1. \A q \in ClientKeys : ledger'.byKey[ClientKey(q)] = ledger.byKey[ClientKey(q)]
    BY <1>8, KeysApart
  <2>2. KeysUsed(ledger', uses')
    BY <1>1, <1>8, <1>9, <2>1, UsesKept
  <2>3. QED
    BY <1>1, <1>2, <1>8, <1>9, <2>2 DEF Onward, TypeOK
<1>11. ASSUME NEW t \in Sessions
       PROVE  SessionSound(ledger', uses', t, session[t], t \in accepted, t \in lost')
  <2>1. /\ ledger'.byKey[SettleKey(t)] = ledger.byKey[SettleKey(t)]
        /\ t # s => ledger'.byKey[HoldReverseKey(t)] = ledger.byKey[HoldReverseKey(t)]
    BY <1>1, <1>8, KeysApart
  <2>2. ledger'.byKey[HoldReverseKey(t)] # ledger.byKey[HoldReverseKey(t)] =>
            session[t].state # "absent" /\ session[t].hold \in DOMAIN ledger'.reversalOf
    BY <1>4, <1>8, <2>1 DEF row
  <2>3. /\ session[t] \in Row /\ (t \in lost => t \in lost')
        /\ SessionSound(ledger, uses, t, session[t], t \in accepted, t \in lost)
    BY <1>1, <1>9 DEF IInv, TypeOK
  <2>4. QED
    BY <1>5, <1>8, <1>9, <2>1, <2>2, <2>3, SessionKept
<1>12. RunSound(ledger', uses', session[k.id], k, k.id \in accepted, k.id \in lost')
  BY <1>4, <1>6, <1>8 DEF RunSound, Requesting, Ending, row
<1>13. k.pc \notin Requesting /\ named' \in [ClientKeys -> Sessions \cup {NoSession}]
  BY <1>1, <1>2, <1>6 DEF Requesting, TypeOK
<1>14. QED
  BY <1>2, <1>6, <1>10, <1>11, <1>12, <1>13, RunStep

(* The charge for the minutes of a call that was taken, made or not. *)
LEMMA BillStep ==
    ASSUME IInv, NEW r \in Runners, NEW minutes \in 1..MaxMinutes, Bill(r, minutes)
    PROVE  IInv'
<1> DEFINE copy == run[r].copy
           s == run[r].id
           row == session[s]
           ask == copy.ask
           cost == minutes * ask.rate
           key == SettleKey(s)
           e == SpendEntries(ask.caller, ask.callee, cost)
           reply == Post(ledger, "pv_call", key, e)
           M == reply.ledger
           pc == "write"
<1>1. /\ TypeOK /\ LedgerSound(ledger) /\ KeysUsed(ledger, uses)
      /\ run[r] \in Run /\ s \in Sessions /\ row \in Row /\ ask \in Asks
  BY RunIs DEF IInv
<1>2. cost \in Nat
  <2>1. ask.rate \in Nat /\ minutes \in Nat
    BY <1>1, AskType, PvAssumption
  <2>2. QED
    BY <2>1
<1>3. /\ run[r].pc = "bill" /\ ledger' \in {ledger, M}
      /\ \E consumed \in {cost, 0} : GoOn(r, pc, consumed)
      /\ UNCHANGED <<session, named, accepted, uses, lost>>
  <2>1. /\ run[r].pc = "bill"
        /\ \/ ledger' = M /\ GoOn(r, pc, IF reply.err = "nil" THEN cost ELSE 0)
           \/ ledger' \in {ledger, M} /\ GoOn(r, pc, 0)
        /\ UNCHANGED <<session, named, history>>
    BY DEF Bill, ChargeMinutes, At
  <2> HIDE DEF M, cost, reply, pc
  <2>2. UNCHANGED <<session, named, accepted, uses, lost>>
    BY <2>1 DEF history
  <2>3. QED
    BY <2>1, <2>2
<1>4. /\ row.state # "absent" /\ copy.ask = row.ask /\ copy.hold = row.hold
      /\ copy.state \in {"declined", "ended"} /\ s \in accepted
      /\ Released(ledger, row, s \in lost)
  BY <1>3 DEF IInv, RunSound, Requesting, Ending
<1>5. key \in Keys /\ \A q : key # ClientKey(q)
  BY <1>1, KeysApart
<1>6. pc \in Steps
  BY DEF Steps
<1>7. ASSUME ledger'.byID[ledger'.byKey[key]].entries = e, e[Coins(ask.caller)] = - cost
      PROVE  IsBill(ledger', ledger'.byKey[key], ask)
  BY <1>7 DEF IsBill
<1> HIDE DEF cost, pc
<1>8. PICK g \in Run : /\ Moved(r, g) /\ g.pc = pc /\ g.id = s
                       /\ g.copy.state = copy.state /\ g.copy.ask = ask
                       /\ g.copy.hold = copy.hold
  <2>1. PICK consumed \in Nat : GoOn(r, pc, consumed)
    BY <1>2, <1>3
  <2>2. QED
    BY <1>1, <1>6, <2>1, MoveOn
<1> HIDE DEF copy, s, row, ask, e, reply, M
<1>9. /\ LedgerSound(M) /\ Extends(ledger, M)
      /\ Grows(ledger, M, "pv_call", key, e)
      /\ e[Coins(ask.caller)] = - cost
  BY <1>1, <1>2, <1>5, ChargeKeeps DEF e, reply, M
<1>10. /\ LedgerSound(ledger') /\ Extends(ledger, ledger')
       /\ Grows(ledger, ledger', "pv_call", key, e)
  <2>1. Extends(ledger, ledger) /\ Grows(ledger, ledger, "pv_call", key, e)
    BY <1>1 DEF LedgerSound, IsLedger, Extends, Grows
  <2>2. QED
    BY <1>1, <1>3, <1>9, <2>1
<1>11. ledger'.byKey[key] # ledger.byKey[key] => IsBill(ledger', ledger'.byKey[key], ask)
  <2>1. ledger'.byKey[key] # ledger.byKey[key] => ledger'.byID[ledger'.byKey[key]].entries = e
    BY <1>10 DEF Grows, OneMore
  <2>2. QED
    BY <1>7, <1>9, <2>1
<1>12. Later(uses, uses') /\ lost \subseteq lost'
  BY <1>3 DEF Later
<1>13. Released(ledger', row, s \in lost')
  BY <1>4, <1>10, <1>12, ReleasedKept
<1>14. Onward
  <2>1. KeysUsed(ledger', uses')
    BY <1>1, <1>5, <1>10, <1>12, PostUses
  <2>2. QED
    BY <1>1, <1>3, <1>10, <1>12, <2>1 DEF Onward, TypeOK
<1>15. ASSUME NEW t \in Sessions
       PROVE  SessionSound(ledger', uses', t, session[t], t \in accepted, t \in lost')
  <2>1. /\ ledger'.byKey[HoldReverseKey(t)] = ledger.byKey[HoldReverseKey(t)]
        /\ t # s => ledger'.byKey[SettleKey(t)] = ledger.byKey[SettleKey(t)]
    BY <1>1, <1>10, OtherKeysStay, KeysApart
  <2>2. ledger'.byKey[SettleKey(t)] # ledger.byKey[SettleKey(t)] =>
            /\ session[t].state # "absent" /\ t \in accepted
            /\ Released(ledger', session[t], t \in lost')
            /\ IsBill(ledger', ledger'.byKey[SettleKey(t)], session[t].ask)
    <3>1. CASE t = s
      BY <1>4, <1>11, <1>13, <3>1 DEF row, ask
    <3>2. QED
      BY <2>1, <3>1
  <2>3. /\ session[t] \in Row /\ (t \in lost => t \in lost') /\ IsLedger(ledger)
        /\ SessionSound(ledger, uses, t, session[t], t \in accepted, t \in lost)
    BY <1>1, <1>12 DEF IInv, TypeOK
  <2>4. QED
    BY <1>10, <1>12, <2>1, <2>2, <2>3, SessionKept
<1>16. RunSound(ledger', uses', session[g.id], g, g.id \in accepted, g.id \in lost')
  BY <1>4, <1>8, <1>13 DEF RunSound, Requesting, Ending, row, ask, pc
<1>17. g.pc \notin Requesting /\ named' \in [ClientKeys -> Sessions \cup {NoSession}]
  BY <1>1, <1>3, <1>8 DEF Requesting, TypeOK, pc
<1>18. QED
  BY <1>3, <1>8, <1>14, <1>15, <1>16, <1>17, RunStep

(* The write of an answered or ended session. *)
LEMMA UpdateStep ==
    ASSUME IInv, NEW r \in Runners, Update(r)
    PROVE  IInv'
<1> DEFINE s == run[r].id
           copy == run[r].copy
           row == session[s]
<1>1. /\ run[r].pc = "write" /\ session' = [session EXCEPT ![s] = copy] /\ Return(r)
      /\ accepted' = IF copy.state = "accepted" THEN accepted \cup {s} ELSE accepted
      /\ UNCHANGED <<ledger, named, uses, lost>>
  BY DEF Update, At
<1>2. s \in Sessions /\ copy \in Row
  BY RunIs DEF IInv
<1>3. /\ row.state # "absent" /\ copy.ask = row.ask /\ copy.hold = row.hold
      /\ copy.state \in {"accepted", "declined", "ended"}
      /\ copy.state # "accepted" => Released(ledger, row, s \in lost)
  BY <1>1 DEF IInv, RunSound, Requesting
<1>4. SessionSound(ledger, uses, s, row, s \in accepted, s \in lost)
  BY <1>2 DEF IInv
<1>5. (copy.state = "accepted" => s \in accepted') /\ (s \in accepted => s \in accepted')
  BY <1>1
<1> HIDE DEF s, copy, row
<1>6. Released(ledger, row, s \in lost) => Released(ledger, copy, s \in lost)
  BY <1>3 DEF Released
<1>7. SessionSound(ledger, uses, s, copy, s \in accepted', s \in lost)
  BY <1>3, <1>4, <1>5, <1>6 DEF SessionSound
<1>8. accepted \subseteq accepted' /\ accepted' \subseteq accepted \cup {s}
  BY <1>1
<1>9. QED
  BY <1>1, <1>2, <1>3, <1>7, <1>8, RowStep DEF s, row

-----------------------------------------------------------------------------
(* Money that moves meanwhile *)

(* A move that takes no diamonds, or that is a payout, disturbs no call.    *)
LEMMA MoveStep ==
    ASSUME IInv, NEW kind \in Kinds, kind # "reversal", NEW key \in Keys, NEW e, IsEntries(e),
           Move(kind, key, e),
           \A v \in Users : Diamonds(v) \in DOMAIN e =>
               e[Diamonds(v)] >= 0 \/ key = CashOutKey(v),
           uses' = [k \in ClientKeys |-> uses'[k]], Later(uses, uses'),
           \A k \in ClientKeys : key = ClientKey(k) =>
               Spent(e) /\ [kind |-> kind, entries |-> e] \in uses'[k],
           \A s : key # HoldReverseKey(s) /\ key # SettleKey(s)
    PROVE  IInv'
<1>1. TypeOK /\ LedgerSound(ledger) /\ IsLedger(ledger) /\ KeysUsed(ledger, uses)
  BY DEF IInv, TypeOK
<1>2. /\ ledger' = Post(ledger, kind, key, e).ledger
      /\ UNCHANGED <<session, run, named, accepted, lost>>
  BY DEF Move
<1>3. /\ LedgerSound(ledger') /\ Extends(ledger, ledger') /\ Grows(ledger, ledger', kind, key, e)
  BY <1>1, <1>2, PostKeeps
<1>4. KeysUsed(ledger', uses')
  BY <1>1, <1>3, PostUses
<1>5. Onward
  BY <1>2, <1>3, <1>4 DEF Onward
<1>6. ASSUME NEW t \in Sessions
      PROVE  SessionSound(ledger', uses', t, session[t], t \in accepted, t \in lost')
  <2>1. /\ ledger'.byKey[HoldReverseKey(t)] = ledger.byKey[HoldReverseKey(t)]
        /\ ledger'.byKey[SettleKey(t)] = ledger.byKey[SettleKey(t)]
    BY <1>3, OtherKeysStay, KeysApart
  <2>2. /\ session[t] \in Row /\ (t \in lost => t \in lost')
        /\ SessionSound(ledger, uses, t, session[t], t \in accepted, t \in lost)
    BY <1>1, <1>2 DEF IInv, TypeOK
  <2>3. QED
    BY <1>1, <1>3, <2>1, <2>2, SessionKept
<1>7. 1 \in Runners
  BY PvAssumption DEF Runners
<1> DEFINE k == run[1]
<1>8. k \in Run /\ Moved(1, k) /\ lost \subseteq lost'
  BY <1>1, <1>2, <1>7, RunIs DEF Moved
<1>9. RunSound(ledger, uses, session[k.id], k, k.id \in accepted, k.id \in lost)
  BY <1>7 DEF IInv
<1>10. k.pc \in Requesting =>
          \A q \in Runners \ {1} : run[q].pc \in Requesting => run[q].id # k.id
  BY <1>7 DEF IInv
<1> HIDE DEF k
<1>11. RunSound(ledger', uses', session[k.id], k, k.id \in accepted, k.id \in lost')
  BY <1>3, <1>8, <1>9, RunKept
<1>12. named' \in [ClientKeys -> Sessions \cup {NoSession}]
  BY <1>1, <1>2 DEF TypeOK
<1>13. QED
  BY <1>2, <1>5, <1>6, <1>7, <1>8, <1>10, <1>11, <1>12, RunStep

(* A client's gift under one of its keys. *)
LEMMA GiftStep ==
    ASSUME IInv, NEW u \in Users, NEW k \in ClientKeys, SpendElsewhere(u, k)
    PROVE  IInv'
<1> DEFINE v == CHOOSE v \in Users : v # u
           coins == ledger.balances[Coins(u)]
           e == SpendEntries(u, v, coins)
           use == [kind |-> "gift", entries |-> e]
           key == ClientKey(k)
<1>1. IsLedger(ledger) /\ uses = [q \in ClientKeys |-> uses[q]] /\ Coins(u) \in Accounts
  BY DEF IInv, TypeOK, Accounts, Wallets
<1>2. "gift" \in Kinds /\ "gift" # "reversal"
  BY DEF Kinds
<1>3. v \in Users
  <2>1. PICK ask \in Asks : TRUE
    BY PvAssumption
  <2>2. \E w \in Users : w # u
    BY <2>1, AskType
  <2>3. QED
    BY <2>2
<1>4. coins \in Nat /\ Move("gift", key, e) /\ uses' = [uses EXCEPT ![k] = @ \cup {use}]
  BY <1>1 DEF SpendElsewhere, Uses, IsLedger
<1>5. /\ key \in Keys /\ \A q \in ClientKeys : key = ClientKey(q) => q = k
      /\ \A s : key # HoldReverseKey(s) /\ key # SettleKey(s)
  BY KeysApart
<1> HIDE DEF v, coins, key
<1>6. Spends(e, u, v, coins) /\ Spent(e)
  BY <1>3, <1>4, SpendEntriesAre DEF Spent
<1>7. \A w \in Users : Diamonds(w) \in DOMAIN e => e[Diamonds(w)] >= 0
  BY <1>3, <1>4, <1>6, SpendTakesNoDiamonds
<1>8. IsEntries(e)
  BY <1>6 DEF Spends
<1> HIDE DEF e
<1>9. /\ uses' = [q \in ClientKeys |-> uses'[q]] /\ Later(uses, uses') /\ use \in uses'[k]
  BY <1>1, <1>4 DEF Later
<1>10. \A q \in ClientKeys : key = ClientKey(q) =>
           Spent(e) /\ [kind |-> "gift", entries |-> e] \in uses'[q]
  BY <1>5, <1>6, <1>9
<1> HIDE DEF use
<1>11. QED
  BY <1>2, <1>4, <1>5, <1>7, <1>8, <1>9, <1>10, MoveStep

(* A callee's payout. *)
LEMMA CashOutStep ==
    ASSUME IInv, NEW u \in Users, CashOut(u)
    PROVE  IInv'
<1> DEFINE d == ledger.balances[Diamonds(u)]
           e == PayoutEntries(u, d)
<1>1. /\ IsLedger(ledger) /\ Diamonds(u) \in Accounts
      /\ uses = [q \in ClientKeys |-> uses[q]]
  BY DEF IInv, TypeOK, Accounts, Wallets
<1>2. "payout" \in Kinds /\ "payout" # "reversal"
  BY DEF Kinds
<1>3. /\ CashOutKey(u) \in Keys /\ \A k : CashOutKey(u) # ClientKey(k)
      /\ \A s : CashOutKey(u) # HoldReverseKey(s) /\ CashOutKey(u) # SettleKey(s)
  BY KeysApart
<1>4. d \in Nat /\ Move("payout", CashOutKey(u), e) /\ uses' = uses
  BY <1>1 DEF CashOut, IsLedger
<1> HIDE DEF d
<1>5. Withdraws(e, u, d)
  BY <1>4, PayoutEntriesAre
<1>6. IsEntries(e) /\ \A w \in Users : Diamonds(w) \in DOMAIN e => w = u
  BY <1>5 DEF Withdraws
<1> HIDE DEF e
<1>7. uses' = [k \in ClientKeys |-> uses'[k]] /\ Later(uses, uses')
  BY <1>1, <1>4 DEF Later
<1>8. QED
  BY <1>2, <1>3, <1>4, <1>6, <1>7, MoveStep

-----------------------------------------------------------------------------
(* The theorems *)

(* Nothing has happened but a caller's opening credit. *)
LEMMA InitSound == Init => IInv
<1> SUFFICES ASSUME Init
             PROVE  IInv
  OBVIOUS
<1>1. PICK ask \in Asks : ledger = Opened(NewMemLedger, ask.caller)
  BY DEF Init
<1> DEFINE u == ask.caller
           e == CreditEntries(u, Opening)
           key == OpeningKey(u)
           L == NewMemLedger
<1>2. u \in Users /\ Opening \in Int /\ key \in Keys /\ "promo" \in Kinds /\ "promo" # "reversal"
  BY AskType, PvAssumption, KeysApart DEF Kinds
<1>3. Credits(e, u, Opening) /\ \A v \in Users : Diamonds(v) \notin DOMAIN e
  <2>1. Credits(e, u, Opening)
    BY <1>2, CreditEntriesAre
  <2>2. DOMAIN e = {Coins(u), Liability}
    BY DEF CreditEntries
  <2>3. QED
    BY <2>1, <2>2, AccountsApart DEF PlatformAccounts
<1>4. /\ Sound(L) /\ L.seq = 0
      /\ \A k \in Keys : L.byKey[k] = 0 /\ \A a \in Accounts : L.balances[a] = 0
  BY NewLedgerSound DEF NewMemLedger
<1>5. LedgerSound(L)
  <2>1. ASSUME NEW v \in Users
        PROVE  DiamondsStand(L, v)
    <3>1. Standing(L) = {} /\ L.balances[Diamonds(v)] = 0
      BY <1>2, <1>4 DEF Standing, Accounts, Wallets
    <3> HIDE DEF L
    <3>2. QED
      BY <3>1, SumEmpty DEF DiamondsStand
  <2>2. \A k \in ClientKeys : L.byKey[ClientKey(k)] = 0
    BY <1>4, KeysApart
  <2> HIDE DEF L
  <2>3. QED
    BY <1>4, <2>1, <2>2 DEF LedgerSound, Sound
<1>6. ledger = Post(L, "promo", key, e).ledger
  BY <1>1 DEF Opened
<1> HIDE DEF L, e
<1>7. IsEntries(e) /\ \A k : key # ClientKey(k)
  BY <1>3, KeysApart DEF Credits
<1> HIDE DEF key
<1>8. LedgerSound(ledger) /\ Grows(L, ledger, "promo", key, e)
  BY <1>2, <1>3, <1>5, <1>6, <1>7, PostKeeps
<1>9. /\ \A s \in Sessions : ledger.byKey[HoldReverseKey(s)] = 0 /\ ledger.byKey[SettleKey(s)] = 0
      /\ KeysUsed(ledger, uses)
  <2>1. \A k \in Keys \ {key} : ledger.byKey[k] = 0
    BY <1>4, <1>8, OtherKeysStay
  <2>2. /\ \A s \in Sessions : HoldReverseKey(s) \in Keys \ {key} /\ SettleKey(s) \in Keys \ {key}
        /\ \A k \in ClientKeys : ClientKey(k) \in Keys \ {key}
    BY KeysApart DEF key
  <2>3. QED
    BY <2>1, <2>2 DEF KeysUsed
<1>10. /\ Absent \in Row /\ Absent.state = "absent" /\ Idle \in Run /\ Idle.pc = "idle"
  BY IdleType
<1>11. /\ session = [s \in Sessions |-> Absent] /\ run = [r \in Runners |-> Idle]
       /\ named = [k \in ClientKeys |-> NoSession] /\ accepted = {}
       /\ uses = [k \in ClientKeys |-> {}]
  BY DEF Init
<1> HIDE DEF Absent, Idle
<1>12. TypeOK
  BY <1>8, <1>10, <1>11 DEF TypeOK, LedgerSound
<1>13. \A s \in Sessions :
           SessionSound(ledger, uses, s, session[s], s \in accepted, s \in lost)
  BY <1>9, <1>10, <1>11 DEF SessionSound
<1>14. \A r \in Runners :
           RunSound(ledger, uses, session[run[r].id], run[r], run[r].id \in accepted,
                    run[r].id \in lost)
  BY <1>10, <1>11 DEF RunSound, Requesting, Ending
<1>15. \A r \in Runners : run[r].pc \notin Requesting
  BY <1>10, <1>11 DEF Requesting
<1>16. QED
  BY <1>8, <1>9, <1>12, <1>13, <1>14, <1>15 DEF IInv

(* Every step, one case per action. *)
LEMMA NextSound == IInv /\ [Next]_vars => IInv'
<1> SUFFICES ASSUME IInv, [Next]_vars
             PROVE  IInv'
  OBVIOUS
<1>1. ASSUME NEW r \in Runners, NEW k \in ClientKeys, NEW ask \in Asks, NEW s \in Sessions,
             RequestSession(r, k, ask, s)
      PROVE  IInv'
  BY <1>1, RequestStep
<1>2. ASSUME NEW r \in Runners, NEW s \in Sessions,
             AcceptSession(r, s) \/ DeclineSession(r, s) \/ EndSession(r, s)
      PROVE  IInv'
  BY <1>2, AnswerStep
<1>3. ASSUME NEW r \in Runners, Refuse(r) \/ Abandon(r)
      PROVE  IInv'
  BY <1>3, ReturnStep DEF Refuse, Abandon
<1>4. ASSUME NEW r \in Runners, ChargeHold(r)
      PROVE  IInv'
  BY <1>4, ChargeHoldStep
<1>5. ASSUME NEW r \in Runners, Create(r)
      PROVE  IInv'
  BY <1>5, CreateStep
<1>6. ASSUME NEW r \in Runners, RefundHold(r)
      PROVE  IInv'
  BY <1>6, ReverseHoldStep DEF RefundHold, At
<1>7. ASSUME NEW r \in Runners, ReleaseHold(r)
      PROVE  IInv'
  BY <1>7, ReverseHoldStep DEF ReleaseHold, At
<1>8. ASSUME NEW r \in Runners, NEW minutes \in 1..MaxMinutes, Bill(r, minutes)
      PROVE  IInv'
  BY <1>8, BillStep
<1>9. ASSUME NEW r \in Runners, Update(r)
      PROVE  IInv'
  BY <1>9, UpdateStep
<1>10. ASSUME NEW u \in Users, NEW k \in ClientKeys, SpendElsewhere(u, k)
       PROVE  IInv'
  BY <1>10, GiftStep
<1>11. ASSUME NEW u \in Users, CashOut(u)
       PROVE  IInv'
  BY <1>11, CashOutStep
<1>12. CASE UNCHANGED vars
  BY <1>12 DEF vars, history, IInv, TypeOK
<1>13. QED
  BY <1>1, <1>2, <1>3, <1>4, <1>5, <1>6, <1>7, <1>8, <1>9, <1>10, <1>11, <1>12
  DEF Next, Step

(* The diamonds of everyone who was not paid out are those of the spends    *)
(* that stand, and every session, run and key agrees with the ledger and    *)
(* with what clients used their keys for about the hold and the bill.       *)
THEOREM Invariant == Spec => []IInv
BY InitSound, NextSound, PTL DEF Spec

(* "Reserve before ring": RequestSession stores a session, which is what    *)
(* rings, only with a transaction under its request's key, of a kind and    *)
(* for an amount the client has used that key for; this call's first minute *)
(* is among those uses, and where it is the only one it is the hold.        *)
THEOREM CallsAreHeldBeforeTheyRing == Spec => []HeldBeforeRing
<1>1. IInv => HeldBeforeRing
  <2> SUFFICES ASSUME IInv, NEW s \in Sessions, session[s].state # "absent"
               PROVE  \E k \in ClientKeys :
                         /\ Hold(s) # 0 /\ Hold(s) = ledger.byKey[ClientKey(k)]
                         /\ {FirstMinute(session[s].ask), Use(ledger, Hold(s))} \subseteq uses[k]
    BY DEF HeldBeforeRing
  <2>1. IsHold(ledger, uses, session[s].hold, session[s].ask)
    BY DEF IInv, SessionSound
  <2>2. session[s].hold # 0
    BY <2>1 DEF IsHold, IsSpend
  <2>3. QED
    BY <2>1, <2>2 DEF IsHold, Hold
<1>2. QED
  BY <1>1, Invariant, PTL

(* "The hold was only ever a gate, not the real bill": a session is over or *)
(* billed with its hold in place only where reverseHold dropped an error:   *)
(* the call failed before the ledger answered, or it refused, and that it   *)
(* does for nothing but a payout to someone the hold paid.                  *)
THEOREM HoldsAreReleasedFirst == Spec => []HoldReleasedFirst
<1>1. IInv => HoldReleasedFirst
  BY DEF IInv, SessionSound, Released, HoldReleasedFirst, Hold, Billed, Reversed
<1>2. QED
  BY <1>1, Invariant, PTL

(* EndSession bills only a session that was accepted, at its own rate and   *)
(* under its own key, however many runs end it.                             *)
THEOREM OnlyTakenCallsArePaid == Spec => []OnlyTakenCallsAreBilled
<1>1. IInv => OnlyTakenCallsAreBilled
  BY DEF IInv, SessionSound, IsBill, OnlyTakenCallsAreBilled, Billed
<1>2. QED
  BY <1>1, Invariant, PTL
=============================================================================
