---------------------------- MODULE PayoutsProofs ----------------------------
(***************************************************************************)
(* Proofs about Payouts for any creators, requests, admins, amounts and    *)
(* bounds: withdrawals wait for the hold period, a payout's diamonds come  *)
(* back exactly when it ends up rejected or failed, and stored payouts     *)
(* only move along the state machine.                                      *)
(***************************************************************************)
EXTENDS Payouts, LedgerOpsProofs, SequenceTheorems

-----------------------------------------------------------------------------
(* The inductive invariant *)

Req == [pc : {"idle", "balance", "inflight", "post", "create"},
        key : PayoutKeys \cup {NoKey}, available : Int, tx : Nat]

Admin == [pc : {"idle", "approved", "processing", "paid"}, id : Nat]

Reviews == {"rejected", "failed"}

TypeOK ==
    /\ IsLedger(ledger) /\ aged \in Nat
    /\ payouts \in Seq(Payout) /\ Len(payouts) <= MaxPayouts
    /\ locked \in [1..MaxPayouts -> {"none"} \cup Reviews]
    /\ req \in [Requests -> Req]
    /\ admin \in [Admins -> Admin]

(* What a request knows of the earnings stays true: they only grow. *)
ReqSound(L, last, k) ==
    /\ k.pc # "idle" => k.key \in PayoutKeys
    /\ k.pc \in {"balance", "inflight"} =>
           k.available <= EarnedUpTo(L, Ask[k.key].account, last)
    /\ k.pc = "post" => Ask[k.key].amount <= EarnedUpTo(L, Ask[k.key].account, last)

(* A payout t with id p, its reversal and its lock l. *)
ReversalSound(L, t, l, p, isCut) ==
    LET tx == L.byKey[ReversalKey(p)] IN
    /\ tx # 0 => L.byID[tx].entries = ReversalEntries(t.account, t.amount)
    /\ t.status \in Reviews => tx # 0 /\ t.reversal = tx
    /\ tx # 0 /\ l = "none" /\ ~ isCut => t.status \in Reviews
    /\ l # "none" => tx # 0 /\ t.status \in From(l)

IInv ==
    /\ TypeOK
    /\ Solvent(ledger)
    /\ \A r \in Requests : ReqSound(ledger, aged, req[r])
    /\ \A a \in Admins : admin[a].pc # "idle" => admin[a].id \in Ids
    /\ \A p \in Ids : ReversalSound(ledger, payouts[p], locked[p], p, p \in cut)
    /\ \A p \in (1..MaxPayouts) \ Ids :
           ledger.byKey[ReversalKey(p)] = 0 /\ locked[p] = "none"
    /\ NoneBeforeTheHold

-----------------------------------------------------------------------------
(* The entries that are posted *)

(* What gives them back is balanced, and any solvent ledger can post it. *)
LEMMA ReversalEntriesAre ==
    ASSUME NEW u \in Users, NEW d \in Nat, NEW e, e = ReversalEntries(u, d),
           NEW L, IsLedger(L), Solvent(L)
    PROVE  IsEntries(e) /\ DOMAIN e # {} /\ Balanced(e) /\ Covered(L, e)
<1> DEFINE w == PayoutEntries(u, d)
           x == Diamonds(u)
           y == DiamondLiability
<1>1. Withdraws(w, u, d)
  BY PayoutEntriesAre
<1>2. e = Negated(w)
  BY DEF ReversalEntries
<1> HIDE DEF w
<1>3. IsEntries(e)
  BY <1>1, <1>2, NegatedType DEF Withdraws
<1>4. DOMAIN e = {x, y} /\ e[x] = d /\ e[y] = - d /\ x # y
  BY <1>1, <1>2, DiamondsApart DEF Withdraws, Negated
<1>5. SumOver(e, CoinAccounts) = 0
  <2>1. DOMAIN e \cap CoinAccounts = {}
    BY <1>4, DiamondsApart
  <2>2. QED
    BY <2>1, SumEmpty DEF SumOver
<1>6. SumOver(e, DiamondAccounts) = 0
  <2>1. DOMAIN e \cap DiamondAccounts = {x, y}
    BY <1>4, DiamondsApart
  <2>2. e[x] \in Int /\ e[y] \in Int /\ e[x] + e[y] = 0
    BY <1>4
  <2> HIDE DEF x, y
  <2>3. SumFunctionOnSet(e, {x, y}) = e[x] + e[y]
    BY <1>4, <2>2, SumOfTwo
  <2>4. QED
    BY <2>1, <2>2, <2>3 DEF SumOver
<1>7. Covered(L, e)
  <2>1. x \in Wallets /\ x \in Accounts
    BY DEF Wallets, Accounts
  <2>2. L.balances[x] \in Int /\ L.balances[x] >= 0
    BY <2>1 DEF Solvent, IsLedger
  <2>3. \A a \in DOMAIN e \ PlatformAccounts : a = x
    BY <1>4, DiamondsApart
  <2>4. L.balances[x] + e[x] >= 0
    BY <1>4, <2>2
  <2> HIDE DEF x, y
  <2>5. QED
    BY <2>3, <2>4 DEF Covered
<1>8. QED
  BY <1>3, <1>4, <1>5, <1>6, <1>7 DEF Balanced

-----------------------------------------------------------------------------
(* Earnings only grow *)

EarnedIn(h, last) ==
    [i \in DOMAIN h |-> IF h[i].amount > 0 /\ h[i].tx <= last THEN h[i].amount ELSE 0]

(* A longer history, read up to a later transaction, has earned no less. *)
LEMMA EarnedInGrows ==
    ASSUME NEW g \in Seq(HistoryItem), NEW h \in Seq(HistoryItem),
           Len(g) <= Len(h), \A i \in 1..Len(g) : h[i] = g[i],
           NEW from \in Nat, NEW to \in Nat, from <= to
    PROVE  /\ SumFunction(EarnedIn(g, from)) \in Int
           /\ SumFunction(EarnedIn(h, to)) \in Int
           /\ SumFunction(EarnedIn(g, from)) <= SumFunction(EarnedIn(h, to))
<1> DEFINE G == EarnedIn(g, from)
           H == EarnedIn(h, to)
           m == Len(g)
           n == Len(h)
<1>1. m \in Nat /\ n \in Nat /\ 1..m \subseteq 1..n
  OBVIOUS
<1>2. \A i \in 1..m : g[i] \in HistoryItem
  OBVIOUS
<1>3. \A i \in 1..n : h[i] \in HistoryItem
  OBVIOUS
<1>4. DOMAIN G = 1..m /\ DOMAIN H = 1..n
  BY DEF EarnedIn
<1>5. \A i \in 1..m : G[i] = IF g[i].amount > 0 /\ g[i].tx <= from THEN g[i].amount ELSE 0
  BY DEF EarnedIn
<1>6. \A i \in 1..n : H[i] = IF h[i].amount > 0 /\ h[i].tx <= to THEN h[i].amount ELSE 0
  BY DEF EarnedIn
<1> HIDE DEF G, H
<1>7. \A i \in 1..m : G[i] \in Int /\ G[i] >= 0
  <2> HIDE DEF m
  <2>1. \A i \in 1..m : g[i].amount \in Int
    BY <1>2 DEF HistoryItem
  <2>2. QED
    BY <1>5, <2>1
<1>8. \A i \in 1..n : H[i] \in Int /\ H[i] >= 0
  <2> HIDE DEF n
  <2>1. \A i \in 1..n : h[i].amount \in Int
    BY <1>3 DEF HistoryItem
  <2>2. QED
    BY <1>6, <2>1
<1>9. \A i \in 1..m : G[i] <= H[i]
  <2> SUFFICES ASSUME NEW i \in 1..m
               PROVE  G[i] <= H[i]
    OBVIOUS
  <2>1. h[i] = g[i] /\ i \in 1..n /\ g[i].amount \in Int /\ g[i].tx \in Nat
    BY <1>1, <1>2 DEF HistoryItem
  <2>2. G[i] = IF g[i].amount > 0 /\ g[i].tx <= from THEN g[i].amount ELSE 0
    BY <1>5
  <2>3. H[i] = IF g[i].amount > 0 /\ g[i].tx <= to THEN g[i].amount ELSE 0
    BY <1>6, <2>1
  <2>4. QED
    BY <2>1, <2>2, <2>3
<1> HIDE DEF m, n
<1>10. IsFiniteSet(1..m) /\ IsFiniteSet(1..n)
  BY <1>1, FS_Interval
<1>11. SumFunctionOnSet(G, 1..m) <= SumFunctionOnSet(H, 1..m)
  <2>1. \A i \in 1..m : G[i] \in Int /\ H[i] \in Int /\ G[i] <= H[i]
    BY <1>1, <1>7, <1>8, <1>9
  <2>2. QED
    BY <1>10, <2>1, SumMonotone
<1>12. SumFunctionOnSet(H, 1..m) <= SumFunctionOnSet(H, 1..n)
  BY <1>1, <1>8, <1>10, SumGrows
<1>13. /\ SumFunctionOnSet(G, 1..m) \in Int /\ SumFunctionOnSet(H, 1..m) \in Int
       /\ SumFunctionOnSet(H, 1..n) \in Int
  <2>1. \A i \in 1..m : H[i] \in Int
    BY <1>1, <1>8
  <2>2. SumFunctionOnSet(H, 1..m) \in Int
    BY <1>10, <2>1, SumIsInt
  <2>3. QED
    BY <1>7, <1>8, <1>10, <2>2, SumIsInt
<1>14. SumFunction(G) = SumFunctionOnSet(G, 1..m) /\ SumFunction(H) = SumFunctionOnSet(H, 1..n)
  BY <1>4 DEF SumFunction
<1>15. QED
  BY <1>11, <1>12, <1>13, <1>14 DEF G, H

(* A post and the passing of time never take earnings away. *)
LEMMA EarnedGrows ==
    ASSUME NEW L, IsLedger(L), NEW M, IsLedger(M), NEW kind, NEW key, NEW e, Grows(L, M, kind, key, e),
           NEW u \in Creators, NEW from \in Nat, NEW to \in Nat, from <= to
    PROVE  /\ EarnedUpTo(L, u, from) \in Int /\ EarnedUpTo(M, u, to) \in Int
           /\ EarnedUpTo(L, u, from) <= EarnedUpTo(M, u, to)
<1> DEFINE a == Diamonds(u)
           g == L.byAcct[a]
           h == M.byAcct[a]
<1>1. a \in Accounts
  BY PayoutsAssumption DEF Accounts, Wallets
<1>2. g \in Seq(HistoryItem) /\ h \in Seq(HistoryItem)
  BY <1>1 DEF IsLedger
<1>3. h = g \/ \E item : h = Append(g, item)
  BY <1>1 DEF Grows, OneMore
<1> HIDE DEF g, h, a
<1>4. Len(g) <= Len(h) /\ \A i \in 1..Len(g) : h[i] = g[i]
  <2>1. CASE h = g
    BY <1>2, <2>1
  <2>2. ASSUME NEW item, h = Append(g, item)
        PROVE  Len(g) <= Len(h) /\ \A i \in 1..Len(g) : h[i] = g[i]
    <3>1. Len(g) \in Nat /\ Len(h) = Len(g) + 1
      BY <1>2, <2>2, AppendProperties
    <3>2. \A i \in 1..Len(g) : h[i] = g[i]
      BY <1>2, <2>2, AppendProperties
    <3>3. QED
      BY <3>1, <3>2
  <2>3. QED
    BY <1>3, <2>1, <2>2
<1>5. /\ EarnedUpTo(L, u, from) = SumFunction(EarnedIn(g, from))
      /\ EarnedUpTo(M, u, to) = SumFunction(EarnedIn(h, to))
  BY DEF EarnedUpTo, EarnedIn, g, h, a
<1>6. QED
  BY <1>2, <1>4, <1>5, EarnedInGrows

-----------------------------------------------------------------------------
(* What another transaction leaves as it was *)

(* A reversal's key is its own. *)
LEMMA KeysApart ==
    /\ \A p \in 1..MaxPayouts :
           /\ ReversalKey(p) \in Keys
           /\ \A k : ReversalKey(p) # PayoutKey(k) /\ ReversalKey(p) # GiftKey(k)
           /\ ReversalKey(p) # OpeningKey
           /\ \A q : ReversalKey(q) = ReversalKey(p) => q = p
    /\ \A k \in PayoutKeys : PayoutKey(k) \in Keys
    /\ \A n \in 1..MaxGifts : GiftKey(n) \in Keys
    /\ OpeningKey \in Keys
<1>1. \A p, q : ReversalKey(p) = ReversalKey(q) => p = q
  BY DEF ReversalKey
<1>2. \A p, k : ReversalKey(p) # PayoutKey(k) /\ ReversalKey(p) # GiftKey(k)
                /\ ReversalKey(p) # OpeningKey
  BY DEF ReversalKey, PayoutKey, GiftKey, OpeningKey
<1>3. QED
  BY <1>1, <1>2, PayoutsAssumption

(* What a request knows survives any post and any passing of time. *)
LEMMA ReqKept ==
    ASSUME NEW L, IsLedger(L), NEW M, IsLedger(M), NEW kind, NEW key, NEW e,
           Grows(L, M, kind, key, e), NEW from \in Nat, NEW to \in Nat, from <= to,
           NEW k \in Req, ReqSound(L, from, k)
    PROVE  ReqSound(M, to, k)
<1>1. CASE k.pc = "idle"
  BY <1>1 DEF ReqSound
<1>2. CASE k.pc # "idle"
  <2> DEFINE u == Ask[k.key].account
             before == EarnedUpTo(L, u, from)
             after == EarnedUpTo(M, u, to)
  <2>1. k.key \in PayoutKeys
    BY <1>2 DEF ReqSound
  <2>2. u \in Creators /\ Ask[k.key].amount \in Nat
    BY <2>1, PayoutsAssumption
  <2>3. before \in Int /\ after \in Int /\ before <= after
    <3> HIDE DEF u
    <3>1. QED
      BY <2>2, EarnedGrows
  <2>4. k.available \in Int
    BY DEF Req
  <2>5. /\ k.pc \in {"balance", "inflight"} => k.available <= before
        /\ k.pc = "post" => Ask[k.key].amount <= before
    BY DEF ReqSound
  <2> HIDE DEF before, after
  <2>6. /\ k.pc \in {"balance", "inflight"} => k.available <= after
        /\ k.pc = "post" => Ask[k.key].amount <= after
    BY <2>2, <2>3, <2>4, <2>5
  <2>7. QED
    BY <2>1, <2>6 DEF ReqSound, after
<1>3. QED
  BY <1>1, <1>2

(* The hold, of a ledger value. *)
HoldRespected(L, last) ==
    \A i \in 1..L.seq, u \in Creators :
        L.byID[i].kind = "payout" /\ Diamonds(u) \in DOMAIN L.byID[i].entries =>
            - L.byID[i].entries[Diamonds(u)] <= EarnedUpTo(L, u, last)

(* It survives any post that respects it itself. *)
LEMMA HoldKept ==
    ASSUME NEW L, IsLedger(L), NEW M, IsLedger(M), NEW kind, NEW key, NEW e, IsEntries(e),
           Grows(L, M, kind, key, e), NEW from \in Nat, NEW to \in Nat, from <= to,
           HoldRespected(L, from),
           kind = "payout" => \A u \in Creators : Diamonds(u) \in DOMAIN e =>
                                   - e[Diamonds(u)] <= EarnedUpTo(L, u, from)
    PROVE  HoldRespected(M, to)
<1> SUFFICES ASSUME NEW i \in 1..M.seq, NEW u \in Creators, M.byID[i].kind = "payout",
                    Diamonds(u) \in DOMAIN M.byID[i].entries
             PROVE  - M.byID[i].entries[Diamonds(u)] <= EarnedUpTo(M, u, to)
  BY DEF HoldRespected
<1> DEFINE x == M.byID[i].entries[Diamonds(u)]
           before == EarnedUpTo(L, u, from)
           after == EarnedUpTo(M, u, to)
<1>1. before \in Int /\ after \in Int /\ before <= after
  BY EarnedGrows
<1>2. x \in Int
  BY DEF IsLedger, IsTransaction, IsEntries
<1>3. - x <= before
  <2>1. CASE i \in 1..L.seq
    <3>1. M.byID[i] = L.byID[i]
      BY <2>1 DEF Grows, OneMore
    <3>2. QED
      BY <2>1, <3>1 DEF HoldRespected
  <2>2. CASE i \notin 1..L.seq
    <3>1. OneMore(L, M, kind, key, e, 0)
      BY <2>2 DEF Grows
    <3>2. i = M.seq /\ M.byID[i].kind = kind /\ M.byID[i].entries = e
      BY <2>2, <3>1 DEF OneMore
    <3>3. QED
      BY <3>2
  <2>3. QED
    BY <2>1, <2>2
<1> HIDE DEF x, before, after
<1>4. - x <= after
  BY <1>1, <1>2, <1>3
<1>5. QED
  BY <1>4 DEF x, after

(* A payout's reversal stays what it is when another key is posted under. *)
LEMMA ReversalKept ==
    ASSUME NEW L, IsLedger(L), NEW M, NEW kind, NEW key, NEW e, Grows(L, M, kind, key, e),
           NEW p \in 1..MaxPayouts, key # ReversalKey(p)
    PROVE  /\ M.byKey[ReversalKey(p)] = L.byKey[ReversalKey(p)]
           /\ \A t, l, isCut : ReversalSound(L, t, l, p, isCut)
                                 => ReversalSound(M, t, l, p, isCut)
<1> DEFINE tx == L.byKey[ReversalKey(p)]
<1>1. ReversalKey(p) \in Keys
  BY KeysApart
<1>2. tx \in 0..L.seq /\ L.seq \in Nat
  BY <1>1 DEF IsLedger
<1>3. M.byKey[ReversalKey(p)] = tx
  BY <1>1 DEF Grows, OneMore
<1>4. tx # 0 => M.byID[tx] = L.byID[tx]
  BY <1>2 DEF Grows, OneMore
<1>5. QED
  BY <1>3, <1>4 DEF ReversalSound

-----------------------------------------------------------------------------
(* Steps *)

(* The ids of the stored payouts. *)
LEMMA IdsAre ==
    ASSUME TypeOK
    PROVE  /\ Ids = 1..Len(payouts) /\ Ids \subseteq 1..MaxPayouts
           /\ Len(payouts) \in Nat /\ MaxPayouts \in Nat
           /\ \A p \in Ids : payouts[p] \in Payout
BY PayoutsAssumption DEF TypeOK, Ids

(* A busy request asks for one of its creator's amounts. *)
LEMMA AskedBy ==
    ASSUME IInv, NEW r \in Requests, req[r].pc # "idle"
    PROVE  /\ req[r] \in Req /\ req[r].key \in PayoutKeys
           /\ AccountOf(r) = Ask[req[r].key].account /\ AccountOf(r) \in Creators
           /\ AccountOf(r) \in Users
           /\ AmountOf(r) = Ask[req[r].key].amount /\ AmountOf(r) \in Nat
BY PayoutsAssumption DEF IInv, TypeOK, ReqSound, AccountOf, AmountOf

(* A post by anyone but a review, and the passing of time. *)
LEMMA LedgerStep ==
    ASSUME IInv, IsLedger(ledger'), Solvent(ledger'),
           NEW kind, NEW key, NEW e, IsEntries(e), Grows(ledger, ledger', kind, key, e),
           \A p \in 1..MaxPayouts : key # ReversalKey(p),
           aged' \in Nat, aged <= aged',
           kind = "payout" => \A u \in Creators : Diamonds(u) \in DOMAIN e =>
                                   - e[Diamonds(u)] <= EarnedUpTo(ledger, u, aged),
           req' \in [Requests -> Req],
           \A r \in Requests : req'[r] = req[r] \/ req'[r].pc \in {"idle", "create"},
           \A r \in Requests : req'[r].pc # "idle" => req'[r].key = req[r].key /\ req[r].pc # "idle",
           UNCHANGED <<payouts, locked, admin, cut>>
    PROVE  IInv'
<1>1. IsLedger(ledger) /\ aged \in Nat /\ TypeOK
  BY DEF IInv, TypeOK
<1>2. TypeOK'
  BY <1>1 DEF TypeOK
<1>3. ASSUME NEW r \in Requests
      PROVE  ReqSound(ledger', aged', req'[r])
  <2>1. req[r] \in Req /\ ReqSound(ledger, aged, req[r])
    BY <1>1 DEF IInv, TypeOK
  <2>2. ReqSound(ledger', aged', req[r])
    BY <1>1, <2>1, ReqKept
  <2>3. QED
    BY <2>2 DEF ReqSound
<1>4. HoldRespected(ledger', aged')
  <2>1. HoldRespected(ledger, aged)
    BY DEF IInv, NoneBeforeTheHold, HoldRespected
  <2>2. QED
    BY <1>1, <2>1, HoldKept
<1>5. Ids' = Ids /\ Ids \subseteq 1..MaxPayouts
  BY <1>1, IdsAre DEF Ids
<1>6. ASSUME NEW p \in 1..MaxPayouts
      PROVE  /\ ledger'.byKey[ReversalKey(p)] = ledger.byKey[ReversalKey(p)]
             /\ \A t, l, isCut : ReversalSound(ledger, t, l, p, isCut)
                                   => ReversalSound(ledger', t, l, p, isCut)
  <2>1. key # ReversalKey(p)
    OBVIOUS
  <2>2. QED
    BY <1>1, <2>1, ReversalKept
<1>7. \A p \in Ids' : ReversalSound(ledger', payouts'[p], locked'[p], p, p \in cut')
  BY <1>5, <1>6 DEF IInv
<1>8. \A p \in (1..MaxPayouts) \ Ids' :
          ledger'.byKey[ReversalKey(p)] = 0 /\ locked'[p] = "none"
  BY <1>5, <1>6 DEF IInv
<1>9. \A a \in Admins : admin'[a].pc # "idle" => admin'[a].id \in Ids'
  BY <1>5 DEF IInv
<1>10. QED
  BY <1>2, <1>3, <1>4, <1>7, <1>8, <1>9 DEF IInv, NoneBeforeTheHold, HoldRespected

(* A step of one request that posts nothing. *)
LEMMA ReqStep ==
    ASSUME IInv, NEW r \in Requests, req' \in [Requests -> Req],
           \A q \in Requests \ {r} : req'[q] = req[q],
           ReqSound(ledger, aged, req'[r]),
           UNCHANGED <<ledger, aged, payouts, locked, admin, cut>>
    PROVE  IInv'
<1>1. TypeOK'
  BY DEF IInv, TypeOK
<1>2. \A q \in Requests : ReqSound(ledger', aged', req'[q])
  BY DEF IInv
<1>3. Ids' = Ids
  BY DEF Ids
<1>4. NoneBeforeTheHold'
  BY DEF IInv, NoneBeforeTheHold
<1>5. /\ \A p \in Ids' : ReversalSound(ledger', payouts'[p], locked'[p], p, p \in cut')
      /\ \A p \in (1..MaxPayouts) \ Ids' :
             ledger'.byKey[ReversalKey(p)] = 0 /\ locked'[p] = "none"
      /\ \A a \in Admins : admin'[a].pc # "idle" => admin'[a].id \in Ids'
  BY <1>3 DEF IInv
<1>6. QED
  BY <1>1, <1>2, <1>4, <1>5 DEF IInv

(* A step that changes at most the record, the lock and the cut of one      *)
(* payout, and admins.                                                      *)
LEMMA PayoutStep ==
    ASSUME IInv, NEW p \in Ids,
           NEW t \in Payout, payouts' = [payouts EXCEPT ![p] = t],
           locked' \in [1..MaxPayouts -> {"none"} \cup Reviews],
           \A q \in (1..MaxPayouts) \ {p} : locked'[q] = locked[q],
           \A q \in Ids \ {p} : q \in cut' <=> q \in cut,
           ReversalSound(ledger, t, locked'[p], p, p \in cut'),
           admin' \in [Admins -> Admin],
           \A a \in Admins : admin'[a] = admin[a] \/ admin'[a].pc = "idle",
           UNCHANGED <<ledger, aged, req>>
    PROVE  IInv'
<1>1. TypeOK /\ Ids \subseteq 1..MaxPayouts /\ payouts \in Seq(Payout)
  BY IdsAre DEF IInv, TypeOK
<1>2. /\ payouts' \in Seq(Payout) /\ Len(payouts') = Len(payouts) /\ Ids' = Ids
      /\ payouts'[p] = t /\ \A q \in Ids \ {p} : payouts'[q] = payouts[q]
  BY <1>1, ExceptSeq DEF Ids
<1>3. TypeOK'
  BY <1>1, <1>2 DEF TypeOK
<1>4. \A r \in Requests : ReqSound(ledger', aged', req'[r])
  BY DEF IInv
<1>5. NoneBeforeTheHold'
  BY DEF IInv, NoneBeforeTheHold
<1>6. \A q \in Ids' : ReversalSound(ledger', payouts'[q], locked'[q], q, q \in cut')
  <2>1. ASSUME NEW q \in Ids, q # p
        PROVE  ReversalSound(ledger', payouts'[q], locked'[q], q, q \in cut')
    <3>1. ReversalSound(ledger, payouts[q], locked[q], q, q \in cut)
      BY DEF IInv
    <3>2. locked'[q] = locked[q] /\ payouts'[q] = payouts[q] /\ (q \in cut' <=> q \in cut)
      BY <1>1, <1>2, <2>1
    <3>3. QED
      BY <3>1, <3>2 DEF ReversalSound
  <2>2. QED
    BY <1>2, <2>1
<1>7. /\ \A q \in (1..MaxPayouts) \ Ids' :
             ledger'.byKey[ReversalKey(q)] = 0 /\ locked'[q] = "none"
      /\ \A a \in Admins : admin'[a].pc # "idle" => admin'[a].id \in Ids'
  BY <1>2 DEF IInv
<1>8. QED
  BY <1>3, <1>4, <1>5, <1>6, <1>7 DEF IInv

-----------------------------------------------------------------------------
(* The creator's side *)

(* The creator's file is not in the invariant. *)
LEMMA FileStep ==
    ASSUME IInv, NEW u \in Creators,
           SubmitKYC(u) \/ DevApproveKYC(u) \/ SetPayoutProfile(u)
    PROVE  IInv' /\ payouts' = payouts
<1>1. UNCHANGED <<ledger, aged, payouts, locked, req, admin, cut>>
  BY DEF SubmitKYC, DevApproveKYC, SetPayoutProfile
<1>2. Ids' = Ids
  BY <1>1 DEF Ids
<1>3. TypeOK' /\ Solvent(ledger') /\ NoneBeforeTheHold'
  BY <1>1 DEF IInv, TypeOK, NoneBeforeTheHold
<1>4. QED
  BY <1>1, <1>2, <1>3 DEF IInv

(* A gift adds to the diamonds of its creator. *)
LEMMA ReceiveGiftStep ==
    ASSUME IInv, NEW u \in Creators, NEW n \in 1..MaxGifts, ReceiveGift(u, n)
    PROVE  IInv' /\ payouts' = payouts
<1> DEFINE e == SpendEntries(Fan, u, GiftCoins)
           reply == Post(ledger, "gift", GiftKey(n), e)
<1>1. /\ ledger' = reply.ledger
      /\ UNCHANGED <<aged, payouts, locked, req, admin, cut>>
  BY DEF ReceiveGift, gates
<1>2. IsEntries(e)
  BY PayoutsAssumption, SpendEntriesAre DEF Spends
<1>3. IsLedger(ledger) /\ Solvent(ledger) /\ aged \in Nat /\ req \in [Requests -> Req]
  BY DEF IInv, TypeOK
<1>4. GiftKey(n) \in Keys /\ "gift" \in Kinds
  BY KeysApart DEF Kinds
<1> HIDE DEF e
<1>5. IsLedger(ledger') /\ Solvent(ledger') /\ Grows(ledger, ledger', "gift", GiftKey(n), e)
  BY <1>1, <1>2, <1>3, <1>4, PostGrows
<1>6. \A p \in 1..MaxPayouts : GiftKey(n) # ReversalKey(p)
  BY KeysApart
<1>7. IInv'
  BY <1>1, <1>2, <1>3, <1>5, <1>6, LedgerStep
<1>8. QED
  BY <1>1, <1>7

(* The hold on the older gifts ends. *)
LEMMA TimePassesStep ==
    ASSUME IInv, TimePasses
    PROVE  IInv' /\ payouts' = payouts
<1> DEFINE e == << >>
<1>1. UNCHANGED <<ledger, payouts, locked, req, admin, cut>>
  BY DEF TimePasses, gates
<1>2. IsLedger(ledger) /\ Solvent(ledger) /\ aged \in Nat /\ req \in [Requests -> Req]
  BY DEF IInv, TypeOK
<1>3. aged' \in Nat /\ aged <= aged'
  BY <1>2 DEF TimePasses, IsLedger
<1>4. IsEntries(e)
  BY DEF IsEntries
<1>5. IsLedger(ledger') /\ Solvent(ledger') /\ Grows(ledger, ledger', "none", OpeningKey, e)
  BY <1>1, <1>2 DEF Grows
<1>6. \A p \in 1..MaxPayouts : OpeningKey # ReversalKey(p)
  BY KeysApart
<1>7. IInv'
  BY <1>1, <1>2, <1>3, <1>4, <1>5, <1>6, LedgerStep
<1>8. QED
  BY <1>1, <1>7

-----------------------------------------------------------------------------
(* RequestPayout *)

(* What it reads first is what was earned and held at that moment. *)
LEMMA RequestPayoutStep ==
    ASSUME IInv, NEW r \in Requests, NEW k \in PayoutKeys, RequestPayout(r, k)
    PROVE  IInv' /\ payouts' = payouts
<1> DEFINE u == Ask[k].account
           earned == EarnedUpTo(ledger, u, aged)
           new == [IdleReq EXCEPT !.pc = "balance", !.key = k, !.available = earned]
<1>1. UNCHANGED <<ledger, aged, payouts, locked, admin, cut>> /\ req' = [req EXCEPT ![r] = new]
  BY DEF RequestPayout, gates
<1>2. IsLedger(ledger) /\ aged \in Nat /\ req \in [Requests -> Req]
  BY DEF IInv, TypeOK
<1>3. earned \in Int
  <2>1. u \in Creators
    BY PayoutsAssumption
  <2>2. Grows(ledger, ledger, "none", OpeningKey, << >>) /\ aged <= aged
    BY <1>2 DEF Grows
  <2> HIDE DEF u
  <2>3. QED
    BY <1>2, <2>1, <2>2, EarnedGrows
<1>4. new \in Req /\ new.pc = "balance" /\ new.key = k /\ new.available = earned
  <2> HIDE DEF earned
  <2>1. IdleReq \in Req
    BY DEF IdleReq, Req
  <2>2. new \in Req
    BY <1>3, <2>1 DEF Req
  <2>3. QED
    BY <2>1, <2>2 DEF Req
<1>5. ReqSound(ledger, aged, new)
  <2>1. earned = EarnedUpTo(ledger, Ask[k].account, aged)
    OBVIOUS
  <2> HIDE DEF earned, new
  <2>2. new.available <= EarnedUpTo(ledger, Ask[new.key].account, aged)
    BY <1>3, <1>4, <2>1
  <2>3. QED
    BY <1>4, <2>2 DEF ReqSound
<1> HIDE DEF new
<1>6. /\ req' \in [Requests -> Req] /\ req'[r] = new
      /\ \A q \in Requests \ {r} : req'[q] = req[q]
  BY <1>1, <1>2, <1>4
<1>7. IInv'
  BY <1>1, <1>5, <1>6, ReqStep
<1>8. QED
  BY <1>1, <1>7

(* A request that goes on with another amount. *)
LEMMA MovesOn ==
    ASSUME req \in [Requests -> Req], NEW r \in Requests, NEW x \in Int,
           NEW pc \in {"inflight", "post"},
           req' = [req EXCEPT ![r].pc = pc, ![r].available = x]
    PROVE  /\ req' \in [Requests -> Req]
           /\ req'[r].pc = pc /\ req'[r].key = req[r].key /\ req'[r].available = x
           /\ \A q \in Requests \ {r} : req'[q] = req[q]
<1>1. req' \in [Requests -> Req]
  BY DEF Req
<1>2. QED
  BY <1>1 DEF Req

(* The cap only lowers it. *)
LEMMA ReadBalanceStep ==
    ASSUME IInv, NEW r \in Requests, ReadBalance(r)
    PROVE  IInv' /\ payouts' = payouts
<1> DEFINE balance == ledger.balances[Diamonds(AccountOf(r))]
           x == IF req[r].available > balance THEN balance ELSE req[r].available
<1>1. /\ req[r].pc = "balance" /\ UNCHANGED <<ledger, aged, payouts, locked, admin, cut>>
      /\ req' = [req EXCEPT ![r].pc = "inflight", ![r].available = x]
  BY DEF ReadBalance, AtReq, gates
<1>2. IsLedger(ledger) /\ req \in [Requests -> Req] /\ ReqSound(ledger, aged, req[r])
  BY DEF IInv, TypeOK
<1>3. req[r] \in Req /\ req[r].key \in PayoutKeys /\ AccountOf(r) \in Users
  BY <1>1, AskedBy
<1>4. x \in Int /\ x <= req[r].available
  <2>1. balance \in Int
    BY <1>2, <1>3 DEF IsLedger, Accounts, Wallets
  <2>2. req[r].available \in Int
    BY <1>3 DEF Req
  <2> HIDE DEF balance
  <2>3. QED
    BY <2>1, <2>2
<1> HIDE DEF x
<1>5. /\ req' \in [Requests -> Req]
      /\ req'[r].pc = "inflight" /\ req'[r].key = req[r].key /\ req'[r].available = x
      /\ \A q \in Requests \ {r} : req'[q] = req[q]
  BY <1>1, <1>2, <1>4, MovesOn
<1>7. ReqSound(ledger, aged, req'[r])
  <2> DEFINE earned == EarnedUpTo(ledger, Ask[req[r].key].account, aged)
  <2>1. req[r].available <= earned
    BY <1>1, <1>2 DEF ReqSound
  <2>2. earned \in Int
    <3> DEFINE u == Ask[req[r].key].account
    <3>1. u \in Creators /\ aged \in Nat
      BY <1>3, PayoutsAssumption DEF IInv, TypeOK
    <3>2. Grows(ledger, ledger, "none", OpeningKey, << >>) /\ aged <= aged
      BY <3>1 DEF Grows
    <3> HIDE DEF u
    <3>3. EarnedUpTo(ledger, u, aged) \in Int
      BY <1>2, <3>1, <3>2, EarnedGrows
    <3>4. QED
      BY <3>3 DEF u
  <2>3. req[r].available \in Int
    BY <1>3 DEF Req
  <2> HIDE DEF earned
  <2>4. x <= earned
    BY <1>4, <2>1, <2>2, <2>3
  <2>5. QED
    BY <1>3, <1>5, <2>4 DEF ReqSound, earned
<1>8. IInv'
  BY <1>1, <1>5, <1>7, ReqStep
<1>9. QED
  BY <1>1, <1>8

(* What is in flight is never negative. *)
LEMMA InFlightIsNat ==
    ASSUME TypeOK, NEW u
    PROVE  PendingOrProcessingTotal(u) \in Nat
<1> DEFINE f == [p \in Ids |-> payouts[p].amount]
           S == {p \in Ids : payouts[p].account = u /\ payouts[p].status \in Reserved}
<1>1. Ids = 1..Len(payouts) /\ Len(payouts) \in Nat /\ \A p \in Ids : payouts[p] \in Payout
  BY IdsAre
<1>2. S \subseteq Ids /\ \A p \in Ids : f[p] = payouts[p].amount
  OBVIOUS
<1> HIDE DEF f
<1>3. \A p \in S : f[p] \in Nat
  <2> HIDE DEF S
  <2>1. QED
    BY <1>1, <1>2 DEF Payout
<1> HIDE DEF S
<1>4. IsFiniteSet(S)
  <2>1. IsFiniteSet(Ids)
    BY <1>1, FS_Interval
  <2>2. QED
    BY <1>2, <2>1, FS_Subset
<1>5. SumFunctionOnSet(f, S) \in Nat
  BY <1>3, <1>4, SumIsNat
<1>6. QED
  BY <1>5 DEF PendingOrProcessingTotal, f, S

(* What a request gives up leaves the rest as it is. *)
LEMMA AnswerFields ==
    ASSUME req \in [Requests -> Req], NEW r \in Requests, Answer(r)
    PROVE  /\ req' \in [Requests -> Req] /\ req'[r].pc = "idle"
           /\ \A q \in Requests \ {r} : req'[q] = req[q]
<1>1. IdleReq \in Req /\ IdleReq.pc = "idle"
  BY DEF IdleReq, Req
<1>2. req' = [req EXCEPT ![r] = IdleReq]
  BY DEF Answer
<1> HIDE DEF IdleReq
<1>3. QED
  BY <1>1, <1>2

(* Net of what is in flight, it still covers the amount that goes on. *)
LEMMA CheckAmountStep ==
    ASSUME IInv, NEW r \in Requests, CheckAmount(r)
    PROVE  IInv' /\ payouts' = payouts
<1> DEFINE inFlight == PendingOrProcessingTotal(AccountOf(r))
           available == req[r].available - inFlight
<1>1. /\ req[r].pc = "inflight" /\ UNCHANGED <<ledger, aged, payouts, locked, admin, cut>>
      /\ \/ /\ AmountOf(r) \in 1..available
            /\ req' = [req EXCEPT ![r].pc = "post", ![r].available = 0]
         \/ Answer(r)
  BY DEF CheckAmount, AtReq, gates
<1>2. TypeOK /\ req \in [Requests -> Req] /\ ReqSound(ledger, aged, req[r])
  BY DEF IInv, TypeOK
<1>3. /\ req[r] \in Req /\ req[r].key \in PayoutKeys
      /\ AmountOf(r) = Ask[req[r].key].amount /\ AmountOf(r) \in Nat
  BY <1>1, AskedBy
<1>4. inFlight \in Nat /\ req[r].available \in Int
  BY <1>2, <1>3, InFlightIsNat DEF Req
<1>5. CASE Answer(r)
  <2>1. /\ req' \in [Requests -> Req] /\ req'[r].pc = "idle"
        /\ \A q \in Requests \ {r} : req'[q] = req[q]
    BY <1>2, <1>5, AnswerFields
  <2>2. ReqSound(ledger, aged, req'[r])
    BY <2>1 DEF ReqSound
  <2>3. QED
    BY <1>1, <2>1, <2>2, ReqStep
<1>6. CASE /\ AmountOf(r) \in 1..available
           /\ req' = [req EXCEPT ![r].pc = "post", ![r].available = 0]
  <2> DEFINE none == 0
             pc == "post"
  <2>1. /\ req' = [req EXCEPT ![r].pc = pc, ![r].available = none]
        /\ none \in Int /\ pc \in {"inflight", "post"}
    BY <1>6
  <2> HIDE DEF none, pc
  <2>2. /\ req' \in [Requests -> Req]
        /\ req'[r].pc = pc /\ req'[r].key = req[r].key
        /\ \A q \in Requests \ {r} : req'[q] = req[q]
    BY <1>2, <2>1, MovesOn
  <2>3. /\ req' \in [Requests -> Req]
        /\ req'[r].pc = "post" /\ req'[r].key = req[r].key
        /\ \A q \in Requests \ {r} : req'[q] = req[q]
    BY <2>2 DEF pc
  <2> DEFINE u == Ask[req[r].key].account
             earned == EarnedUpTo(ledger, u, aged)
  <2>4. req[r].available <= earned
    BY <1>1, <1>2 DEF ReqSound
  <2>5. earned \in Int
    <3>1. u \in Creators /\ aged \in Nat /\ IsLedger(ledger)
      BY <1>3, PayoutsAssumption DEF IInv, TypeOK
    <3>2. Grows(ledger, ledger, "none", OpeningKey, << >>) /\ aged <= aged
      BY <3>1 DEF Grows
    <3> HIDE DEF u
    <3>3. QED
      BY <3>1, <3>2, EarnedGrows
  <2>6. AmountOf(r) <= available
    <3> HIDE DEF inFlight
    <3>1. QED
      BY <1>3, <1>4, <1>6
  <2>7. AmountOf(r) <= earned
    <3> HIDE DEF earned, inFlight
    <3>1. QED
      BY <1>3, <1>4, <2>4, <2>5, <2>6
  <2>8. ReqSound(ledger, aged, req'[r])
    BY <1>3, <2>3, <2>7 DEF ReqSound
  <2>9. QED
    BY <1>1, <2>3, <2>8, ReqStep
<1>7. QED
  BY <1>1, <1>5, <1>6

(* The debit is within what was earned and held when it was checked, and    *)
(* earnings have only grown since.                                          *)
LEMMA PostPayoutStep ==
    ASSUME IInv, NEW r \in Requests, PostPayout(r)
    PROVE  IInv' /\ payouts' = payouts
<1> DEFINE u == AccountOf(r)
           d == AmountOf(r)
           key == PayoutKey(req[r].key)
           e == PayoutEntries(u, d)
           reply == Post(ledger, "payout", key, e)
<1>1. /\ req[r].pc = "post" /\ ledger' = reply.ledger
      /\ UNCHANGED <<aged, payouts, locked, admin, cut>>
      /\ req' = [req EXCEPT ![r].pc = "create", ![r].tx = reply.tx] \/ Answer(r)
  BY DEF PostPayout, AtReq, gates
<1>2. /\ IsLedger(ledger) /\ Solvent(ledger) /\ aged \in Nat
      /\ req \in [Requests -> Req] /\ ReqSound(ledger, aged, req[r])
  BY DEF IInv, TypeOK
<1>3. /\ req[r] \in Req /\ req[r].key \in PayoutKeys
      /\ u = Ask[req[r].key].account /\ u \in Creators /\ u \in Users
      /\ d = Ask[req[r].key].amount /\ d \in Nat
  BY <1>1, AskedBy
<1>4. key \in Keys /\ "payout" \in Kinds /\ \A p \in 1..MaxPayouts : key # ReversalKey(p)
  BY <1>3, KeysApart DEF Kinds
<1>5. d <= EarnedUpTo(ledger, u, aged)
  BY <1>1, <1>2, <1>3 DEF ReqSound
<1> HIDE DEF u, d, key
<1>6. Withdraws(e, u, d)
  BY <1>3, PayoutEntriesAre
<1> HIDE DEF e
<1>7. IsEntries(e) /\ \A v \in Creators : Diamonds(v) \in DOMAIN e => v = u /\ - e[Diamonds(v)] = d
  BY <1>3, <1>6, PayoutsAssumption DEF Withdraws
<1>8. \A v \in Creators : Diamonds(v) \in DOMAIN e =>
          - e[Diamonds(v)] <= EarnedUpTo(ledger, v, aged)
  BY <1>5, <1>7
<1>9. IsLedger(ledger') /\ Solvent(ledger') /\ Grows(ledger, ledger', "payout", key, e)
  BY <1>1, <1>2, <1>4, <1>7, PostGrows
<1>10. reply.tx \in Nat
  BY <1>2, <1>4, PostAnswers
<1> HIDE DEF reply
<1>11. /\ req' \in [Requests -> Req]
       /\ \A q \in Requests \ {r} : req'[q] = req[q]
       /\ req'[r].pc = "idle" \/ (req'[r].pc = "create" /\ req'[r].key = req[r].key)
  <2>1. CASE Answer(r)
    BY <1>2, <2>1, AnswerFields
  <2>2. CASE req' = [req EXCEPT ![r].pc = "create", ![r].tx = reply.tx]
    <3>1. req' \in [Requests -> Req]
      BY <1>2, <1>10, <2>2 DEF Req
    <3>2. QED
      BY <1>2, <1>3, <2>2, <3>1 DEF Req
  <2>3. QED
    BY <1>1, <2>1, <2>2
<1>12. /\ \A q \in Requests : req'[q] = req[q] \/ req'[q].pc \in {"idle", "create"}
       /\ \A q \in Requests : req'[q].pc # "idle" =>
              req'[q].key = req[q].key /\ req[q].pc # "idle"
  BY <1>1, <1>11
<1>13. IInv'
  BY <1>1, <1>2, <1>4, <1>7, <1>8, <1>9, <1>11, <1>12, LedgerStep
<1>14. QED
  BY <1>1, <1>13

(* A new payout has an id whose reversal was never posted. *)
LEMMA CreatePayoutStep ==
    ASSUME IInv, NEW r \in Requests, CreatePayout(r)
    PROVE  /\ IInv'
           /\ \A p \in Ids : p \in Ids' /\ payouts'[p] = payouts[p]
<1> DEFINE t == [account |-> AccountOf(r), amount |-> AmountOf(r),
                 status |-> "requested", tx |-> req[r].tx, reversal |-> 0]
           n == Len(payouts) + 1
<1>1. /\ req[r].pc = "create" /\ Len(payouts) < MaxPayouts
      /\ payouts' = Append(payouts, t) /\ Answer(r)
      /\ UNCHANGED <<ledger, aged, locked, admin, cut>>
  BY DEF CreatePayout, AtReq, gates
<1>2. /\ TypeOK /\ payouts \in Seq(Payout) /\ req \in [Requests -> Req]
      /\ Ids = 1..Len(payouts) /\ Len(payouts) \in Nat /\ MaxPayouts \in Nat
  BY IdsAre DEF IInv, TypeOK
<1>3. t \in Payout /\ t.status = "requested"
  <2>1. AccountOf(r) \in Creators /\ AmountOf(r) \in Nat /\ req[r].tx \in Nat
    BY <1>1, AskedBy DEF Req
  <2>2. QED
    BY <2>1 DEF Payout, Statuses
<1> HIDE DEF t
<1>4. /\ payouts' \in Seq(Payout) /\ Len(payouts') = n /\ payouts'[n] = t
      /\ \A p \in 1..Len(payouts) : payouts'[p] = payouts[p]
  BY <1>1, <1>2, <1>3, AppendProperties
<1>5. Ids' = Ids \cup {n} /\ n \in (1..MaxPayouts) \ Ids
  <2>1. Ids' = 1..n
    BY <1>2, <1>4 DEF Ids
  <2>2. QED
    BY <1>1, <1>2, <2>1
<1>6. /\ req' \in [Requests -> Req] /\ req'[r].pc = "idle"
      /\ \A q \in Requests \ {r} : req'[q] = req[q]
  BY <1>1, <1>2, AnswerFields
<1>7. TypeOK'
  BY <1>1, <1>2, <1>4, <1>6 DEF TypeOK
<1>8. \A q \in Requests : ReqSound(ledger', aged', req'[q])
  <2>1. ReqSound(ledger, aged, req'[r])
    BY <1>6 DEF ReqSound
  <2>2. QED
    BY <1>1, <1>6, <2>1 DEF IInv
<1>9. \A p \in Ids : p \in Ids' /\ payouts'[p] = payouts[p]
  BY <1>2, <1>4, <1>5
<1>10. \A p \in Ids' : ReversalSound(ledger', payouts'[p], locked'[p], p, p \in cut')
  <2>1. ReversalSound(ledger, t, locked[n], n, n \in cut)
    <3>1. ledger.byKey[ReversalKey(n)] = 0 /\ locked[n] = "none"
      BY <1>5 DEF IInv
    <3>2. QED
      BY <1>3, <3>1 DEF ReversalSound, Reviews
  <2>2. QED
    BY <1>1, <1>4, <1>5, <1>9, <2>1 DEF IInv
<1>11. /\ \A p \in (1..MaxPayouts) \ Ids' :
              ledger'.byKey[ReversalKey(p)] = 0 /\ locked'[p] = "none"
       /\ \A a \in Admins : admin'[a].pc # "idle" => admin'[a].id \in Ids'
  BY <1>1, <1>5 DEF IInv
<1>12. NoneBeforeTheHold'
  BY <1>1 DEF IInv, NoneBeforeTheHold
<1>13. IInv'
  BY <1>1, <1>7, <1>8, <1>10, <1>11, <1>12 DEF IInv
<1>14. QED
  BY <1>9, <1>13

-----------------------------------------------------------------------------
(* The admins' side *)

(* t2 is t but for its status and its reversal. *)
Reviewed(t, t2, status, tx) ==
    /\ t2 \in Payout /\ t2.status = status /\ t2.reversal = tx
    /\ t2.account = t.account /\ t2.amount = t.amount
    /\ [t2 EXCEPT !.status = t.status, !.reversal = t.reversal] = t

(* A review changes nothing of a payout but its status and its reversal. *)
LEMMA OnlyTheStatus ==
    ASSUME NEW t \in Payout, NEW status \in Statuses, NEW tx \in Nat,
           NEW t2, t2 = [t EXCEPT !.status = status, !.reversal = tx]
    PROVE  Reviewed(t, t2, status, tx)
<1>1. t2 \in Payout
  BY DEF Payout
<1>2. /\ t2.status = status /\ t2.reversal = tx /\ t2.account = t.account
      /\ t2.amount = t.amount /\ t2.tx = t.tx
  BY <1>1 DEF Payout
<1> DEFINE t3 == [t2 EXCEPT !.status = t.status, !.reversal = t.reversal]
<1>3. t3 \in Payout
  BY <1>1 DEF Payout
<1>4. /\ t3.status = t.status /\ t3.reversal = t.reversal /\ t3.account = t.account
      /\ t3.amount = t.amount /\ t3.tx = t.tx
  BY <1>1, <1>2, <1>3 DEF Payout
<1> HIDE DEF t3
<1>5. t3 = t
  BY <1>3, <1>4 DEF Payout
<1>6. QED
  BY <1>1, <1>2, <1>5 DEF t3, Reviewed

(* What may happen to the stored payouts in a step. *)
Along ==
    \A p \in Ids :
        /\ p \in Ids'
        /\ \/ payouts'[p] = payouts[p]
           \/ /\ payouts[p].status \in From(payouts'[p].status)
              /\ [payouts'[p] EXCEPT !.status = payouts[p].status,
                                     !.reversal = payouts[p].reversal] = payouts[p]

(* An admin reads a payout before it is moved on. *)
LEMMA LoadPayoutStep ==
    ASSUME IInv, NEW a \in Admins, NEW p \in Ids,
           NEW target \in {"approved", "processing", "paid"}, LoadPayout(a, p, target)
    PROVE  IInv' /\ payouts' = payouts
<1> DEFINE new == [pc |-> target, id |-> p]
<1>1. /\ UNCHANGED <<ledger, aged, payouts, locked, req, cut>>
      /\ admin' = [admin EXCEPT ![a] = new]
  BY DEF LoadPayout, gates
<1>2. TypeOK /\ admin \in [Admins -> Admin] /\ Ids' = Ids /\ p \in Nat
  BY <1>1, IdsAre DEF IInv, TypeOK, Ids
<1>3. new \in Admin /\ new.id = p
  BY <1>2 DEF Admin
<1> HIDE DEF new
<1>4. /\ admin' \in [Admins -> Admin] /\ admin'[a] = new
      /\ \A b \in Admins \ {a} : admin'[b] = admin[b]
  BY <1>1, <1>2, <1>3
<1>5. TypeOK' /\ NoneBeforeTheHold'
  BY <1>1, <1>4 DEF IInv, TypeOK, NoneBeforeTheHold
<1>6. \A b \in Admins : admin'[b].pc # "idle" => admin'[b].id \in Ids'
  BY <1>2, <1>3, <1>4 DEF IInv
<1>7. IInv'
  BY <1>1, <1>2, <1>5, <1>6 DEF IInv
<1>8. QED
  BY <1>1, <1>7

(* Update looks again under the lock, so a stale copy moves nothing. *)
LEMMA TransitionStep ==
    ASSUME IInv, NEW a \in Admins, Transition(a)
    PROVE  IInv' /\ Along
<1> DEFINE p == admin[a].id
           target == admin[a].pc
           moved == [payouts[p] EXCEPT !.status = target]
           t == IF payouts[p].status \in From(target) THEN moved ELSE payouts[p]
<1>1. /\ target # "idle" /\ locked[p] = "none" /\ admin' = [admin EXCEPT ![a] = IdleAdmin]
      /\ payouts' = IF payouts[p].status \in From(target)
                    THEN [payouts EXCEPT ![p].status = target] ELSE payouts
      /\ UNCHANGED <<ledger, aged, locked, req, cut>>
  BY DEF Transition, Free, gates
<1>2. /\ TypeOK /\ admin \in [Admins -> Admin] /\ payouts \in Seq(Payout)
      /\ locked \in [1..MaxPayouts -> {"none"} \cup Reviews]
  BY DEF IInv, TypeOK
<1>3. /\ p \in Ids /\ target \in {"approved", "processing", "paid"} /\ target \in Statuses
      /\ payouts[p] \in Payout /\ payouts[p].reversal \in Nat
  BY <1>1, <1>2, IdsAre DEF IInv, Admin, Payout, Statuses
<1>4. From(target) \cap Reviews = {}
  BY <1>3 DEF From, Reviews
<1> HIDE DEF p, target
<1>5. moved = [payouts[p] EXCEPT !.status = target, !.reversal = payouts[p].reversal]
  <2> DEFINE moved2 == [payouts[p] EXCEPT !.status = target, !.reversal = payouts[p].reversal]
  <2>1. moved \in Payout /\ moved2 \in Payout
    BY <1>3 DEF Payout
  <2>2. /\ moved.account = moved2.account /\ moved.amount = moved2.amount
        /\ moved.status = moved2.status /\ moved.tx = moved2.tx
        /\ moved.reversal = moved2.reversal
    BY <1>3, <2>1 DEF Payout
  <2> HIDE DEF moved, moved2
  <2>3. moved = moved2
    BY <2>1, <2>2 DEF Payout
  <2>4. QED
    BY <2>3 DEF moved2
<1>6. payouts' = [payouts EXCEPT ![p] = t]
  <2>1. CASE payouts[p].status \in From(target)
    BY <1>1, <2>1
  <2>2. CASE payouts[p].status \notin From(target)
    <3>1. payouts' = payouts /\ t = payouts[p] /\ payouts \in [1..Len(payouts) -> Payout]
      BY <1>1, <1>2, <2>2
    <3> HIDE DEF t
    <3>2. QED
      BY <3>1
  <2>3. QED
    BY <2>1, <2>2
<1> HIDE DEF moved
<1>7. Reviewed(payouts[p], moved, target, payouts[p].reversal)
  BY <1>3, <1>5, OnlyTheStatus
<1>8. /\ moved \in Payout /\ moved.status = target /\ moved.reversal = payouts[p].reversal
      /\ moved.account = payouts[p].account /\ moved.amount = payouts[p].amount
      /\ [moved EXCEPT !.status = payouts[p].status, !.reversal = payouts[p].reversal]
           = payouts[p]
  BY <1>7 DEF Reviewed
<1>9. t \in Payout
  BY <1>3, <1>8
<1>10. ReversalSound(ledger, t, "none", p, p \in cut)
  <2>1. ReversalSound(ledger, payouts[p], "none", p, p \in cut)
    BY <1>1, <1>3 DEF IInv
  <2>2. CASE payouts[p].status \in From(target)
    <3>1. t = moved /\ payouts[p].status \notin Reviews /\ target \notin Reviews
      BY <1>3, <1>4, <2>2 DEF Reviews
    <3>2. QED
      BY <1>8, <2>1, <3>1 DEF ReversalSound
  <2>3. CASE payouts[p].status \notin From(target)
    BY <2>1, <2>3
  <2>4. QED
    BY <2>2, <2>3
<1> HIDE DEF t
<1>11. /\ admin' \in [Admins -> Admin]
       /\ \A b \in Admins : admin'[b] = admin[b] \/ admin'[b].pc = "idle"
  <2>1. IdleAdmin \in Admin /\ IdleAdmin.pc = "idle"
    BY DEF IdleAdmin, Admin
  <2> HIDE DEF IdleAdmin
  <2>2. QED
    BY <1>1, <1>2, <2>1
<1>12. IInv'
  <2>1. ReversalSound(ledger, t, locked'[p], p, p \in cut')
    BY <1>1, <1>10
  <2>2. QED
    BY <1>1, <1>2, <1>3, <1>6, <1>9, <1>11, <2>1, PayoutStep
<1>13. Along
  <2>1. /\ Ids' = Ids /\ payouts'[p] = t
        /\ \A q \in Ids \ {p} : payouts'[q] = payouts[q]
    BY <1>2, <1>3, <1>6 DEF Ids
  <2>2. t = payouts[p] \/ (t = moved /\ payouts[p].status \in From(target))
    BY DEF t
  <2>3. QED
    BY <1>8, <2>1, <2>2 DEF Along
<1>14. QED
  BY <1>12, <1>13

(* The statuses a review leaves are not final ones. *)
LEMMA ReviewsStartOpen ==
    /\ From("rejected") \cap Reviews = {} /\ From("failed") \cap Reviews = {}
    /\ \A l \in Reviews : From(l) \cap Reviews = {}
BY DEF From, Reviews

(* The reversal is in the ledger before the status says so. *)
LEMMA ReversePayoutStep ==
    ASSUME IInv, NEW p \in Ids, NEW target \in Reviews, ReversePayout(p, target)
    PROVE  IInv' /\ payouts' = payouts
<1> DEFINE t == payouts[p]
           key == ReversalKey(p)
           e == ReversalEntries(t.account, t.amount)
           reply == Post(ledger, "payout_reversal", key, e)
<1>1. /\ locked[p] = "none" /\ t.status \in From(target) /\ ledger' = reply.ledger
      /\ locked' = [locked EXCEPT ![p] = target]
      /\ UNCHANGED <<aged, payouts, req, admin, cut>>
  BY DEF ReversePayout, Free, gates
<1>2. /\ TypeOK /\ IsLedger(ledger) /\ Solvent(ledger) /\ aged \in Nat
      /\ locked \in [1..MaxPayouts -> {"none"} \cup Reviews]
  BY DEF IInv, TypeOK
<1>3. /\ Ids \subseteq 1..MaxPayouts /\ Ids' = Ids /\ t \in Payout
      /\ t.account \in Users /\ t.amount \in Nat
  BY <1>1, <1>2, IdsAre, PayoutsAssumption DEF Payout, Ids
<1>4. key \in Keys /\ "payout_reversal" \in Kinds
  BY <1>3, KeysApart DEF Kinds
<1>5. IsEntries(e) /\ DOMAIN e # {} /\ Balanced(e) /\ Covered(ledger, e)
  <2> HIDE DEF t
  <2>1. QED
    BY <1>2, <1>3, ReversalEntriesAre
<1>6. ReversalSound(ledger, t, "none", p, p \in cut)
  BY <1>1 DEF IInv
<1> HIDE DEF t, key, e
<1>7. IsLedger(ledger') /\ Solvent(ledger') /\ Grows(ledger, ledger', "payout_reversal", key, e)
  BY <1>1, <1>2, <1>4, <1>5, PostGrows
<1>8. ledger'.byKey[key] # 0
  <2>1. /\ reply.err = "nil" => reply.tx # 0 /\ reply.tx = reply.ledger.byKey[key]
        /\ reply.err = "nil"
    BY <1>2, <1>4, <1>5, PostAnswers
  <2> HIDE DEF reply
  <2>2. QED
    BY <1>1, <2>1
<1> HIDE DEF reply
<1>9. ledger'.byID[ledger'.byKey[key]].entries = e
  <2>1. CASE ledger' = ledger
    <3>1. ledger.byKey[key] # 0
      BY <1>8, <2>1
    <3>2. ledger.byID[ledger.byKey[key]].entries = e
      BY <1>6, <3>1 DEF ReversalSound, key, e
    <3>3. QED
      BY <2>1, <3>2
  <2>2. CASE OneMore(ledger, ledger', "payout_reversal", key, e, 0)
    BY <2>2 DEF OneMore
  <2>3. QED
    BY <1>7, <2>1, <2>2 DEF Grows
<1>10. /\ locked' \in [1..MaxPayouts -> {"none"} \cup Reviews] /\ locked'[p] = target
       /\ \A q \in (1..MaxPayouts) \ {p} : locked'[q] = locked[q]
  BY <1>1, <1>2, <1>3
<1>11. TypeOK'
  BY <1>1, <1>2, <1>7, <1>10 DEF TypeOK
<1>12. \A q \in Ids' : ReversalSound(ledger', payouts'[q], locked'[q], q, q \in cut')
  <2>1. ReversalSound(ledger', t, target, p, p \in cut)
    <3>1. target # "none" /\ t.status \notin Reviews
      BY <1>1, ReviewsStartOpen DEF Reviews
    <3>2. QED
      BY <1>1, <1>8, <1>9, <3>1 DEF ReversalSound, key, e
  <2>2. ASSUME NEW q \in Ids, q # p
        PROVE  ReversalSound(ledger', payouts[q], locked[q], q, q \in cut)
    <3>1. q \in 1..MaxPayouts /\ key # ReversalKey(q)
      BY <1>3, <2>2, KeysApart DEF key
    <3>2. \A t2, l, isCut : ReversalSound(ledger, t2, l, q, isCut)
                             => ReversalSound(ledger', t2, l, q, isCut)
      BY <1>2, <1>7, <3>1, ReversalKept
    <3>3. QED
      BY <3>2 DEF IInv
  <2>3. QED
    BY <1>1, <1>3, <1>10, <2>1, <2>2 DEF t
<1>13. ASSUME NEW q \in (1..MaxPayouts) \ Ids'
       PROVE  ledger'.byKey[ReversalKey(q)] = 0 /\ locked'[q] = "none"
  <2>1. q \in 1..MaxPayouts /\ q # p /\ key # ReversalKey(q)
    BY <1>3, KeysApart DEF key
  <2>2. ledger'.byKey[ReversalKey(q)] = ledger.byKey[ReversalKey(q)]
    BY <1>2, <1>7, <2>1, ReversalKept
  <2>3. QED
    BY <1>3, <1>10, <2>1, <2>2 DEF IInv
<1>14. ASSUME NEW r \in Requests
       PROVE  ReqSound(ledger', aged', req'[r])
  <2>1. req[r] \in Req /\ ReqSound(ledger, aged, req[r]) /\ aged <= aged
    BY <1>2 DEF IInv, TypeOK
  <2>2. ReqSound(ledger', aged, req[r])
    BY <1>2, <1>7, <2>1, ReqKept
  <2>3. QED
    BY <1>1, <2>2
<1>15. HoldRespected(ledger', aged')
  <2>1. HoldRespected(ledger, aged) /\ aged <= aged
    BY <1>2 DEF IInv, NoneBeforeTheHold, HoldRespected
  <2>2. HoldRespected(ledger', aged)
    BY <1>2, <1>5, <1>7, <2>1, HoldKept
  <2>3. QED
    BY <1>1, <2>2
<1>16. \A a \in Admins : admin'[a].pc # "idle" => admin'[a].id \in Ids'
  BY <1>1, <1>3 DEF IInv
<1>17. IInv'
  BY <1>7, <1>11, <1>12, <1>13, <1>14, <1>15, <1>16 DEF IInv, NoneBeforeTheHold, HoldRespected
<1>18. QED
  BY <1>1, <1>17

(* A review is committed, with the reversal that was posted for it. *)
LEMMA CommitReviewStep ==
    ASSUME IInv, NEW p \in Ids, CommitReview(p)
    PROVE  IInv' /\ Along
<1> DEFINE status == locked[p]
           tx == ledger.byKey[ReversalKey(p)]
           t == [payouts[p] EXCEPT !.status = status, !.reversal = tx]
<1>1. /\ status # "none"
      /\ payouts' = [payouts EXCEPT ![p].status = status, ![p].reversal = tx]
      /\ locked' = [locked EXCEPT ![p] = "none"]
      /\ UNCHANGED <<ledger, aged, req, admin, cut>>
  BY DEF CommitReview, Free, gates
<1>2. /\ TypeOK /\ payouts \in Seq(Payout) /\ IsLedger(ledger)
      /\ locked \in [1..MaxPayouts -> {"none"} \cup Reviews] /\ admin \in [Admins -> Admin]
  BY DEF IInv, TypeOK
<1>3. /\ p \in 1..MaxPayouts /\ payouts[p] \in Payout
      /\ status \in Reviews /\ status \in Statuses
  BY <1>1, <1>2, IdsAre DEF Reviews, Statuses
<1>4. tx \in Nat
  BY <1>2, <1>3, KeysApart DEF IsLedger
<1>5. ReversalSound(ledger, payouts[p], status, p, p \in cut)
  BY DEF IInv
<1>6. /\ tx # 0 /\ payouts[p].status \in From(status)
      /\ ledger.byID[tx].entries = ReversalEntries(payouts[p].account, payouts[p].amount)
  BY <1>1, <1>5 DEF ReversalSound
<1>7. payouts' = [payouts EXCEPT ![p] = t]
  <2> HIDE DEF status, tx
  <2>1. QED
    BY <1>1
<1> HIDE DEF status, t
<1>8. Reviewed(payouts[p], t, status, tx)
  <2> HIDE DEF tx
  <2>1. t = [payouts[p] EXCEPT !.status = status, !.reversal = tx]
    BY DEF t, tx
  <2>2. QED
    BY <1>3, <1>4, <2>1, OnlyTheStatus
<1>9. t \in Payout /\ ReversalSound(ledger, t, "none", p, p \in cut)
  BY <1>3, <1>6, <1>8 DEF Reviewed, ReversalSound
<1>10. /\ locked' \in [1..MaxPayouts -> {"none"} \cup Reviews] /\ locked'[p] = "none"
       /\ \A q \in (1..MaxPayouts) \ {p} : locked'[q] = locked[q]
  BY <1>1, <1>2, <1>3
<1>11. IInv'
  <2>1. ReversalSound(ledger, t, locked'[p], p, p \in cut')
    BY <1>1, <1>9, <1>10
  <2>2. QED
    BY <1>1, <1>2, <1>7, <1>9, <1>10, <2>1, PayoutStep
<1>12. Along
  <2>1. /\ Ids' = Ids /\ payouts'[p] = t
        /\ \A q \in Ids \ {p} : payouts'[q] = payouts[q]
    BY <1>2, <1>7 DEF Ids
  <2>2. t.status = status /\ payouts[p].status \in From(t.status)
        /\ [t EXCEPT !.status = payouts[p].status, !.reversal = payouts[p].reversal] = payouts[p]
    BY <1>6, <1>8 DEF Reviewed
  <2>3. QED
    BY <2>1, <2>2 DEF Along
<1>13. QED
  BY <1>11, <1>12

(* A review is cut off after its ledger post. *)
LEMMA CutReviewStep ==
    ASSUME IInv, NEW p \in Ids, CutReview(p)
    PROVE  IInv' /\ payouts' = payouts
<1>1. /\ locked[p] # "none" /\ locked' = [locked EXCEPT ![p] = "none"]
      /\ cut' = cut \cup {p} /\ UNCHANGED <<ledger, aged, payouts, req, admin>>
  BY DEF CutReview, Free, gates
<1>2. /\ TypeOK /\ payouts \in Seq(Payout)
      /\ locked \in [1..MaxPayouts -> {"none"} \cup Reviews] /\ admin \in [Admins -> Admin]
  BY DEF IInv, TypeOK
<1>3. p \in 1..MaxPayouts /\ payouts[p] \in Payout /\ locked[p] \in Reviews
  BY <1>1, <1>2, IdsAre
<1>4. ReversalSound(ledger, payouts[p], "none", p, TRUE)
  <2>1. ReversalSound(ledger, payouts[p], locked[p], p, p \in cut)
    BY DEF IInv
  <2>2. QED
    BY <2>1 DEF ReversalSound
<1>5. /\ locked' \in [1..MaxPayouts -> {"none"} \cup Reviews] /\ locked'[p] = "none"
      /\ \A q \in (1..MaxPayouts) \ {p} : locked'[q] = locked[q]
  BY <1>1, <1>2, <1>3
<1>6. payouts' = [payouts EXCEPT ![p] = payouts[p]]
  <2>1. payouts \in [1..Len(payouts) -> Payout]
    BY <1>2
  <2>2. QED
    BY <1>1, <2>1
<1>7. ReversalSound(ledger, payouts[p], locked'[p], p, p \in cut')
  BY <1>1, <1>4, <1>5 DEF ReversalSound
<1>8. \A q \in Ids \ {p} : q \in cut' <=> q \in cut
  BY <1>1
<1>9. IInv'
  BY <1>1, <1>2, <1>3, <1>5, <1>6, <1>7, <1>8, PayoutStep
<1>10. QED
  BY <1>1, <1>9

-----------------------------------------------------------------------------
(* The theorems *)

(* Only the opening balance has been posted, and nobody does anything. *)
LEMMA InitHolds == ASSUME Init PROVE IInv
<1> DEFINE e == CreditEntries(Fan, MaxGifts * GiftCoins)
           L == NewMemLedger
<1>1. /\ ledger = Post(L, "promo", OpeningKey, e).ledger /\ aged = 0 /\ payouts = << >>
      /\ locked = [p \in 1..MaxPayouts |-> "none"]
      /\ req = [r \in Requests |-> IdleReq] /\ admin = [a \in Admins |-> IdleAdmin]
  BY DEF Init
<1>2. IsEntries(e)
  <2> DEFINE coins == MaxGifts * GiftCoins
  <2>1. coins \in Int /\ Fan \in Users /\ e = CreditEntries(Fan, coins)
    BY PayoutsAssumption
  <2> HIDE DEF coins, e
  <2>2. QED
    BY <2>1, CreditEntriesAre DEF Credits
<1>3. IsLedger(L) /\ Solvent(L) /\ L.seq = 0
  BY NewLedgerSound DEF Sound
<1>4. OpeningKey \in Keys /\ "promo" \in Kinds
  BY KeysApart DEF Kinds
<1>5. \A k \in Keys : L.byKey[k] = 0
  BY DEF NewMemLedger
<1> HIDE DEF e, L
<1>6. IsLedger(ledger) /\ Solvent(ledger) /\ Grows(L, ledger, "promo", OpeningKey, e)
  BY <1>1, <1>2, <1>3, <1>4, PostGrows
<1>7. IdleReq \in Req /\ IdleReq.pc = "idle" /\ IdleAdmin \in Admin /\ IdleAdmin.pc = "idle"
  BY DEF IdleReq, Req, IdleAdmin, Admin
<1> HIDE DEF IdleReq, IdleAdmin
<1>8. Len(payouts) = 0 /\ payouts \in Seq(Payout) /\ Ids = {} /\ MaxPayouts \in Nat
  BY <1>1, PayoutsAssumption DEF Ids
<1>9. TypeOK
  BY <1>1, <1>6, <1>7, <1>8 DEF TypeOK
<1>10. \A r \in Requests : ReqSound(ledger, aged, req[r])
  BY <1>1, <1>7 DEF ReqSound
<1>11. HoldRespected(ledger, aged)
  <2>1. HoldRespected(L, 0)
    BY <1>3 DEF HoldRespected
  <2>2. HoldRespected(ledger, 0)
    BY <1>2, <1>3, <1>6, <2>1, HoldKept
  <2>3. QED
    BY <1>1, <2>2
<1>12. ASSUME NEW p \in 1..MaxPayouts
       PROVE  ledger.byKey[ReversalKey(p)] = 0 /\ locked[p] = "none"
  <2>1. OpeningKey # ReversalKey(p) /\ ReversalKey(p) \in Keys
    BY KeysApart
  <2>2. ledger.byKey[ReversalKey(p)] = L.byKey[ReversalKey(p)]
    BY <1>3, <1>6, <2>1, ReversalKept
  <2>3. QED
    BY <1>1, <1>5, <2>1, <2>2
<1>13. QED
  BY <1>1, <1>6, <1>7, <1>8, <1>9, <1>10, <1>11, <1>12
     DEF IInv, NoneBeforeTheHold, HoldRespected

(* Every step keeps the invariant and moves payouts along. *)
LEMMA NextStep == ASSUME IInv, [Next]_vars PROVE IInv' /\ [Along]_vars
<1>1. ASSUME payouts' = payouts PROVE Along
  BY <1>1 DEF Along, Ids
<1>2. ASSUME NEW u \in Creators, SubmitKYC(u) \/ DevApproveKYC(u) \/ SetPayoutProfile(u)
      PROVE  IInv' /\ Along
  BY <1>1, <1>2, FileStep
<1>3. ASSUME NEW u \in Creators, NEW n \in 1..MaxGifts, ReceiveGift(u, n)
      PROVE  IInv' /\ Along
  BY <1>1, <1>3, ReceiveGiftStep
<1>4. ASSUME TimePasses PROVE IInv' /\ Along
  BY <1>1, <1>4, TimePassesStep
<1>5. ASSUME NEW r \in Requests, NEW k \in PayoutKeys, RequestPayout(r, k)
      PROVE  IInv' /\ Along
  BY <1>1, <1>5, RequestPayoutStep
<1>6. ASSUME NEW r \in Requests, ReadBalance(r) \/ CheckAmount(r) \/ PostPayout(r)
      PROVE  IInv' /\ Along
  BY <1>1, <1>6, ReadBalanceStep, CheckAmountStep, PostPayoutStep
<1>7. ASSUME NEW r \in Requests, CreatePayout(r) PROVE IInv' /\ Along
  BY <1>7, CreatePayoutStep DEF Along
<1>8. ASSUME NEW a \in Admins, NEW p \in Ids,
             NEW target \in {"approved", "processing", "paid"}, LoadPayout(a, p, target)
      PROVE  IInv' /\ Along
  BY <1>1, <1>8, LoadPayoutStep
<1>9. ASSUME NEW a \in Admins, Transition(a) PROVE IInv' /\ Along
  BY <1>9, TransitionStep
<1>10. ASSUME NEW p \in Ids, NEW target \in {"rejected", "failed"}, ReversePayout(p, target)
       PROVE  IInv' /\ Along
  BY <1>1, <1>10, ReversePayoutStep DEF Reviews
<1>11. ASSUME NEW p \in Ids, CommitReview(p) PROVE IInv' /\ Along
  BY <1>11, CommitReviewStep
<1>12. ASSUME NEW p \in Ids, CutReview(p) PROVE IInv' /\ Along
  BY <1>1, <1>12, CutReviewStep
<1>13. CASE Next
  BY <1>2, <1>3, <1>4, <1>5, <1>6, <1>7, <1>8, <1>9, <1>10, <1>11, <1>12, <1>13 DEF Next
<1>14. CASE UNCHANGED vars
  <2>1. UNCHANGED <<ledger, aged, payouts, locked, req, admin, cut>>
    BY <1>14 DEF vars
  <2>2. Ids' = Ids /\ TypeOK' /\ NoneBeforeTheHold'
    BY <2>1 DEF IInv, TypeOK, Ids, NoneBeforeTheHold
  <2>3. IInv'
    BY <2>1, <2>2 DEF IInv
  <2>4. QED
    BY <1>14, <2>3
<1>15. QED
  BY <1>13, <1>14

(* Each part of the invariant holds in every state that creators, requests  *)
(* and admins of the service can reach.                                     *)
THEOREM Invariant == Spec => []IInv
<1>1. Init => IInv
  BY InitHolds
<1>2. IInv /\ [Next]_vars => IInv'
  BY NextStep
<1>3. QED
  BY <1>1, <1>2, PTL DEF Spec

(* creatorsvc's hold: whatever arrives or is requested between a request's  *)
(* reads and its post, no single withdrawal takes more than its creator had *)
(* ever earned and held for the whole hold period.                          *)
THEOREM WithdrawalsWaitForTheHold == Spec => []NoneBeforeTheHold
<1>1. IInv => NoneBeforeTheHold
  BY DEF IInv
<1>2. QED
  BY <1>1, Invariant, PTL

(* rejectOrFail: a payout's diamonds are back exactly when its record says  *)
(* that it was rejected or failed, unless a review of it is under way or    *)
(* was cut off after its reversal.                                          *)
THEOREM DiamondsComeBackWhenRejected == Spec => []ReversedIffReturned
<1>1. IInv => ReversedIffReturned
  BY DEF IInv, ReversalSound, ReversedIffReturned, Reviews, Free
<1>2. QED
  BY <1>1, Invariant, PTL

(* Update's second look under the row's lock: however stale the copies that *)
(* admins act on, a stored payout never skips a step of the state machine.  *)
THEOREM PayoutsMoveAlong == Spec => AlongTheStateMachine
<1>1. IInv /\ [Next]_vars => [Along]_vars
  BY NextStep
<1>2. Spec => [][Along]_vars
  BY <1>1, Invariant, PTL DEF Spec
<1>3. QED
  BY <1>2 DEF Along, AlongTheStateMachine
=============================================================================
