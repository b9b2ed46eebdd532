--------------------------- MODULE LedgerOpsProofs ---------------------------
(***************************************************************************)
(* Proofs about LedgerOps for any users, keys and entries: what posting    *)
(* and reversing do to a ledger value.  The modules that prove properties  *)
(* of the services that share the ledger rest on these.                    *)
(*                                                                         *)
(* First come facts about sums, which the double-entry law rests on: what  *)
(* the community modules' SumFunctionOnSet computes, for every finite set. *)
(* The induction theorems of the library quantify over operators, which    *)
(* the installed backends cannot instantiate; the induction here is over   *)
(* the least element of a set of naturals (theorem WFMin), which is a      *)
(* first-order statement.                                                  *)
(***************************************************************************)
EXTENDS LedgerOps, FiniteSetTheorems, TLAPS

-----------------------------------------------------------------------------
(* Induction *)

(* A nonempty set of naturals has a least element. *)
LEMMA LeastNatural ==
    ASSUME NEW T, T \subseteq Nat, T # {}
    PROVE  \E n \in T : \A m \in T : n <= m
<1> DEFINE R == {ss \in Nat \X Nat : ss[1] < ss[2]}
<1>1. OpToRel(<, Nat) = R
  BY DEF OpToRel
<1>2. IsWellFoundedOn(R, Nat)
  BY <1>1, NatLessThanWellFounded
<1> HIDE DEF R
<1>3. PICK n \in T : \A m \in T : ~ (<<m, n>> \in R)
  BY <1>2, WFMin
<1>4. \A m \in T : ~ (m < n)
  BY <1>3 DEF R
<1>5. QED
  BY <1>4

(* A set of naturals with 0 and every successor is Nat. *)
LEMMA SetInduction ==
    ASSUME NEW T, T \subseteq Nat, 0 \in T, \A n \in T : n + 1 \in T
    PROVE  T = Nat
<1> SUFFICES ASSUME T # Nat PROVE FALSE
  OBVIOUS
<1>1. Nat \ T # {}
  OBVIOUS
<1>2. PICK n \in Nat \ T : \A m \in Nat \ T : n <= m
  BY <1>1, LeastNatural
<1>3. n # 0 /\ n - 1 \in Nat /\ n - 1 \notin Nat \ T
  BY <1>2
<1>4. QED
  BY <1>2, <1>3

(* The element a fold takes next. *)
Picked(s) == CHOOSE x \in s : TRUE
Rest(s) == s \ {Picked(s)}

(* A set of subsets of a finite S that holds the empty set and every s      *)
(* whose Rest it holds, holds them all.                                     *)
LEMMA SubsetInduction ==
    ASSUME NEW S, IsFiniteSet(S), NEW P,
           {} \in P,
           \A s \in SUBSET S : s # {} /\ Rest(s) \in P => s \in P
    PROVE  \A s \in SUBSET S : s \in P
<1> DEFINE N == {n \in Nat : \A s \in SUBSET S : Cardinality(s) = n => s \in P}
<1>1. \A s \in SUBSET S : IsFiniteSet(s) /\ Cardinality(s) \in Nat
  BY FS_Subset, FS_CardinalityType
<1>2. 0 \in N
  BY <1>1, FS_EmptySet
<1>3. ASSUME NEW n \in N
      PROVE  n + 1 \in N
  <2> SUFFICES ASSUME NEW s \in SUBSET S, Cardinality(s) = n + 1
               PROVE  s \in P
    OBVIOUS
  <2>1. s # {}
    BY <1>1, FS_EmptySet
  <2>2. Picked(s) \in s
    BY <2>1 DEF Picked
  <2>3. Rest(s) \in SUBSET S /\ Cardinality(Rest(s)) = n
    BY <1>1, <2>2, FS_RemoveElement DEF Rest
  <2>4. QED
    BY <2>1, <2>3
<1>4. N = Nat
  <2> HIDE DEF N
  <2>1. N \subseteq Nat
    BY DEF N
  <2>2. QED
    BY <1>2, <1>3, <2>1, SetInduction
<1>5. QED
  BY <1>1, <1>4

-----------------------------------------------------------------------------
(* The fold *)

(* g is the table of sums that SumFunctionOnSet builds over the subsets. *)
IsSumTable(g, f, S) ==
    g = [s \in SUBSET S |-> IF s = {} THEN 0 ELSE f[Picked(s)] + g[Rest(s)]]

(* There is such a table. *)
LEMMA SumTableExists ==
    ASSUME NEW f, NEW S, IsFiniteSet(S)
    PROVE  \E g : IsSumTable(g, f, S)
<1> DEFINE Small(n) == {s \in SUBSET S : Cardinality(s) <= n}
           Part(g, n) == g = [s \in Small(n) |->
                                IF s = {} THEN 0 ELSE f[Picked(s)] + g[Rest(s)]]
           N == {n \in Nat : \E g : Part(g, n)}
<1>1. \A s \in SUBSET S : IsFiniteSet(s) /\ Cardinality(s) \in Nat
  BY FS_Subset, FS_CardinalityType
<1>2. ASSUME NEW s \in SUBSET S, s # {}
      PROVE  Rest(s) \in SUBSET S /\ Cardinality(Rest(s)) = Cardinality(s) - 1
  <2>1. Picked(s) \in s
    BY <1>2 DEF Picked
  <2>2. QED
    BY <1>1, <2>1, FS_RemoveElement DEF Rest
<1>3. 0 \in N
  <2>1. Small(0) = {{}}
    BY <1>1, FS_EmptySet
  <2>2. Part([s \in Small(0) |-> 0], 0)
    BY <2>1
  <2>3. QED
    BY <2>2
<1>4. ASSUME NEW n \in N
      PROVE  n + 1 \in N
  <2>1. PICK g : Part(g, n)
    OBVIOUS
  <2> DEFINE h == [s \in Small(n + 1) |->
                      IF s = {} THEN 0 ELSE f[Picked(s)] + g[Rest(s)]]
  <2>2. ASSUME NEW r \in Small(n)
        PROVE  h[r] = g[r]
    <3>1. r \in Small(n + 1)
      BY <1>1
    <3>2. QED
      BY <2>1, <3>1
  <2>3. \A s \in Small(n + 1) : s # {} => Rest(s) \in Small(n)
    BY <1>1, <1>2
  <2>4. Part(h, n + 1)
    BY <2>2, <2>3
  <2>5. \E k : Part(k, n + 1)
    <3> HIDE DEF h, Part
    <3>1. QED
      BY <2>4
  <2> HIDE DEF Part
  <2>6. QED
    BY <2>5
<1>5. N = Nat
  <2> HIDE DEF N
  <2>1. N \subseteq Nat
    BY DEF N
  <2>2. QED
    BY <1>3, <1>4, <2>1, SetInduction
<1>6. Cardinality(S) \in Nat /\ Small(Cardinality(S)) = SUBSET S
  BY <1>1, FS_Subset
<1>7. PICK g : Part(g, Cardinality(S))
  BY <1>5, <1>6
<1>8. IsSumTable(g, f, S)
  BY <1>6, <1>7 DEF IsSumTable
<1>9. QED
  BY <1>8

(* A sum is the entry of its own set in the table of that set. *)
LEMMA SumTable ==
    ASSUME NEW f, NEW S, IsFiniteSet(S)
    PROVE  \E g : IsSumTable(g, f, S) /\ SumFunctionOnSet(f, S) = g[S]
<1> DEFINE g == CHOOSE g : g = [s \in SUBSET S |->
                   IF s = {} THEN 0
                   ELSE f[CHOOSE x \in s : TRUE] + g[s \ {CHOOSE x \in s : TRUE}]]
<1>1. SumFunctionOnSet(f, S) = g[S]
  BY DEF SumFunctionOnSet, FoldFunctionOnSet, MapThenFoldSet
<1>2. g = CHOOSE h : IsSumTable(h, f, S)
  BY DEF IsSumTable, Picked, Rest
<1>3. IsSumTable(g, f, S)
  <2> HIDE DEF g
  <2>1. QED
    BY <1>2, SumTableExists
<1>4. QED
  BY <1>1, <1>3

(* Tables agree where both are defined. *)
LEMMA SumTablesAgree ==
    ASSUME NEW f, NEW S, IsFiniteSet(S), NEW T \in SUBSET S,
           NEW g, IsSumTable(g, f, S), NEW h, IsSumTable(h, f, T)
    PROVE  g[T] = h[T]
<1> DEFINE P == {s \in SUBSET T : g[s] = h[s]}
<1>1. IsFiniteSet(T)
  BY FS_Subset
<1>2. {} \in P
  BY DEF IsSumTable
<1>3. ASSUME NEW s \in SUBSET T, s # {}, Rest(s) \in P
      PROVE  s \in P
  <2>1. s \in SUBSET S
    OBVIOUS
  <2>2. g[s] = f[Picked(s)] + g[Rest(s)]
    BY <1>3, <2>1 DEF IsSumTable
  <2>3. h[s] = f[Picked(s)] + h[Rest(s)]
    BY <1>3 DEF IsSumTable
  <2>4. QED
    BY <1>3, <2>2, <2>3
<1>4. \A s \in SUBSET T : s \in P
  <2> HIDE DEF P
  <2>1. QED
    BY <1>1, <1>2, <1>3, SubsetInduction
<1>5. QED
  BY <1>4

(* The empty sum. *)
LEMMA SumEmpty == ASSUME NEW f PROVE SumFunctionOnSet(f, {}) = 0
<1>1. PICK g : IsSumTable(g, f, {}) /\ SumFunctionOnSet(f, {}) = g[{}]
  BY SumTable, FS_EmptySet
<1>2. QED
  BY <1>1 DEF IsSumTable

(* The recursion the fold runs. *)
LEMMA SumPicked ==
    ASSUME NEW f, NEW S, IsFiniteSet(S), S # {}
    PROVE  SumFunctionOnSet(f, S) = f[Picked(S)] + SumFunctionOnSet(f, Rest(S))
<1>1. PICK g : IsSumTable(g, f, S) /\ SumFunctionOnSet(f, S) = g[S]
  BY SumTable
<1>2. Rest(S) \in SUBSET S /\ IsFiniteSet(Rest(S))
  BY FS_Subset DEF Rest
<1>3. PICK h : IsSumTable(h, f, Rest(S)) /\ SumFunctionOnSet(f, Rest(S)) = h[Rest(S)]
  BY <1>2, SumTable
<1>4. g[Rest(S)] = h[Rest(S)]
  BY <1>1, <1>2, <1>3, SumTablesAgree
<1>5. g[S] = f[Picked(S)] + g[Rest(S)]
  BY <1>1 DEF IsSumTable
<1>6. QED
  BY <1>1, <1>3, <1>4, <1>5

-----------------------------------------------------------------------------
(* Sums of integers *)

(* A finite sum of integers is an integer. *)
LEMMA SumIsInt ==
    ASSUME NEW f, NEW S, IsFiniteSet(S), \A x \in S : f[x] \in Int
    PROVE  SumFunctionOnSet(f, S) \in Int
<1> DEFINE P == {s \in SUBSET S : SumFunctionOnSet(f, s) \in Int}
<1>1. {} \in P
  BY SumEmpty
<1>2. ASSUME NEW s \in SUBSET S, s # {}, Rest(s) \in P
      PROVE  s \in P
  <2>1. IsFiniteSet(s) /\ Picked(s) \in S
    BY <1>2, FS_Subset DEF Picked
  <2>2. SumFunctionOnSet(f, s) = f[Picked(s)] + SumFunctionOnSet(f, Rest(s))
    BY <1>2, <2>1, SumPicked
  <2>3. QED
    BY <1>2, <2>1, <2>2
<1>3. \A s \in SUBSET S : s \in P
  <2> HIDE DEF P
  <2>1. QED
    BY <1>1, <1>2, SubsetInduction
<1>4. QED
  BY <1>3

(* Any element may be taken first. *)
LEMMA SumTakeOut ==
    ASSUME NEW f, NEW S, IsFiniteSet(S), \A x \in S : f[x] \in Int, NEW x \in S
    PROVE  SumFunctionOnSet(f, S) = f[x] + SumFunctionOnSet(f, S \ {x})
<1> DEFINE N == {n \in Nat : \A s \in SUBSET S : Cardinality(s) = n =>
                    \A y \in s :
                        SumFunctionOnSet(f, s) = f[y] + SumFunctionOnSet(f, s \ {y})}
<1>1. \A s \in SUBSET S : IsFiniteSet(s) /\ Cardinality(s) \in Nat
  BY FS_Subset, FS_CardinalityType
<1>2. 0 \in N
  BY <1>1, FS_EmptySet
<1>3. ASSUME NEW n \in N
      PROVE  n + 1 \in N
  <2> SUFFICES ASSUME NEW s \in SUBSET S, Cardinality(s) = n + 1, NEW y \in s
               PROVE  SumFunctionOnSet(f, s) = f[y] + SumFunctionOnSet(f, s \ {y})
    OBVIOUS
  <2> DEFINE p == Picked(s)
  <2>1. IsFiniteSet(s) /\ p \in s
    BY <1>1 DEF Picked
  <2>2. SumFunctionOnSet(f, s) = f[p] + SumFunctionOnSet(f, s \ {p})
    BY <2>1, SumPicked DEF Rest
  <2> HIDE DEF p
  <2>3. CASE y = p
    BY <2>2, <2>3
  <2>4. CASE y # p
    <3>1. ASSUME NEW z \in s
          PROVE  s \ {z} \in SUBSET S /\ Cardinality(s \ {z}) = n
      <4>1. n \in Nat /\ s \ {z} \in SUBSET S
        OBVIOUS
      <4>2. Cardinality(s \ {z}) = Cardinality(s) - 1
        BY <2>1, FS_RemoveElement
      <4> HIDE DEF N
      <4>3. QED
        BY <4>1, <4>2
    <3>2. SumFunctionOnSet(f, s \ {p})
            = f[y] + SumFunctionOnSet(f, (s \ {p}) \ {y})
      BY <2>1, <2>4, <3>1
    <3>3. SumFunctionOnSet(f, s \ {y})
            = f[p] + SumFunctionOnSet(f, (s \ {y}) \ {p})
      BY <2>1, <2>4, <3>1
    <3>4. (s \ {p}) \ {y} = (s \ {y}) \ {p}
      OBVIOUS
    <3>5. SumFunctionOnSet(f, (s \ {y}) \ {p}) \in Int
      <4>1. IsFiniteSet((s \ {y}) \ {p}) /\ (s \ {y}) \ {p} \subseteq S
        BY <2>1, FS_Subset
      <4>2. QED
        BY <4>1, SumIsInt
    <3>6. f[y] \in Int /\ f[p] \in Int
      BY <2>1
    <3> DEFINE both == SumFunctionOnSet(f, (s \ {y}) \ {p})
    <3>7. /\ SumFunctionOnSet(f, s) = f[p] + (f[y] + both)
          /\ SumFunctionOnSet(f, s \ {y}) = f[p] + both
      BY <2>2, <3>2, <3>3, <3>4
    <3>8. both \in Int
      BY <3>5
    <3> HIDE DEF both
    <3>9. QED
      BY <3>6, <3>7, <3>8
  <2>5. QED
    BY <2>3, <2>4
<1>4. N = Nat
  <2> HIDE DEF N
  <2>1. N \subseteq Nat
    BY DEF N
  <2>2. QED
    BY <1>2, <1>3, <2>1, SetInduction
<1>5. QED
  BY <1>1, <1>4

(* A sum depends only on the summands. *)
LEMMA SumCongruence ==
    ASSUME NEW f, NEW g, NEW S, IsFiniteSet(S), \A x \in S : f[x] = g[x]
    PROVE  SumFunctionOnSet(f, S) = SumFunctionOnSet(g, S)
<1> DEFINE P == {s \in SUBSET S : SumFunctionOnSet(f, s) = SumFunctionOnSet(g, s)}
<1>1. {} \in P
  BY SumEmpty
<1>2. ASSUME NEW s \in SUBSET S, s # {}, Rest(s) \in P
      PROVE  s \in P
  <2>1. IsFiniteSet(s) /\ Picked(s) \in S
    BY <1>2, FS_Subset DEF Picked
  <2>2. SumFunctionOnSet(f, s) = f[Picked(s)] + SumFunctionOnSet(f, Rest(s))
    BY <1>2, <2>1, SumPicked
  <2>3. SumFunctionOnSet(g, s) = g[Picked(s)] + SumFunctionOnSet(g, Rest(s))
    BY <1>2, <2>1, SumPicked
  <2>4. QED
    BY <1>2, <2>1, <2>2, <2>3
<1>3. \A s \in SUBSET S : s \in P
  <2> HIDE DEF P
  <2>1. QED
    BY <1>1, <1>2, SubsetInduction
<1>4. QED
  BY <1>3

(* Sums add up. *)
LEMMA SumPointwise ==
    ASSUME NEW f, NEW g, NEW h, NEW S, IsFiniteSet(S),
           \A x \in S : f[x] \in Int /\ g[x] \in Int /\ h[x] = f[x] + g[x]
    PROVE  SumFunctionOnSet(h, S) = SumFunctionOnSet(f, S) + SumFunctionOnSet(g, S)
<1> DEFINE P == {s \in SUBSET S : SumFunctionOnSet(h, s)
                                    = SumFunctionOnSet(f, s) + SumFunctionOnSet(g, s)}
<1>1. {} \in P
  BY SumEmpty
<1>2. ASSUME NEW s \in SUBSET S, s # {}, Rest(s) \in P
      PROVE  s \in P
  <2> DEFINE p == Picked(s)
  <2>1. IsFiniteSet(s) /\ p \in S
    BY <1>2, FS_Subset DEF Picked
  <2>2. /\ SumFunctionOnSet(f, s) = f[p] + SumFunctionOnSet(f, Rest(s))
        /\ SumFunctionOnSet(g, s) = g[p] + SumFunctionOnSet(g, Rest(s))
        /\ SumFunctionOnSet(h, s) = h[p] + SumFunctionOnSet(h, Rest(s))
    BY <1>2, <2>1, SumPicked
  <2>3. SumFunctionOnSet(f, Rest(s)) \in Int /\ SumFunctionOnSet(g, Rest(s)) \in Int
    <3>1. IsFiniteSet(Rest(s)) /\ Rest(s) \subseteq S
      BY <2>1, FS_Subset DEF Rest
    <3>2. QED
      BY <3>1, SumIsInt
  <2>4. f[p] \in Int /\ g[p] \in Int /\ h[p] = f[p] + g[p]
    BY <2>1
  <2>5. SumFunctionOnSet(h, Rest(s))
          = SumFunctionOnSet(f, Rest(s)) + SumFunctionOnSet(g, Rest(s))
    BY <1>2
  <2> HIDE DEF p
  <2>6. QED
    BY <2>2, <2>3, <2>4, <2>5
<1>3. \A s \in SUBSET S : s \in P
  <2> HIDE DEF P
  <2>1. QED
    BY <1>1, <1>2, SubsetInduction
<1>4. QED
  BY <1>3

(* Summands that are zero may be left out. *)
LEMMA SumSupport ==
    ASSUME NEW f, NEW S, IsFiniteSet(S), NEW T, T \subseteq S,
           \A x \in S : f[x] \in Int, \A x \in S \ T : f[x] = 0
    PROVE  SumFunctionOnSet(f, S) = SumFunctionOnSet(f, T)
<1> DEFINE P == {s \in SUBSET S : SumFunctionOnSet(f, s)
                                    = SumFunctionOnSet(f, s \cap T)}
<1>1. {} \in P
  BY SumEmpty
<1>2. ASSUME NEW s \in SUBSET S, s # {}, Rest(s) \in P
      PROVE  s \in P
  <2> DEFINE p == Picked(s)
  <2>1. IsFiniteSet(s) /\ p \in s /\ f[p] \in Int
    BY <1>2, FS_Subset DEF Picked
  <2>2. SumFunctionOnSet(f, s) = f[p] + SumFunctionOnSet(f, Rest(s) \cap T)
    BY <1>2, <2>1, SumPicked
  <2>3. IsFiniteSet(s \cap T) /\ IsFiniteSet(Rest(s) \cap T)
    BY <2>1, FS_Subset DEF Rest
  <2>4. CASE p \in T
    <3>1. (s \cap T) \ {p} = Rest(s) \cap T
      BY DEF Rest
    <3>2. SumFunctionOnSet(f, s \cap T)
            = f[p] + SumFunctionOnSet(f, (s \cap T) \ {p})
      <4>1. \A x \in s \cap T : f[x] \in Int
        OBVIOUS
      <4>2. p \in s \cap T
        BY <2>1, <2>4
      <4> HIDE DEF p
      <4>3. QED
        BY <2>3, <4>1, <4>2, SumTakeOut
    <3>3. QED
      BY <2>2, <3>1, <3>2
  <2>5. CASE p \notin T
    <3>1. s \cap T = Rest(s) \cap T
      BY <2>5 DEF Rest
    <3>2. SumFunctionOnSet(f, Rest(s) \cap T) \in Int
      <4>1. \A x \in Rest(s) \cap T : f[x] \in Int
        BY DEF Rest
      <4>2. QED
        BY <2>3, <4>1, SumIsInt
    <3>3. f[p] = 0
      BY <2>1, <2>5
    <3>4. SumFunctionOnSet(f, s) = SumFunctionOnSet(f, Rest(s) \cap T)
      BY <2>2, <3>2, <3>3
    <3>5. QED
      BY <3>1, <3>4
  <2>6. QED
    BY <2>4, <2>5
<1>3. \A s \in SUBSET S : s \in P
  <2> HIDE DEF P
  <2>1. QED
    BY <1>1, <1>2, SubsetInduction
<1>4. S \cap T = T
  OBVIOUS
<1>5. QED
  BY <1>3, <1>4

(* A sum grows with its summands. *)
LEMMA SumMonotone ==
    ASSUME NEW f, NEW g, NEW S, IsFiniteSet(S),
           \A x \in S : f[x] \in Int /\ g[x] \in Int /\ f[x] <= g[x]
    PROVE  SumFunctionOnSet(f, S) <= SumFunctionOnSet(g, S)
<1> DEFINE P == {s \in SUBSET S : SumFunctionOnSet(f, s) <= SumFunctionOnSet(g, s)}
<1>1. {} \in P
  BY SumEmpty
<1>2. ASSUME NEW s \in SUBSET S, s # {}, Rest(s) \in P
      PROVE  s \in P
  <2> DEFINE p == Picked(s)
  <2>1. IsFiniteSet(s) /\ p \in S
    BY <1>2, FS_Subset DEF Picked
  <2>2. /\ SumFunctionOnSet(f, s) = f[p] + SumFunctionOnSet(f, Rest(s))
        /\ SumFunctionOnSet(g, s) = g[p] + SumFunctionOnSet(g, Rest(s))
    BY <1>2, <2>1, SumPicked
  <2>3. SumFunctionOnSet(f, Rest(s)) \in Int /\ SumFunctionOnSet(g, Rest(s)) \in Int
    <3>1. IsFiniteSet(Rest(s)) /\ Rest(s) \subseteq S
      BY <2>1, FS_Subset DEF Rest
    <3>2. QED
      BY <3>1, SumIsInt
  <2>4. f[p] \in Int /\ g[p] \in Int /\ f[p] <= g[p]
    BY <2>1
  <2>5. SumFunctionOnSet(f, Rest(s)) <= SumFunctionOnSet(g, Rest(s))
    BY <1>2
  <2> HIDE DEF p
  <2>6. QED
    BY <2>2, <2>3, <2>4, <2>5
<1>3. \A s \in SUBSET S : s \in P
  <2> HIDE DEF P
  <2>1. QED
    BY <1>1, <1>2, SubsetInduction
<1>4. QED
  BY <1>3

(* It grows with its set too, when what is added is not negative. *)
LEMMA SumGrows ==
    ASSUME NEW f, NEW S, IsFiniteSet(S), NEW T, T \subseteq S,
           \A x \in S : f[x] \in Int, \A x \in S \ T : f[x] >= 0
    PROVE  SumFunctionOnSet(f, T) <= SumFunctionOnSet(f, S)
<1> DEFINE z == [x \in S |-> IF x \in T THEN f[x] ELSE 0]
<1>1. \A x \in S : z[x] \in Int /\ z[x] <= f[x]
  OBVIOUS
<1>2. (\A x \in S \ T : z[x] = 0) /\ (\A x \in T : z[x] = f[x])
  OBVIOUS
<1>3. IsFiniteSet(T)
  BY FS_Subset
<1> HIDE DEF z
<1>4. SumFunctionOnSet(z, S) = SumFunctionOnSet(z, T)
  BY <1>1, <1>2, SumSupport
<1>5. SumFunctionOnSet(z, T) = SumFunctionOnSet(f, T)
  BY <1>2, <1>3, SumCongruence
<1>6. SumFunctionOnSet(z, S) <= SumFunctionOnSet(f, S)
  BY <1>1, SumMonotone
<1>7. QED
  BY <1>4, <1>5, <1>6

(* A sum of naturals is one. *)
LEMMA SumIsNat ==
    ASSUME NEW f, NEW S, IsFiniteSet(S), \A x \in S : f[x] \in Nat
    PROVE  SumFunctionOnSet(f, S) \in Nat
<1>1. SumFunctionOnSet(f, {}) <= SumFunctionOnSet(f, S)
  BY SumGrows
<1>2. SumFunctionOnSet(f, S) \in Int
  BY SumIsInt
<1>3. QED
  BY <1>1, <1>2, SumEmpty

(* The sum of two summands. *)
LEMMA SumOfTwo ==
    ASSUME NEW f, NEW x, NEW y, x # y, f[x] \in Int, f[y] \in Int
    PROVE  SumFunctionOnSet(f, {x, y}) = f[x] + f[y]
<1>1. IsFiniteSet({x, y}) /\ IsFiniteSet({y})
  BY FS_AddElement, FS_Singleton
<1>2. {x, y} \ {x} = {y} /\ {y} \ {y} = {}
  OBVIOUS
<1>3. SumFunctionOnSet(f, {x, y}) = f[x] + SumFunctionOnSet(f, {y})
  BY <1>1, <1>2, SumTakeOut
<1>4. SumFunctionOnSet(f, {y}) = f[y] + SumFunctionOnSet(f, {})
  BY <1>1, <1>2, SumTakeOut
<1>5. QED
  BY <1>3, <1>4, SumEmpty

-----------------------------------------------------------------------------
(* What one ledger value satisfies, in memory or on disk. *)

(* No wallet of L is below zero. *)
Solvent(L) == \A a \in Wallets : L.balances[a] >= 0

(* A transaction is a reversal exactly when it names an original, and then  *)
(* the original is an earlier transaction that is no reversal itself, has   *)
(* the opposite entries and is on record as reversed by this one.           *)
RefundsNoted(L) ==
    \A i \in 1..L.seq :
        LET o == L.byID[i].of IN
        /\ L.byID[i].kind = "reversal" <=> o # 0
        /\ o # 0 => /\ o < i
                    /\ L.byID[o].kind # "reversal"
                    /\ L.byID[i].entries = Negated(L.byID[o].entries)
                    /\ o \in DOMAIN L.reversalOf
                    /\ L.reversalOf[o] = i

(* The double entry: every balance counts somewhere else with the opposite  *)
(* sign, so the balances of a currency sum to zero.                         *)
BooksClose(L) ==
    /\ SumOver(L.balances, CoinAccounts) = 0
    /\ SumOver(L.balances, DiamondAccounts) = 0

(* The amounts of an account's history, and that they add up to its balance. *)
Amounts(L, a) == [i \in DOMAIN L.byAcct[a] |-> L.byAcct[a][i].amount]
HistoryAddsUp(L) == \A a \in Accounts : L.balances[a] = SumFunction(Amounts(L, a))

Sound(L) ==
    /\ IsLedger(L)
    /\ Solvent(L)
    /\ RefundsNoted(L)
    /\ BooksClose(L)
    /\ HistoryAddsUp(L)

-----------------------------------------------------------------------------
(* Lemmas about the operators *)

(* A balance key is never both a wallet and a platform account's: stated as *)
(* the direction the overdraft check needs.                                 *)
LEMMA AccountsSplit == Accounts \ PlatformAccounts \subseteq Wallets
BY DEF Accounts

(* The sign flip of a transaction's entries is again a map of entries. *)
LEMMA NegatedType ==
    ASSUME NEW e, IsEntries(e)
    PROVE  IsEntries(Negated(e))
BY DEF IsEntries, Negated

(* postLocked either leaves the ledger alone or, for an unused key and a    *)
(* covered set of entries, applies it.                                      *)
LEMMA PostLockedCases ==
    ASSUME NEW L, NEW kind, NEW key, NEW e, NEW of,
           NEW r, r = PostLocked(L, kind, key, e, of)
    PROVE  \/ r.ledger = L /\ ~ r.isNew
           \/ /\ r.ledger = Applied(L, kind, key, e, of)
              /\ r.isNew
              /\ r.tx = L.seq + 1
              /\ L.byKey[key] = 0
              /\ Covered(L, e) /\ Balanced(e)
<1>1. CASE L.byKey[key] # 0
  BY <1>1 DEF PostLocked, Reply
<1>2. CASE L.byKey[key] = 0 /\ PostError(L, e) # "nil"
  BY <1>2 DEF PostLocked, Reply
<1>3. CASE L.byKey[key] = 0 /\ PostError(L, e) = "nil"
  <2>1. Covered(L, e) /\ Balanced(e)
    BY <1>3 DEF PostError
  <2>2. QED
    BY <1>3, <2>1 DEF PostLocked, Reply
<1>4. QED
  BY <1>1, <1>2, <1>3

(* Applying a transaction keeps the types: balances stay integers, the new  *)
(* id is the next one, its key and its history items point to it.           *)
LEMMA AppliedType ==
    ASSUME NEW L, IsLedger(L), NEW kind \in Kinds, NEW key \in Keys,
           NEW e, IsEntries(e), NEW of \in Nat
    PROVE  IsLedger(Applied(L, kind, key, e, of))
<1> DEFINE M == Applied(L, kind, key, e, of)
           id == L.seq + 1
<1>1. L.seq \in Nat /\ id \in Nat
  BY DEF IsLedger
<1>2. M.balances \in [Accounts -> Int]
  <2>1. \A a \in Accounts : L.balances[a] \in Int
    BY DEF IsLedger
  <2>2. \A a \in DOMAIN e : e[a] \in Int
    BY DEF IsEntries
  <2>3. QED
    BY <2>1, <2>2 DEF Applied, Proposed
<1>3. M.seq = id
  BY DEF Applied
<1>4. M.byKey \in [Keys -> 0..M.seq]
  BY <1>1 DEF Applied, IsLedger
<1>5. /\ M.byID = [i \in 1..M.seq |-> M.byID[i]]
      /\ \A i \in 1..M.seq : IsTransaction(M.byID[i])
  <2>1. IsTransaction([kind |-> kind, key |-> key, entries |-> e, of |-> of])
    BY DEF IsTransaction
  <2>2. \A i \in 1..id : i # id => i \in 1..L.seq
    BY <1>1
  <2>3. QED
    BY <1>1, <2>1, <2>2 DEF Applied, IsLedger
<1>6. M.byAcct \in [Accounts -> Seq(HistoryItem)]
  <2>1. ASSUME NEW a \in Accounts, a \in DOMAIN e
        PROVE  Append(L.byAcct[a], [tx |-> id, amount |-> e[a]]) \in Seq(HistoryItem)
    <3>1. e[a] \in Int
      BY <2>1 DEF IsEntries
    <3>2. [tx |-> id, amount |-> e[a]] \in HistoryItem
      BY <1>1, <3>1 DEF HistoryItem
    <3>3. L.byAcct[a] \in Seq(HistoryItem)
      BY DEF IsLedger
    <3>4. QED
      BY <3>2, <3>3
  <2>2. \A a \in Accounts : L.byAcct[a] \in Seq(HistoryItem)
    BY DEF IsLedger
  <2>3. QED
    BY <2>1, <2>2 DEF Applied
<1>7. /\ DOMAIN M.reversalOf \subseteq 1..M.seq
      /\ M.reversalOf \in [DOMAIN M.reversalOf -> 1..M.seq]
  <2>1. M.reversalOf = L.reversalOf
    BY DEF Applied
  <2>2. 1..L.seq \subseteq 1..M.seq
    BY <1>1, <1>3
  <2>3. QED
    BY <2>1, <2>2 DEF IsLedger
<1>8. M = [balances |-> M.balances, seq |-> M.seq, byKey |-> M.byKey,
           byID |-> M.byID, byAcct |-> M.byAcct, reversalOf |-> M.reversalOf]
  BY DEF Applied
<1>9. QED
  <2> HIDE DEF M
  <2>1. M \in [balances : [Accounts -> Int], seq : Nat, byID : {M.byID},
               byKey : [Keys -> 0..M.seq], byAcct : [Accounts -> Seq(HistoryItem)],
               reversalOf : {M.reversalOf}]
    BY <1>1, <1>2, <1>3, <1>4, <1>6, <1>8
  <2>2. IsLedger(M)
    BY <2>1, <1>5, <1>7 DEF IsLedger
  <2>3. QED
    BY <2>2 DEF M

(* A transaction that postLocked accepts leaves every wallet solvent. *)
LEMMA AppliedSolvent ==
    ASSUME NEW L, IsLedger(L), Solvent(L), NEW kind, NEW key,
           NEW e, IsEntries(e), NEW of, Covered(L, e)
    PROVE  Solvent(Applied(L, kind, key, e, of))
<1> SUFFICES ASSUME NEW a \in Wallets
             PROVE  Applied(L, kind, key, e, of).balances[a] >= 0
  BY DEF Solvent
<1>1. a \in Accounts /\ a \notin PlatformAccounts
  BY DEF Accounts, Wallets, PlatformAccounts, Coins, Diamonds,
         Revenue, Liability, DiamondLiability
<1>2. L.balances[a] \in Int /\ L.balances[a] >= 0
  BY <1>1 DEF IsLedger, Solvent
<1>3. Applied(L, kind, key, e, of).balances[a]
        = L.balances[a] + (IF a \in DOMAIN e THEN e[a] ELSE 0)
  BY <1>1 DEF Applied, Proposed
<1>4. CASE a \in DOMAIN e
  BY <1>1, <1>2, <1>3, <1>4 DEF Covered
<1>5. CASE a \notin DOMAIN e
  BY <1>2, <1>3, <1>5
<1>6. QED
  BY <1>4, <1>5

(* There are finitely many accounts. *)
LEMMA AccountsFinite == IsFiniteSet(Accounts)
<1>1. IsFiniteSet({Coins(u) : u \in Users})
  <2> DEFINE f == [u \in Users |-> Coins(u)]
  <2>1. f \in Surjection(Users, {Coins(u) : u \in Users})
    BY DEF Surjection
  <2>2. QED
    BY <2>1, UsersAssumption, FS_Surjection
<1>2. IsFiniteSet({Diamonds(u) : u \in Users})
  <2> DEFINE f == [u \in Users |-> Diamonds(u)]
  <2>1. f \in Surjection(Users, {Diamonds(u) : u \in Users})
    BY DEF Surjection
  <2>2. QED
    BY <2>1, UsersAssumption, FS_Surjection
<1>3. IsFiniteSet(PlatformAccounts)
  <2>1. IsFiniteSet({Revenue}) /\ IsFiniteSet({Liability}) /\ IsFiniteSet({DiamondLiability})
    BY FS_Singleton
  <2>2. PlatformAccounts = {Revenue} \cup {Liability} \cup {DiamondLiability}
    BY DEF PlatformAccounts
  <2>3. QED
    BY <2>1, <2>2, FS_Union
<1>4. QED
  BY <1>1, <1>2, <1>3, FS_Union DEF Accounts, Wallets

(* Posting entries adds their sum to the sum of the balances, over any set  *)
(* of accounts.                                                             *)
LEMMA ProposedSum ==
    ASSUME NEW L, IsLedger(L), NEW e, IsEntries(e), NEW S
    PROVE  SumOver(Proposed(L, e), S) = SumOver(L.balances, S) + SumOver(e, S)
<1> DEFINE A == Accounts \cap S
           h == Proposed(L, e)
           g == [a \in Accounts |-> IF a \in DOMAIN e THEN e[a] ELSE 0]
<1>1. IsFiniteSet(A) /\ IsFiniteSet(DOMAIN e \cap S)
  <2>1. DOMAIN e \cap S \subseteq Accounts
    BY DEF IsEntries
  <2>2. QED
    BY <2>1, AccountsFinite, FS_Subset
<1>2. DOMAIN h = Accounts /\ DOMAIN L.balances = Accounts
  BY DEF Proposed, IsLedger
<1>3. \A a \in Accounts : /\ L.balances[a] \in Int /\ g[a] \in Int
                          /\ h[a] = L.balances[a] + g[a]
  BY DEF Proposed, IsLedger, IsEntries
<1>4. SumFunctionOnSet(h, A) = SumFunctionOnSet(L.balances, A) + SumFunctionOnSet(g, A)
  <2>1. \A a \in A : /\ L.balances[a] \in Int /\ g[a] \in Int
                     /\ h[a] = L.balances[a] + g[a]
    BY <1>3
  <2> HIDE DEF A, g, h
  <2>2. QED
    BY <1>1, <2>1, SumPointwise
<1>5. SumFunctionOnSet(g, A) = SumFunctionOnSet(g, DOMAIN e \cap S)
  <2>1. DOMAIN e \cap S \subseteq A /\ \A a \in A \ (DOMAIN e \cap S) : g[a] = 0
    BY DEF IsEntries
  <2>2. \A a \in A : g[a] \in Int
    BY <1>3
  <2> HIDE DEF A, g, h
  <2>3. QED
    BY <1>1, <2>1, <2>2, SumSupport
<1>6. SumFunctionOnSet(g, DOMAIN e \cap S) = SumFunctionOnSet(e, DOMAIN e \cap S)
  <2>1. \A a \in DOMAIN e \cap S : g[a] = e[a]
    BY DEF IsEntries
  <2> HIDE DEF g
  <2>2. QED
    BY <1>1, <2>1, SumCongruence
<1>7. QED
  BY <1>2, <1>4, <1>5, <1>6 DEF SumOver

(* A balanced transaction leaves the books closed. *)
LEMMA AppliedBooks ==
    ASSUME NEW L, IsLedger(L), BooksClose(L), NEW kind, NEW key,
           NEW e, IsEntries(e), Balanced(e), NEW of
    PROVE  BooksClose(Applied(L, kind, key, e, of))
<1>1. Applied(L, kind, key, e, of).balances = Proposed(L, e)
  BY DEF Applied
<1>2. QED
  BY <1>1, ProposedSum DEF BooksClose, Balanced

(* Every leg is added to its account's balance and to its history. *)
LEMMA AppliedHistory ==
    ASSUME NEW L, IsLedger(L), HistoryAddsUp(L), NEW kind, NEW key,
           NEW e, IsEntries(e), NEW of
    PROVE  HistoryAddsUp(Applied(L, kind, key, e, of))
<1> DEFINE M == Applied(L, kind, key, e, of)
<1> SUFFICES ASSUME NEW a \in Accounts
             PROVE  M.balances[a] = SumFunction(Amounts(M, a))
  BY DEF HistoryAddsUp
<1> DEFINE h == L.byAcct[a]
           n == Len(h)
           old == Amounts(L, a)
           new == Amounts(M, a)
<1>1. h \in Seq(HistoryItem) /\ n \in Nat /\ DOMAIN h = 1..n
  BY DEF IsLedger
<1>2. L.balances[a] = SumFunctionOnSet(old, 1..n)
  BY <1>1 DEF HistoryAddsUp, SumFunction, Amounts
<1>3. CASE a \notin DOMAIN e
  <2>1. M.balances[a] = L.balances[a] /\ M.byAcct[a] = L.byAcct[a]
    BY <1>3 DEF Applied, Proposed, IsLedger
  <2>2. QED
    BY <2>1 DEF HistoryAddsUp, Amounts
<1>4. CASE a \in DOMAIN e
  <2>1. M.balances[a] = L.balances[a] + e[a]
    BY <1>4 DEF Applied, Proposed
  <2>2. M.byAcct[a] = Append(h, [tx |-> L.seq + 1, amount |-> e[a]])
    BY <1>4 DEF Applied
  <2>3. /\ DOMAIN M.byAcct[a] = 1..(n + 1)
        /\ \A i \in 1..n : M.byAcct[a][i] = h[i]
        /\ M.byAcct[a][n + 1] = [tx |-> L.seq + 1, amount |-> e[a]]
    <3> HIDE DEF M
    <3>1. QED
      BY <1>1, <2>2
  <2> HIDE DEF M
  <2>4. /\ DOMAIN new = 1..(n + 1)
        /\ \A i \in 1..n : new[i] = old[i] /\ old[i] \in Int
        /\ new[n + 1] = e[a] /\ e[a] \in Int
    <3>1. \A i \in 1..n : h[i].amount \in Int
      <4> HIDE DEF h, n
      <4>1. \A i \in 1..n : h[i] \in HistoryItem
        BY <1>1
      <4>2. QED
        BY <4>1 DEF HistoryItem
    <3>2. e[a] \in Int
      BY <1>4 DEF IsEntries
    <3>3. n + 1 \in 1..(n + 1) /\ \A i \in 1..n : i \in 1..(n + 1)
      BY <1>1
    <3>4. /\ old = [i \in 1..n |-> h[i].amount]
          /\ new = [i \in 1..(n + 1) |-> M.byAcct[a][i].amount]
      BY <1>1, <2>3 DEF Amounts
    <3> HIDE DEF h, n, old, new
    <3>5. DOMAIN new = 1..(n + 1)
      BY <3>4
    <3>6. ASSUME NEW i \in 1..n
          PROVE  new[i] = old[i] /\ old[i] \in Int
      <4>1. old[i] = h[i].amount /\ new[i] = M.byAcct[a][i].amount
        BY <3>3, <3>4
      <4>2. QED
        BY <2>3, <3>1, <4>1
    <3>7. new[n + 1] = e[a]
      <4>1. new[n + 1] = M.byAcct[a][n + 1].amount
        BY <3>3, <3>4
      <4>2. QED
        BY <2>3, <4>1
    <3>8. QED
      BY <3>2, <3>5, <3>6, <3>7
  <2>5. IsFiniteSet(1..n) /\ IsFiniteSet(1..(n + 1))
    BY <1>1, FS_Interval
  <2>6. (1..(n + 1)) \ {n + 1} = 1..n /\ n + 1 \in 1..(n + 1)
    BY <1>1
  <2>7. \A i \in 1..(n + 1) : new[i] \in Int
    BY <1>1, <2>4
  <2> HIDE DEF h, n, old, new
  <2>8. SumFunctionOnSet(new, 1..(n + 1)) = new[n + 1] + SumFunctionOnSet(new, 1..n)
    <3> DEFINE S == 1..(n + 1)
               last == n + 1
    <3>1. IsFiniteSet(S) /\ last \in S /\ \A i \in S : new[i] \in Int
      BY <2>5, <2>6, <2>7
    <3>2. S \ {last} = 1..n
      BY <2>6
    <3> HIDE DEF S, last
    <3>3. SumFunctionOnSet(new, S) = new[last] + SumFunctionOnSet(new, S \ {last})
      BY <3>1, SumTakeOut
    <3>4. QED
      BY <3>2, <3>3 DEF S, last
  <2>9. SumFunctionOnSet(new, 1..n) = SumFunctionOnSet(old, 1..n)
    BY <2>4, <2>5, SumCongruence
  <2>10. SumFunctionOnSet(old, 1..n) \in Int
    BY <2>4, <2>5, SumIsInt
  <2>11. SumFunction(new) = SumFunctionOnSet(new, 1..(n + 1))
    BY <2>4 DEF SumFunction
  <2>12. M.balances[a] = SumFunction(new)
    BY <1>2, <2>1, <2>4, <2>8, <2>9, <2>10, <2>11
  <2>13. QED
    BY <2>12 DEF new
<1>5. QED
  BY <1>3, <1>4

(* PostTransaction, whatever it answers, leaves a sound ledger sound. *)
LEMMA PostSound ==
    ASSUME NEW L, Sound(L), NEW kind \in Kinds \ {"reversal"},
           NEW key \in Keys, NEW e, IsEntries(e)
    PROVE  Sound(Post(L, kind, key, e).ledger)
<1> DEFINE M == Applied(L, kind, key, e, 0)
<1>1. CASE Post(L, kind, key, e).ledger = L
  BY <1>1
<1>2. CASE Post(L, kind, key, e).ledger = M /\ Covered(L, e) /\ Balanced(e)
  <2>1. IsLedger(M)
    BY AppliedType DEF Sound
  <2>2. Solvent(M)
    BY <1>2, AppliedSolvent DEF Sound
  <2>3. RefundsNoted(M)
    <3>1. L.seq \in Nat /\ M.seq = L.seq + 1 /\ M.reversalOf = L.reversalOf
      BY DEF Sound, IsLedger, Applied
    <3>2. M.byID[M.seq].of = 0 /\ M.byID[M.seq].kind = kind
      BY <3>1 DEF Applied
    <3>3. \A i \in 1..L.seq : M.byID[i] = L.byID[i]
      BY <3>1 DEF Applied
    <3>4. ASSUME NEW i \in 1..L.seq
          PROVE  L.byID[i].of \in Nat
      BY DEF Sound, IsLedger, IsTransaction
    <3> HIDE DEF M
    <3>5. \A i \in 1..M.seq : i = M.seq \/ i \in 1..L.seq
      BY <3>1
    <3>6. ASSUME NEW i \in 1..L.seq, L.byID[i].of # 0, L.byID[i].of < i
          PROVE  L.byID[i].of \in 1..L.seq
      BY <3>1, <3>4, <3>6
    <3>7. QED
      BY <3>1, <3>2, <3>3, <3>4, <3>5, <3>6 DEF RefundsNoted, Sound
  <2>4. BooksClose(M) /\ HistoryAddsUp(M)
    BY <1>2, AppliedBooks, AppliedHistory DEF Sound
  <2>5. QED
    BY <1>2, <2>1, <2>2, <2>3, <2>4 DEF Sound
<1>3. QED
  BY <1>1, <1>2, PostLockedCases DEF Post

(* ReverseTransaction either changes nothing or applies the opposite of an  *)
(* earlier, unreversed transaction under an unused key and takes note.      *)
LEMMA ReverseCases ==
    ASSUME NEW L, IsLedger(L), NEW id, NEW key,
           NEW r, r = Reverse(L, id, key)
    PROVE  \/ r.ledger = L
           \/ LET e == Negated(L.byID[id].entries) IN
              /\ r.ledger = NoteReversal(Applied(L, "reversal", key, e, id), id, L.seq + 1)
              /\ L.byKey[key] = 0
              /\ Covered(L, e) /\ Balanced(e)
              /\ id \in 1..L.seq
              /\ L.byID[id].kind # "reversal"
              /\ id \notin DOMAIN L.reversalOf
<1> DEFINE e == Negated(L.byID[id].entries)
           p == PostLocked(L, "reversal", key, e, id)
<1>1. CASE L.byKey[key] # 0
  BY <1>1 DEF Reverse, Reply
<1>2. CASE L.byKey[key] = 0 /\ ReverseError(L, id) # "nil"
  BY <1>2 DEF Reverse, Reply
<1>3. CASE L.byKey[key] = 0 /\ ReverseError(L, id) = "nil"
  <2>1. /\ id \in 1..L.seq
        /\ L.byID[id].kind # "reversal"
        /\ id \notin DOMAIN L.reversalOf
    BY <1>3 DEF ReverseError
  <2>2. r = IF p.isNew THEN [p EXCEPT !.ledger = NoteReversal(p.ledger, id, p.tx)] ELSE p
    BY <1>3 DEF Reverse
  <2>3. p = [ledger |-> p.ledger, tx |-> p.tx, isNew |-> p.isNew, err |-> p.err]
    BY DEF PostLocked, Reply
  <2>4. \/ p.ledger = L /\ ~ p.isNew
        \/ /\ p.ledger = Applied(L, "reversal", key, e, id)
           /\ p.isNew
           /\ p.tx = L.seq + 1
           /\ Covered(L, e) /\ Balanced(e)
    BY PostLockedCases
  <2> HIDE DEF p
  <2>5. QED
    BY <1>3, <2>1, <2>2, <2>3, <2>4
<1>4. QED
  BY <1>1, <1>2, <1>3

(* Noting a reversal of one of the ledger's own transactions changes only   *)
(* reversalOf, and keeps its type.                                          *)
LEMMA NoteReversalType ==
    ASSUME NEW L, IsLedger(L), NEW id \in 1..L.seq, NEW rev \in 1..L.seq
    PROVE  LET M == NoteReversal(L, id, rev) IN
           /\ IsLedger(M)
           /\ M.balances = L.balances /\ M.seq = L.seq /\ M.byID = L.byID
           /\ M.byKey = L.byKey /\ M.byAcct = L.byAcct
           /\ DOMAIN M.reversalOf = DOMAIN L.reversalOf \cup {id}
           /\ M.reversalOf[id] = rev
           /\ \A i \in DOMAIN L.reversalOf : i # id => M.reversalOf[i] = L.reversalOf[i]
<1> DEFINE M == NoteReversal(L, id, rev)
           R == [i \in DOMAIN L.reversalOf \cup {id} |->
                    IF i = id THEN rev ELSE L.reversalOf[i]]
<1>1. L = [balances |-> L.balances, seq |-> L.seq, byKey |-> L.byKey,
           byID |-> L.byID, byAcct |-> L.byAcct, reversalOf |-> L.reversalOf]
  BY DEF IsLedger
<1>2. M = [balances |-> L.balances, seq |-> L.seq, byKey |-> L.byKey,
           byID |-> L.byID, byAcct |-> L.byAcct, reversalOf |-> R]
  BY <1>1 DEF NoteReversal
<1>3. R \in [DOMAIN L.reversalOf \cup {id} -> 1..L.seq]
  BY DEF IsLedger
<1>4. DOMAIN R \subseteq 1..L.seq
  BY DEF IsLedger
<1>5. /\ M.balances = L.balances /\ M.seq = L.seq /\ M.byID = L.byID
      /\ M.byKey = L.byKey /\ M.byAcct = L.byAcct /\ M.reversalOf = R
  BY <1>2
<1>6. DOMAIN R = DOMAIN L.reversalOf \cup {id}
  OBVIOUS
<1>7. IsLedger(M)
  <2> HIDE DEF M, R
  <2>1. M \in [balances : [Accounts -> Int], seq : Nat, byID : {M.byID},
               byKey : [Keys -> 0..M.seq], byAcct : [Accounts -> Seq(HistoryItem)],
               reversalOf : {M.reversalOf}]
    BY <1>2, <1>5 DEF IsLedger
  <2>2. /\ DOMAIN M.reversalOf \subseteq 1..M.seq
        /\ M.reversalOf \in [DOMAIN M.reversalOf -> 1..M.seq]
    BY <1>3, <1>4, <1>5, <1>6
  <2>3. QED
    BY <1>5, <2>1, <2>2 DEF IsLedger
<1>8. QED
  BY <1>5, <1>6, <1>7

(* ReverseTransaction leaves a sound ledger sound: the reversal is the      *)
(* first of its original, because reversalOf remembers every earlier one.   *)
LEMMA ReverseSound ==
    ASSUME NEW L, Sound(L), NEW id, NEW key \in Keys
    PROVE  Sound(Reverse(L, id, key).ledger)
<1> DEFINE N == Reverse(L, id, key).ledger
           e == Negated(L.byID[id].entries)
           A == Applied(L, "reversal", key, e, id)
           M == NoteReversal(A, id, L.seq + 1)
<1>1. CASE N = L
  BY <1>1
<1>2. CASE /\ N = M /\ Covered(L, e) /\ Balanced(e) /\ id \in 1..L.seq
           /\ L.byID[id].kind # "reversal" /\ id \notin DOMAIN L.reversalOf
  <2>1. L.seq \in Nat /\ id \in Nat /\ id # 0
    BY <1>2 DEF Sound, IsLedger
  <2>2. IsEntries(e)
    BY <1>2, NegatedType DEF Sound, IsLedger, IsTransaction
  <2>3. IsLedger(A)
    <3>1. IsLedger(L)
      BY DEF Sound
    <3>2. "reversal" \in Kinds
      BY DEF Kinds
    <3> HIDE DEF e
    <3>3. QED
      BY <2>1, <2>2, <3>1, <3>2, AppliedType
  <2>4. Solvent(A)
    BY <1>2, <2>2, AppliedSolvent DEF Sound
  <2>5. /\ A.seq = L.seq + 1 /\ A.reversalOf = L.reversalOf
        /\ \A i \in 1..L.seq : A.byID[i] = L.byID[i]
    BY <2>1 DEF Applied
  <2>6. A.byID[A.seq] = [kind |-> "reversal", key |-> key, entries |-> e, of |-> id]
    BY <2>1, <2>5 DEF Applied
  <2>7. id \in 1..A.seq /\ L.seq + 1 \in 1..A.seq
    BY <1>2, <2>1, <2>5
  <2>8. /\ IsLedger(M)
        /\ M.balances = A.balances /\ M.seq = A.seq /\ M.byID = A.byID
        /\ M.byAcct = A.byAcct
        /\ DOMAIN M.reversalOf = DOMAIN L.reversalOf \cup {id}
        /\ M.reversalOf[id] = L.seq + 1
        /\ \A i \in DOMAIN L.reversalOf : i # id => M.reversalOf[i] = L.reversalOf[i]
    BY <2>3, <2>5, <2>7, NoteReversalType
  <2>9. Solvent(M)
    BY <2>4, <2>8 DEF Solvent
  <2>10. RefundsNoted(M)
    <3> HIDE DEF A, M, e
    <3>1. M.seq = L.seq + 1
      BY <2>5, <2>8
    <3>2. SUFFICES ASSUME NEW i \in 1..M.seq
                   PROVE  LET o == M.byID[i].of IN
                          /\ M.byID[i].kind = "reversal" <=> o # 0
                          /\ o # 0 => /\ o < i
                                      /\ M.byID[o].kind # "reversal"
                                      /\ M.byID[i].entries = Negated(M.byID[o].entries)
                                      /\ o \in DOMAIN M.reversalOf
                                      /\ M.reversalOf[o] = i
      BY DEF RefundsNoted
    <3>3. CASE i = M.seq
      <4>1. M.byID[i] = [kind |-> "reversal", key |-> key, entries |-> e, of |-> id]
        BY <3>3, <2>6, <2>8
      <4>2. M.byID[id] = L.byID[id]
        BY <1>2, <2>5, <2>8
      <4>3. id < i
        BY <1>2, <2>1, <3>1, <3>3
      <4>4. QED
        BY <1>2, <2>1, <2>8, <3>1, <3>3, <4>1, <4>2, <4>3 DEF e
    <3>4. CASE i \in 1..L.seq
      <4>1. M.byID[i] = L.byID[i] /\ L.byID[i].of \in Nat
        BY <2>5, <2>8, <3>4 DEF Sound, IsLedger, IsTransaction
      <4> DEFINE o == L.byID[i].of
      <4>2. CASE o = 0
        BY <3>4, <4>1, <4>2 DEF Sound, RefundsNoted
      <4>3. CASE o # 0
        <5>1. /\ L.byID[i].kind = "reversal" /\ o < i
              /\ L.byID[o].kind # "reversal"
              /\ L.byID[i].entries = Negated(L.byID[o].entries)
              /\ o \in DOMAIN L.reversalOf
              /\ L.reversalOf[o] = i
          BY <3>4, <4>3 DEF Sound, RefundsNoted
        <5>2. o \in 1..L.seq
          BY <2>1, <3>4, <4>1, <4>3, <5>1
        <5>3. M.byID[o] = L.byID[o]
          BY <2>5, <2>8, <5>2
        <5>4. o # id
          BY <1>2, <5>1
        <5>5. QED
          BY <2>8, <4>1, <4>3, <5>1, <5>3, <5>4
      <4>4. QED
        BY <4>2, <4>3
    <3>5. QED
      BY <2>1, <3>1, <3>3, <3>4
  <2>11. BooksClose(M) /\ HistoryAddsUp(M)
    <3>1. BooksClose(A) /\ HistoryAddsUp(A)
      BY <1>2, <2>2, AppliedBooks, AppliedHistory DEF Sound
    <3> HIDE DEF A, M
    <3>2. QED
      BY <2>8, <3>1 DEF BooksClose, HistoryAddsUp, Amounts
  <2>12. QED
    BY <1>2, <2>8, <2>9, <2>10, <2>11 DEF Sound
<1>3. QED
  BY <1>1, <1>2, ReverseCases DEF Sound

(* A new server has an empty, sound ledger. *)
LEMMA NewLedgerSound == Sound(NewMemLedger) /\ NewMemLedger.seq = 0
<1> DEFINE L == NewMemLedger
<1>1. /\ L.seq = 0 /\ L.byID = << >> /\ L.reversalOf = << >>
      /\ L.balances = [a \in Accounts |-> 0]
      /\ L.byKey = [k \in Keys |-> 0]
      /\ L.byAcct = [a \in Accounts |-> << >>]
  BY DEF NewMemLedger
<1>2. L \in [balances : [Accounts -> Int], seq : Nat, byID : {L.byID},
             byKey : [Keys -> 0..L.seq], byAcct : [Accounts -> Seq(HistoryItem)],
             reversalOf : {L.reversalOf}]
  BY <1>1 DEF NewMemLedger
<1>3. 1..L.seq = {} /\ DOMAIN L.reversalOf = {} /\ DOMAIN L.byID = {}
  BY <1>1
<1>4. /\ L.byID = [i \in 1..L.seq |-> L.byID[i]]
      /\ L.reversalOf \in [DOMAIN L.reversalOf -> 1..L.seq]
  BY <1>1, <1>3
<1>5. IsLedger(L)
  BY <1>2, <1>3, <1>4 DEF IsLedger
<1>6. Solvent(L)
  BY <1>1 DEF Solvent, Accounts
<1>7. BooksClose(L)
  <2>1. ASSUME NEW S
        PROVE  SumOver(L.balances, S) = 0
    <3> DEFINE f == L.balances
               A == Accounts \cap S
    <3>1. f = [a \in Accounts |-> 0] /\ IsFiniteSet(A) /\ {} \subseteq A
      BY <1>1, AccountsFinite, FS_Subset
    <3>2. \A a \in A : f[a] \in Int /\ f[a] = 0
      BY <3>1
    <3> HIDE DEF f
    <3>3. SumFunctionOnSet(f, A) = SumFunctionOnSet(f, {})
      <4> HIDE DEF A
      <4>1. QED
        BY <3>1, <3>2, SumSupport
    <3>4. SumOver(f, S) = SumFunctionOnSet(f, A)
      BY <3>1 DEF SumOver
    <3>5. QED
      BY <3>3, <3>4, SumEmpty DEF f
  <2>2. QED
    BY <2>1 DEF BooksClose
<1>8. HistoryAddsUp(L)
  <2>1. \A a \in Accounts : L.balances[a] = 0 /\ DOMAIN Amounts(L, a) = {}
    BY <1>1 DEF Amounts
  <2>2. QED
    BY <2>1, SumEmpty DEF HistoryAddsUp, SumFunction
<1>9. QED
  BY <1>1, <1>3, <1>5, <1>6, <1>7, <1>8 DEF Sound, RefundsNoted

(* M is L with one more transaction, and all that follows from it. *)
OneMore(L, M, kind, key, e, of) ==
    /\ L.seq \in Nat /\ M.seq = L.seq + 1
    /\ M.byID = [i \in 1..M.seq |-> M.byID[i]]
    /\ \A i \in 1..L.seq : M.byID[i] = L.byID[i]
    /\ M.byID[M.seq].kind = kind /\ M.byID[M.seq].key = key
    /\ M.byID[M.seq].entries = e /\ M.byID[M.seq].of = of
    /\ M.byKey[key] = M.seq /\ M.reversalOf = L.reversalOf
    /\ \A a \in Accounts :
           M.byAcct[a] = IF a \in DOMAIN e
                         THEN Append(L.byAcct[a], [tx |-> M.seq, amount |-> e[a]])
                         ELSE L.byAcct[a]
    /\ \A k \in Keys \ {key} : M.byKey[k] = L.byKey[k]
    /\ M.balances = Proposed(L, e)
    /\ \A a \in Accounts \ DOMAIN e : M.balances[a] = L.balances[a]

(* What applying a transaction does to the rows. *)
LEMMA AppliedRows ==
    ASSUME NEW L, IsLedger(L), NEW kind, NEW key \in Keys, NEW e, NEW of,
           NEW M, M = Applied(L, kind, key, e, of)
    PROVE  OneMore(L, M, kind, key, e, of)
<1> DEFINE t == [kind |-> kind, key |-> key, entries |-> e, of |-> of]
<1>1. L.seq \in Nat /\ M.seq = L.seq + 1
  BY DEF Applied, IsLedger
<1>2. M.byID = [i \in 1..M.seq |-> IF i = M.seq THEN t ELSE L.byID[i]]
  BY <1>1 DEF Applied
<1>3. \A k \in Keys : M.byKey[k] = IF k = key THEN M.seq ELSE L.byKey[k]
  BY <1>1 DEF Applied, IsLedger
<1>4. /\ M.balances = Proposed(L, e)
      /\ \A a \in Accounts \ DOMAIN e : M.balances[a] = L.balances[a]
  BY DEF Applied, Proposed, IsLedger
<1>5. M.byID[M.seq] = t /\ \A i \in 1..L.seq : M.byID[i] = L.byID[i]
  BY <1>1, <1>2
<1>6. M.byID = [i \in 1..M.seq |-> M.byID[i]]
  BY <1>2
<1>7. t.kind = kind /\ t.key = key /\ t.entries = e /\ t.of = of
  OBVIOUS
<1> HIDE DEF t
<1>8. M.byKey[key] = M.seq /\ \A k \in Keys \ {key} : M.byKey[k] = L.byKey[k]
  BY <1>3
<1>9. /\ M.reversalOf = L.reversalOf
      /\ \A a \in Accounts :
             M.byAcct[a] = IF a \in DOMAIN e
                           THEN Append(L.byAcct[a], [tx |-> M.seq, amount |-> e[a]])
                           ELSE L.byAcct[a]
  BY <1>1 DEF Applied
<1>10. QED
  BY <1>1, <1>4, <1>5, <1>6, <1>7, <1>8, <1>9 DEF OneMore

(* A post changes nothing or adds its transaction under an unused key. *)
Grows(L, M, kind, key, e) ==
    M = L \/ (L.byKey[key] = 0 /\ OneMore(L, M, kind, key, e, 0))

(* A post keeps the ledger sound and adds one transaction at most. *)
LEMMA PostGrows ==
    ASSUME NEW L, IsLedger(L), Solvent(L), NEW kind \in Kinds, NEW key \in Keys,
           NEW e, IsEntries(e), NEW r, r = Post(L, kind, key, e),
           NEW M, M = r.ledger
    PROVE  IsLedger(M) /\ Solvent(M) /\ Grows(L, M, kind, key, e)
<1>1. r = PostLocked(L, kind, key, e, 0)
  BY DEF Post
<1>2. CASE M = L
  BY <1>2 DEF Grows
<1>3. CASE M = Applied(L, kind, key, e, 0) /\ L.byKey[key] = 0 /\ Covered(L, e)
  <2>1. IsLedger(M)
    BY <1>3, AppliedType
  <2>2. Solvent(M)
    BY <1>3, AppliedSolvent
  <2>3. OneMore(L, M, kind, key, e, 0)
    BY <1>3, AppliedRows
  <2>4. QED
    BY <1>3, <2>1, <2>2, <2>3 DEF Grows
<1>4. QED
  BY <1>1, <1>2, <1>3, PostLockedCases

(* What a post answers with: no transaction, with an error, or the one now  *)
(* under its key, which it must be when nothing is wrong with the entries.  *)
LEMMA PostAnswers ==
    ASSUME NEW L, IsLedger(L), NEW kind, NEW key \in Keys, NEW e, NEW r,
           r = Post(L, kind, key, e)
    PROVE  /\ r.tx \in Nat
           /\ r.err = "nil" => r.tx # 0 /\ r.tx = r.ledger.byKey[key]
           /\ DOMAIN e # {} /\ Balanced(e) /\ Covered(L, e) => r.err = "nil"
<1>1. L.seq \in Nat /\ L.byKey \in [Keys -> 0..L.seq]
  BY DEF IsLedger
<1>2. CASE L.byKey[key] # 0
  BY <1>1, <1>2 DEF Post, PostLocked, Reply
<1>3. CASE L.byKey[key] = 0 /\ PostError(L, e) # "nil"
  <2>1. ~ (DOMAIN e # {} /\ Balanced(e) /\ Covered(L, e))
    BY <1>3 DEF PostError
  <2>2. r.tx = 0 /\ r.err = PostError(L, e)
    BY <1>3 DEF Post, PostLocked, Reply
  <2>3. QED
    BY <1>3, <2>1, <2>2
<1>4. CASE L.byKey[key] = 0 /\ PostError(L, e) = "nil"
  <2>1. /\ r.ledger = Applied(L, kind, key, e, 0) /\ r.tx = L.seq + 1 /\ r.err = "nil"
    BY <1>4 DEF Post, PostLocked, Reply
  <2>2. r.ledger.byKey[key] = L.seq + 1
    BY <1>1, <2>1 DEF Applied
  <2>3. QED
    BY <1>1, <2>1, <2>2
<1>5. QED
  BY <1>2, <1>3, <1>4

-----------------------------------------------------------------------------
(* The entries the services post *)

(* The entries e credit u, and no other user, with the coins. *)
Credits(e, u, coins) ==
    /\ IsEntries(e)
    /\ Coins(u) \in DOMAIN e /\ e[Coins(u)] = coins
    /\ \A v \in Users \ {u} : Coins(v) \notin DOMAIN e

(* What a credit of coins is. *)
LEMMA CreditEntriesAre ==
    ASSUME NEW u \in Users, NEW coins \in Int, NEW e, e = CreditEntries(u, coins)
    PROVE  Credits(e, u, coins)
<1>1. Coins(u) # Liability /\ \A v \in Users \ {u} : Coins(v) \notin {Coins(u), Liability}
  BY DEF Coins, Liability
<1>2. {Coins(u), Liability} \subseteq Accounts
  BY DEF Accounts, Wallets, PlatformAccounts
<1>3. DOMAIN e = {Coins(u), Liability} /\ e[Coins(u)] = coins /\ e[Liability] = - coins
  BY <1>1 DEF CreditEntries
<1>4. e = [a \in DOMAIN e |-> e[a]]
  BY DEF CreditEntries
<1>5. IsEntries(e)
  BY <1>2, <1>3, <1>4 DEF IsEntries
<1>6. QED
  BY <1>1, <1>3, <1>5 DEF Credits

(* Accounts of different kinds are different. *)
LEMMA AccountsApart ==
    /\ \A u, v : /\ Coins(u) # Diamonds(v)
                 /\ Coins(u) \notin PlatformAccounts /\ Diamonds(v) \notin PlatformAccounts
                 /\ Coins(u) = Coins(v) => u = v
                 /\ Diamonds(u) = Diamonds(v) => u = v
    /\ Revenue # Liability /\ Revenue # DiamondLiability /\ Liability # DiamondLiability
BY DEF Coins, Diamonds, PlatformAccounts, Revenue, Liability, DiamondLiability

(* The creator's share of a spend is never negative. *)
LEMMA SharesAre ==
    ASSUME NEW gross \in Nat
    PROVE  /\ PlatformShare(gross) \in Int /\ gross - PlatformShare(gross) \in Int
           /\ CreatorDiamonds(gross) \in Int /\ CreatorDiamonds(gross) >= 0
<1>1. PlatformShare(gross) \in Int /\ PlatformShare(gross) <= gross
  BY DEF PlatformShare, PlatformTakeBPS
<1> DEFINE n == (gross - PlatformShare(gross)) * DiamondsPerThousandCoins
<1>2. n \in Int /\ n >= 0
  BY <1>1 DEF DiamondsPerThousandCoins
<1> HIDE DEF n
<1>3. n \div 1000 \in Int /\ n \div 1000 >= 0
  BY <1>2
<1>4. QED
  BY <1>1, <1>3 DEF CreatorDiamonds, n

(* e takes gross coins from u and gives v his share in diamonds. *)
Spends(e, u, v, gross) ==
    /\ IsEntries(e) /\ Balanced(e)
    /\ DOMAIN e = {Coins(u), Revenue, Liability, Diamonds(v), DiamondLiability}
    /\ e[Coins(u)] = - gross
    /\ e[Diamonds(v)] = CreatorDiamonds(gross)

(* SpendEntries balances: what the buyer pays is what platform and creator get. *)
LEMMA SpendEntriesAre ==
    ASSUME NEW u \in Users, NEW v \in Users, NEW gross \in Nat,
           NEW e, e = SpendEntries(u, v, gross)
    PROVE  Spends(e, u, v, gross)
<1> DEFINE D == {Coins(u), Revenue, Liability, Diamonds(v), DiamondLiability}
           share == PlatformShare(gross)
           diamonds == CreatorDiamonds(gross)
<1>1. share \in Int /\ gross - share \in Int /\ diamonds \in Int
  BY SharesAre
<1>2. /\ Coins(u) # Diamonds(v)
      /\ Coins(u) \notin {Revenue, Liability, DiamondLiability}
      /\ Diamonds(v) \notin {Revenue, Liability, DiamondLiability}
      /\ Revenue # Liability /\ Revenue # DiamondLiability /\ Liability # DiamondLiability
  BY AccountsApart DEF PlatformAccounts
<1>3. /\ DOMAIN e = D /\ e = [a \in D |-> e[a]]
      /\ e[Coins(u)] = - gross /\ e[Revenue] = share /\ e[Liability] = gross - share
      /\ e[Diamonds(v)] = diamonds /\ e[DiamondLiability] = - diamonds
  BY <1>2 DEF SpendEntries
<1>4. D \subseteq Accounts
  BY DEF Accounts, Wallets, PlatformAccounts
<1>5. \A a \in D : e[a] \in Int
  <2> HIDE DEF share, diamonds
  <2>1. QED
    BY <1>1, <1>3
<1>6. IsEntries(e)
  <2> HIDE DEF D
  <2>1. QED
    BY <1>3, <1>4, <1>5 DEF IsEntries
<1>7. SumOver(e, CoinAccounts) = 0
  <2> DEFINE C == {Coins(u), Revenue, Liability}
             x == Coins(u)
  <2>1. D \cap CoinAccounts = C
    BY <1>2, AccountsApart DEF CoinAccounts, PlatformAccounts
  <2>2. IsFiniteSet(C) /\ x \in C /\ C \ {x} = {Revenue, Liability}
    <3>1. C \subseteq Accounts
      BY <1>4
    <3>2. IsFiniteSet(C)
      BY <3>1, AccountsFinite, FS_Subset
    <3>3. QED
      BY <1>2, <3>2
  <2>3. \A a \in C : e[a] \in Int
    BY <1>5
  <2>4. SumFunctionOnSet(e, {Revenue, Liability}) = e[Revenue] + e[Liability]
    BY <1>2, <1>5, SumOfTwo
  <2>5. SumFunctionOnSet(e, C) = e[x] + SumFunctionOnSet(e, C \ {x})
    <3> HIDE DEF C, x
    <3>1. QED
      BY <2>2, <2>3, SumTakeOut
  <2>6. e[x] + (e[Revenue] + e[Liability]) = 0
    <3> HIDE DEF share
    <3>1. QED
      BY <1>1, <1>3
  <2> HIDE DEF x, C
  <2>7. QED
    BY <1>3, <2>1, <2>2, <2>4, <2>5, <2>6 DEF SumOver
<1>8. SumOver(e, DiamondAccounts) = 0
  <2> DEFINE x == Diamonds(v)
             y == DiamondLiability
  <2>1. D \cap DiamondAccounts = {x, y}
    BY <1>2, AccountsApart DEF DiamondAccounts, PlatformAccounts
  <2>2. x # y /\ e[x] \in Int /\ e[y] \in Int /\ e[x] + e[y] = 0
    <3> HIDE DEF diamonds
    <3>1. QED
      BY <1>1, <1>2, <1>3
  <2> HIDE DEF x, y
  <2>3. SumFunctionOnSet(e, {x, y}) = e[x] + e[y]
    BY <2>2, SumOfTwo
  <2>4. QED
    BY <1>3, <2>1, <2>2, <2>3 DEF SumOver
<1>9. QED
  BY <1>3, <1>6, <1>7, <1>8 DEF Spends, Balanced

(* A spend takes diamonds off nobody. *)
LEMMA SpendTakesNoDiamonds ==
    ASSUME NEW u \in Users, NEW v \in Users, NEW gross \in Nat, NEW e, Spends(e, u, v, gross)
    PROVE  \A w \in Users : Diamonds(w) \in DOMAIN e => e[Diamonds(w)] >= 0
<1>1. ASSUME NEW w \in Users, Diamonds(w) \in DOMAIN e
      PROVE  Diamonds(w) = Diamonds(v)
  BY <1>1, AccountsApart DEF Spends, PlatformAccounts
<1>2. CreatorDiamonds(gross) >= 0
  BY SharesAre
<1>3. QED
  BY <1>1, <1>2 DEF Spends

(* e moves d diamonds off u's wallet, back to the liability. *)
Withdraws(e, u, d) ==
    /\ IsEntries(e)
    /\ DOMAIN e = {Diamonds(u), DiamondLiability}
    /\ e[Diamonds(u)] = - d /\ e[DiamondLiability] = d
    /\ \A v \in Users \ {u} : Diamonds(v) \notin DOMAIN e

(* A wallet's diamonds are an account of their own, in the books of diamonds. *)
LEMMA DiamondsApart ==
    ASSUME NEW u \in Users
    PROVE  /\ Diamonds(u) # DiamondLiability
           /\ \A v \in Users \ {u} : Diamonds(v) # Diamonds(u) /\ Diamonds(v) # DiamondLiability
           /\ {Diamonds(u), DiamondLiability} \subseteq Accounts
           /\ {Diamonds(u), DiamondLiability} \subseteq DiamondAccounts
           /\ {Diamonds(u), DiamondLiability} \cap CoinAccounts = {}
           /\ DiamondLiability \in PlatformAccounts
BY DEF Diamonds, DiamondLiability, Accounts, Wallets, PlatformAccounts, DiamondAccounts,
       CoinAccounts, Coins, Revenue, Liability

(* What a payout posts. *)
LEMMA PayoutEntriesAre ==
    ASSUME NEW u \in Users, NEW d \in Nat, NEW e, e = PayoutEntries(u, d)
    PROVE  Withdraws(e, u, d)
<1>1. /\ DOMAIN e = {Diamonds(u), DiamondLiability}
      /\ e[Diamonds(u)] = - d /\ e[DiamondLiability] = d
  BY DiamondsApart DEF PayoutEntries
<1>2. e = [a \in DOMAIN e |-> e[a]]
  BY DEF PayoutEntries
<1>3. IsEntries(e)
  BY <1>1, <1>2, DiamondsApart DEF IsEntries
<1>4. QED
  BY <1>1, <1>3, DiamondsApart DEF Withdraws

-----------------------------------------------------------------------------
(* Reversals that go through *)

(* The opposite of a balanced transaction is balanced. *)
LEMMA NegatedBalanced ==
    ASSUME NEW e, IsEntries(e), Balanced(e)
    PROVE  Balanced(Negated(e))
<1>1. ASSUME NEW S, SumOver(e, S) = 0
      PROVE  SumOver(Negated(e), S) = 0
  <2> DEFINE A == DOMAIN e \cap S
             f == Negated(e)
             z == [a \in A |-> 0]
  <2>1. IsFiniteSet(A)
    <3>1. A \subseteq Accounts
      BY DEF IsEntries
    <3>2. QED
      BY <3>1, AccountsFinite, FS_Subset
  <2>2. DOMAIN f = DOMAIN e
    BY DEF Negated
  <2>3. \A a \in A : e[a] \in Int /\ f[a] \in Int /\ z[a] = e[a] + f[a]
    BY DEF Negated, IsEntries
  <2>4. (\A a \in A : z[a] \in Int) /\ (\A a \in A \ {} : z[a] = 0) /\ {} \subseteq A
    OBVIOUS
  <2>5. SumFunctionOnSet(e, A) = 0
    BY <1>1 DEF SumOver
  <2> HIDE DEF A, f, z
  <2>6. SumFunctionOnSet(z, A) = SumFunctionOnSet(z, {})
    BY <2>1, <2>4, SumSupport
  <2>7. SumFunctionOnSet(z, A) = SumFunctionOnSet(e, A) + SumFunctionOnSet(f, A)
    BY <2>1, <2>3, SumPointwise
  <2>8. SumFunctionOnSet(f, A) \in Int
    BY <2>1, <2>3, SumIsInt
  <2>9. SumFunctionOnSet(f, A) = 0
    BY <2>5, <2>6, <2>7, <2>8, SumEmpty
  <2>10. QED
    BY <2>2, <2>9 DEF SumOver, A, f
<1>2. QED
  BY <1>1 DEF Balanced

(* M is L with a reversal of id under key, and all that follows from it. *)
Refunded(L, M, id, key) ==
    /\ id \in 1..L.seq /\ L.byID[id].kind # "reversal" /\ id \notin DOMAIN L.reversalOf
    /\ L.seq \in Nat /\ M.seq = L.seq + 1
    /\ \A i \in 1..L.seq : M.byID[i] = L.byID[i]
    /\ M.byID[M.seq].kind = "reversal"
    /\ M.byKey[key] = M.seq /\ \A k \in Keys \ {key} : M.byKey[k] = L.byKey[k]
    /\ M.balances = Proposed(L, Negated(L.byID[id].entries))
    /\ DOMAIN M.reversalOf = DOMAIN L.reversalOf \cup {id}

(* ReverseTransaction under key: nothing, or a reversal under an unused key; *)
(* and a reversal it is when nothing stands against it.                      *)
Refunds(L, M, id, key) ==
    /\ M = L \/ (L.byKey[key] = 0 /\ Refunded(L, M, id, key))
    /\ L.byKey[key] = 0 /\ ReverseError(L, id) = "nil"
           /\ PostError(L, Negated(L.byID[id].entries)) = "nil" =>
           Refunded(L, M, id, key)

(* A reversal keeps the ledger sound and refunds at most once. *)
LEMMA ReverseRefunds ==
    ASSUME NEW L, IsLedger(L), Solvent(L), NEW id, NEW key \in Keys,
           NEW M, M = Reverse(L, id, key).ledger
    PROVE  IsLedger(M) /\ Solvent(M) /\ Refunds(L, M, id, key)
<1> DEFINE e == Negated(L.byID[id].entries)
           A == Applied(L, "reversal", key, e, id)
           N == NoteReversal(A, id, L.seq + 1)
           r == Reverse(L, id, key)
<1>1. CASE M = L /\ ~ (/\ L.byKey[key] = 0 /\ ReverseError(L, id) = "nil"
                       /\ PostError(L, e) = "nil")
  BY <1>1 DEF Refunds
<1>2. CASE /\ M = N /\ L.byKey[key] = 0 /\ Covered(L, e)
           /\ id \in 1..L.seq /\ L.byID[id].kind # "reversal" /\ id \notin DOMAIN L.reversalOf
  <2>1. L.seq \in Nat /\ id \in Nat
    BY <1>2 DEF IsLedger
  <2>2. IsEntries(e)
    BY <1>2, NegatedType DEF IsLedger, IsTransaction
  <2>3. "reversal" \in Kinds
    BY DEF Kinds
  <2> HIDE DEF e
  <2>4. IsLedger(A)
    BY <2>1, <2>2, <2>3, AppliedType
  <2>5. Solvent(A)
    BY <1>2, <2>2, AppliedSolvent
  <2>6. OneMore(L, A, "reversal", key, e, id)
    BY AppliedRows
  <2> HIDE DEF A
  <2>7. id \in 1..A.seq /\ L.seq + 1 \in 1..A.seq
    BY <1>2, <2>1, <2>6 DEF OneMore
  <2>8. /\ IsLedger(N)
        /\ N.balances = A.balances /\ N.seq = A.seq /\ N.byID = A.byID /\ N.byKey = A.byKey
        /\ DOMAIN N.reversalOf = DOMAIN A.reversalOf \cup {id}
    BY <2>4, <2>7, NoteReversalType
  <2> HIDE DEF N
  <2>9. Solvent(N)
    BY <2>5, <2>8 DEF Solvent
  <2>10. Refunded(L, N, id, key)
    BY <1>2, <2>6, <2>8 DEF Refunded, OneMore, e
  <2>11. QED
    BY <1>2, <2>8, <2>9, <2>10 DEF Refunds
<1>3. CASE L.byKey[key] # 0
  <2>1. M = L
    BY <1>3 DEF Reverse, Reply
  <2>2. QED
    BY <1>1, <1>3, <2>1
<1>4. CASE L.byKey[key] = 0 /\ ReverseError(L, id) # "nil"
  <2>1. M = L
    BY <1>4 DEF Reverse, Reply
  <2>2. QED
    BY <1>1, <1>4, <2>1
<1>5. CASE L.byKey[key] = 0 /\ ReverseError(L, id) = "nil"
  <2> DEFINE p == PostLocked(L, "reversal", key, e, id)
  <2>1. /\ id \in 1..L.seq /\ L.byID[id].kind # "reversal" /\ id \notin DOMAIN L.reversalOf
    BY <1>5 DEF ReverseError
  <2>2. r = IF p.isNew THEN [p EXCEPT !.ledger = NoteReversal(p.ledger, id, p.tx)] ELSE p
    BY <1>5 DEF Reverse
  <2>3. CASE PostError(L, e) # "nil"
    <3>1. p = Reply(L, 0, FALSE, PostError(L, e))
      BY <1>5, <2>3 DEF PostLocked
    <3>2. M = L
      BY <2>2, <3>1 DEF Reply
    <3>3. QED
      BY <1>1, <2>3, <3>2
  <2>4. CASE PostError(L, e) = "nil"
    <3>1. p = Reply(A, L.seq + 1, TRUE, "nil")
      BY <1>5, <2>4 DEF PostLocked
    <3>2. M = N
      BY <2>2, <3>1 DEF Reply
    <3>3. Covered(L, e)
      BY <2>4 DEF PostError
    <3>4. QED
      BY <1>2, <1>5, <2>1, <3>2, <3>3
  <2>5. QED
    BY <2>3, <2>4
<1>6. QED
  BY <1>3, <1>4, <1>5
=============================================================================
