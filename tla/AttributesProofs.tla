--------------------------- MODULE AttributesProofs ---------------------------
(***************************************************************************)
(* The comparison of a provider with its request decides what it is meant   *)
(* to, for lists of every length: two lists are taken to be equal if and    *)
(* only if one is the other reordered.  From that it follows that one       *)
(* update is enough and that no drift goes unseen.                          *)
(*                                                                          *)
(* None of it is by induction on a list: reorderings are bijections of the  *)
(* positions, and the sorted order is the one by rank.                      *)
(***************************************************************************)
EXTENDS Attributes, FiniteSetTheorems, FunctionTheorems, TLAPS

-----------------------------------------------------------------------------
(* Lists and their positions. *)

LEMMA ListPositions ==
  ASSUME NEW T, NEW a \in Seq(T)
  PROVE  /\ Len(a) \in Nat /\ DOMAIN a = 1..Len(a) /\ a \in [1..Len(a) -> T]
         /\ IsFiniteSet(1..Len(a)) /\ Cardinality(1..Len(a)) = Len(a)
  <1>1. Len(a) \in Nat /\ DOMAIN a = 1..Len(a) /\ a \in [1..Len(a) -> T]
    OBVIOUS
  <1>2. IsFiniteSet(1..Len(a)) /\ Cardinality(1..Len(a)) = IF 1 > Len(a) THEN 0 ELSE Len(a) - 1 + 1
    BY <1>1, FS_Interval
  <1> QED BY <1>1, <1>2

LEMMA FunctionIsList ==
  ASSUME NEW T, NEW n \in Nat, NEW f \in [1..n -> T]
  PROVE  f \in Seq(T) /\ Len(f) = n
  OBVIOUS

\* Positions that hold a value of a set.
At(list, V) == {i \in DOMAIN list : list[i] \in V}

LEMMA AtFinite ==
  ASSUME NEW T, NEW a \in Seq(T), NEW V
  PROVE  IsFiniteSet(At(a, V)) /\ Cardinality(At(a, V)) \in Nat
  <1>1. At(a, V) \in SUBSET (1..Len(a))
    BY ListPositions DEF At
  <1>2. IsFiniteSet(At(a, V))
    BY <1>1, ListPositions, FS_Subset
  <1> QED BY <1>2, FS_CardinalityType

LEMMA CountIsAt ==
  ASSUME NEW list, NEW x
  PROVE  Count(list, x) = Cardinality(At(list, {x}))
  <1>1. At(list, {x}) = {i \in DOMAIN list : list[i] = x}
    BY DEF At
  <1> QED BY <1>1 DEF Count

\* An injection of the positions of a list into themselves is a bijection.
LEMMA InjectionIsBijection ==
  ASSUME NEW S, IsFiniteSet(S), NEW p \in Injection(S, S)
  PROVE  p \in Bijection(S, S)
  <1>1. p \in Surjection(S, S)
    BY FS_Injection
  <1> QED BY <1>1 DEF Bijection

-----------------------------------------------------------------------------
(* Reorderings. *)

LEMMA OrderOf ==
  ASSUME NEW T, NEW a \in Seq(T), NEW b \in Orders(a)
  PROVE  \E p \in Bijection(1..Len(a), 1..Len(a)) : b = [i \in 1..Len(a) |-> a[p[i]]]
  BY ListPositions DEF Orders

LEMMA OrderBy ==
  ASSUME NEW T, NEW a \in Seq(T), NEW p \in Bijection(1..Len(a), 1..Len(a)), NEW b,
         b = [i \in 1..Len(a) |-> a[p[i]]]
  PROVE  b \in Orders(a)
  BY ListPositions DEF Orders

LEMMA OrderIsList ==
  ASSUME NEW T, NEW a \in Seq(T), NEW b \in Orders(a)
  PROVE  b \in Seq(T) /\ Len(b) = Len(a)
  <1>1. PICK p \in Bijection(1..Len(a), 1..Len(a)) : b = [i \in 1..Len(a) |-> a[p[i]]]
    BY OrderOf
  <1>2. p \in [1..Len(a) -> 1..Len(a)]
    BY Fun_BijectionProperties
  <1>3. b \in [1..Len(a) -> T] /\ Len(a) \in Nat
    BY <1>1, <1>2, ListPositions
  <1> QED BY <1>3, FunctionIsList

\* However a list is reordered, the values of a set are as many.
LEMMA OrderKeepsCounts ==
  ASSUME NEW T, NEW a \in Seq(T), NEW b \in Orders(a), NEW V
  PROVE  Cardinality(At(b, V)) = Cardinality(At(a, V))
  <1>1. PICK p \in Bijection(1..Len(a), 1..Len(a)) : b = [i \in 1..Len(a) |-> a[p[i]]]
    BY OrderOf
  <1>2. /\ p \in [1..Len(a) -> 1..Len(a)]
        /\ \A i, j \in 1..Len(a) : p[i] = p[j] => i = j
        /\ \A k \in 1..Len(a) : \E i \in 1..Len(a) : p[i] = k
    BY DEF Bijection, Injection, IsInjective, Surjection
  <1>3. b \in Seq(T) /\ Len(b) = Len(a)
    BY OrderIsList
  <1>4. At(b, V) = {i \in 1..Len(a) : a[p[i]] \in V} /\ At(a, V) = {i \in 1..Len(a) : a[i] \in V}
    BY <1>1, <1>3, ListPositions DEF At
  <1> DEFINE f == [i \in At(b, V) |-> p[i]]
  <1>5. f \in [At(b, V) -> At(a, V)]
    BY <1>2, <1>4
  <1>6. \A i, j \in At(b, V) : f[i] = f[j] => i = j
    BY <1>2, <1>4
  <1>7. \A k \in At(a, V) : \E i \in At(b, V) : f[i] = k
    BY <1>2, <1>4
  <1> HIDE DEF f
  <1>8. f \in Bijection(At(b, V), At(a, V))
    BY <1>5, <1>6, <1>7, Fun_IsBij
  <1>9. ExistsBijection(At(b, V), At(a, V))
    BY <1>8 DEF ExistsBijection
  <1>10. IsFiniteSet(At(b, V))
    BY <1>3, AtFinite
  <1> QED BY <1>9, <1>10, FS_Bijection

LEMMA OrderSymmetric ==
  ASSUME NEW T, NEW a \in Seq(T), NEW b \in Orders(a)
  PROVE  a \in Orders(b)
  <1> DEFINE S == 1..Len(a)
  <1>1. PICK p \in Bijection(S, S) : b = [i \in S |-> a[p[i]]]
    BY OrderOf
  <1>2. /\ p \in [S -> S]
        /\ \A k \in S : \E i \in S : p[i] = k
    BY DEF Bijection, Surjection
  <1>3. PICK q \in Bijection(S, S) : \A s \in S : q[p[s]] = s
    <2>1. /\ Inverse(p, S, S) \in Bijection(S, S)
          /\ \A s \in S : Inverse(p, S, S)[p[s]] = s
      BY Fun_BijInverse, Zenon
    <2> QED BY <2>1
  <1>4. q \in [S -> S]
    BY Fun_BijectionProperties
  <1>5. \A k \in S : p[q[k]] = k
    BY <1>2, <1>3
  <1>6. a = [i \in S |-> b[q[i]]]
    BY <1>1, <1>4, <1>5, ListPositions
  <1>7. b \in Seq(T) /\ Len(b) = Len(a)
    BY OrderIsList
  <1> QED BY <1>6, <1>7, OrderBy

LEMMA OrderReflexive ==
  ASSUME NEW T, NEW a \in Seq(T)
  PROVE  a \in Orders(a)
  <1> DEFINE S == 1..Len(a)
             p == [i \in S |-> i]
  <1>1. p \in [S -> S] /\ (\A i, j \in S : p[i] = p[j] => i = j) /\ (\A k \in S : \E i \in S : p[i] = k)
    OBVIOUS
  <1>2. a = [i \in S |-> a[p[i]]]
    BY ListPositions
  <1> HIDE DEF p
  <1>3. p \in Bijection(S, S)
    BY <1>1, Fun_IsBij
  <1> QED BY <1>2, <1>3, OrderBy

LEMMA OrderTransitive ==
  ASSUME NEW T, NEW a \in Seq(T), NEW b \in Orders(a), NEW c \in Orders(b)
  PROVE  c \in Orders(a)
  <1> DEFINE S == 1..Len(a)
  <1>1. PICK p \in Bijection(S, S) : b = [i \in S |-> a[p[i]]]
    BY OrderOf
  <1>2. b \in Seq(T) /\ Len(b) = Len(a)
    BY OrderIsList
  <1>3. PICK q \in Bijection(S, S) : c = [i \in S |-> b[q[i]]]
    BY <1>2, OrderOf
  <1>4. p \in [S -> S] /\ q \in [S -> S]
    BY Fun_BijectionProperties
  <1> DEFINE r == [i \in S |-> p[q[i]]]
  <1>5. r \in Bijection(S, S)
    BY Fun_BijTransitive
  <1>6. c = [i \in S |-> a[r[i]]]
    BY <1>1, <1>3, <1>4
  <1> QED BY <1>5, <1>6, OrderBy

-----------------------------------------------------------------------------
(* Sorting. *)

\* The positions that come before i in the stable sorted order, and i itself.
Before(list, i) ==
  {j \in DOMAIN list : list[j] < list[i] \/ (list[j] = list[i] /\ j <= i)}

\* Of two positions the later one in that order has the larger rank.
LEMMA RanksDiffer ==
  ASSUME NEW a \in Seq(Nat), NEW i \in 1..Len(a), NEW k \in 1..Len(a),
         a[i] < a[k] \/ (a[i] = a[k] /\ i < k)
  PROVE  Cardinality(Before(a, i)) < Cardinality(Before(a, k))
  <1>1. Before(a, i) \in SUBSET Before(a, k) /\ k \in Before(a, k) /\ k \notin Before(a, i)
    BY ListPositions DEF Before
  <1>2. Before(a, k) \in SUBSET (1..Len(a))
    BY ListPositions DEF Before
  <1>3. IsFiniteSet(Before(a, k))
    BY <1>2, ListPositions, FS_Subset
  <1>4. /\ IsFiniteSet(Before(a, i))
        /\ Cardinality(Before(a, i)) <= Cardinality(Before(a, k))
        /\ Cardinality(Before(a, k)) = Cardinality(Before(a, i)) => Before(a, k) = Before(a, i)
    BY <1>1, <1>3, FS_Subset
  <1>5. Cardinality(Before(a, i)) \in Nat /\ Cardinality(Before(a, k)) \in Nat
    BY <1>3, <1>4, FS_CardinalityType
  <1> QED BY <1>1, <1>4, <1>5

\* The rank is a place in the list, and each place is the rank of one position.
LEMMA RankIsBijection ==
  ASSUME NEW a \in Seq(Nat)
  PROVE  [i \in 1..Len(a) |-> Cardinality(Before(a, i))] \in Bijection(1..Len(a), 1..Len(a))
  <1> DEFINE S == 1..Len(a)
             rank == [i \in S |-> Cardinality(Before(a, i))]
  <1>1. ASSUME NEW i \in S
        PROVE  Cardinality(Before(a, i)) \in S
    <2>1. Before(a, i) \in SUBSET S /\ i \in Before(a, i)
      BY ListPositions DEF Before
    <2>2. /\ IsFiniteSet(Before(a, i))
          /\ Cardinality(Before(a, i)) <= Len(a)
      BY <2>1, ListPositions, FS_Subset
    <2>3. Cardinality(Before(a, i)) \in Nat /\ Cardinality(Before(a, i)) # 0
      BY <2>1, <2>2, FS_CardinalityType, FS_EmptySet
    <2> QED BY <2>2, <2>3, ListPositions
  <1>2. ASSUME NEW i \in S, NEW k \in S, i # k
        PROVE  rank[i] # rank[k]
    <2>1. a[i] \in Nat /\ a[k] \in Nat
      BY ListPositions
    <2>2. \/ a[i] < a[k] \/ (a[i] = a[k] /\ i < k)
          \/ a[k] < a[i] \/ (a[k] = a[i] /\ k < i)
      BY <1>2, <2>1, ListPositions
    <2>3. Cardinality(Before(a, i)) \in S /\ Cardinality(Before(a, k)) \in S
      BY <1>1
    <2>4. \/ Cardinality(Before(a, i)) < Cardinality(Before(a, k))
          \/ Cardinality(Before(a, k)) < Cardinality(Before(a, i))
      BY <2>2, RanksDiffer
    <2> QED BY <2>3, <2>4
  <1>3. rank \in [S -> S]
    BY <1>1
  <1>4. rank \in Injection(S, S)
    BY <1>2, <1>3, Fun_IsInj
  <1> QED BY <1>4, ListPositions, InjectionIsBijection

\* Every list can be sorted.
LEMMA SortedExists ==
  ASSUME NEW a \in Seq(Nat)
  PROVE  \E sorted \in Orders(a) : IsSorted(sorted)
  <1> DEFINE S == 1..Len(a)
             rank == [i \in S |-> Cardinality(Before(a, i))]
  <1>1. rank \in Bijection(S, S)
    BY RankIsBijection
  <1> HIDE DEF rank
  <1>2. PICK p : p \in Bijection(S, S) /\ \A i \in S : rank[p[i]] = i
    <2>1. /\ Inverse(rank, S, S) \in Bijection(S, S)
          /\ \A s \in S : Inverse(rank, S, S)[rank[s]] = s
      BY <1>1, Fun_BijInverse, Zenon
    <2>2. \A i \in S : \E s \in S : rank[s] = i
      BY <1>1 DEF Bijection, Surjection
    <2>3. \A i \in S : rank[Inverse(rank, S, S)[i]] = i
      BY <2>1, <2>2
    <2> QED BY <2>1, <2>3
  <1>3. p \in [S -> S]
    BY <1>2, Fun_BijectionProperties
  <1> DEFINE sorted == [i \in S |-> a[p[i]]]
  <1>4. sorted \in Orders(a)
    BY <1>2, OrderBy
  <1>5. ASSUME NEW i \in S, NEW j \in S, i < j
        PROVE  a[p[i]] <= a[p[j]]
    <2>1. a[p[i]] \in Nat /\ a[p[j]] \in Nat /\ p[i] \in S /\ p[j] \in S
      BY <1>3, ListPositions
    <2>2. Cardinality(Before(a, p[i])) = i /\ Cardinality(Before(a, p[j])) = j
      BY <1>2, <2>1 DEF rank
    <2>3. CASE a[p[j]] < a[p[i]]
      <3>1. Cardinality(Before(a, p[j])) < Cardinality(Before(a, p[i]))
        BY <2>1, <2>3, RanksDiffer
      <3> QED BY <1>5, <2>2, <3>1, ListPositions
    <2> QED BY <2>1, <2>3
  <1>6. DOMAIN sorted = S
    OBVIOUS
  <1>7. IsSorted(sorted)
    BY <1>5, <1>6 DEF IsSorted
  <1> QED BY <1>4, <1>7

LEMMA SortedIsSorted ==
  ASSUME NEW a \in Seq(Nat)
  PROVE  Sorted(a) \in Orders(a) /\ IsSorted(Sorted(a))
  BY SortedExists, Zenon DEF Sorted

LEMMA SortedAscends ==
  ASSUME NEW c \in Seq(Nat), IsSorted(c), NEW i \in 1..Len(c), NEW j \in 1..Len(c), i <= j
  PROVE  c[i] <= c[j]
  <1>1. DOMAIN c = 1..Len(c) /\ c[i] \in Nat
    BY ListPositions
  <1>2. \A k, l \in 1..Len(c) : k < l => c[k] <= c[l]
    BY <1>1 DEF IsSorted
  <1>3. i < j \/ i = j
    BY ListPositions
  <1> QED BY <1>1, <1>2, <1>3

\* Of two sorted orders of a list none is below the other at a place: it would
\* have more of the small values.
LEMMA NoneIsBelow ==
  ASSUME NEW a \in Seq(Nat), NEW c \in Orders(a), NEW d \in Orders(a),
         IsSorted(c), IsSorted(d), NEW k \in 1..Len(a)
  PROVE  ~(c[k] < d[k])
  <1> SUFFICES ASSUME c[k] < d[k] PROVE FALSE
    OBVIOUS
  <1> DEFINE V == {v \in Nat : v <= c[k]}
  <1>1. /\ c \in Seq(Nat) /\ Len(c) = Len(a) /\ d \in Seq(Nat) /\ Len(d) = Len(a)
    BY OrderIsList
  <1>2. /\ DOMAIN c = 1..Len(a) /\ DOMAIN d = 1..Len(a)
        /\ \A i \in 1..Len(a) : c[i] \in Nat /\ d[i] \in Nat
    BY <1>1, ListPositions
  <1>3. 1..k \in SUBSET At(c, V)
    <2> SUFFICES ASSUME NEW i \in 1..k PROVE i \in At(c, V)
      OBVIOUS
    <2>1. i \in 1..Len(a) /\ i <= k
      BY ListPositions
    <2>2. c[i] <= c[k]
      BY <1>1, <2>1, SortedAscends
    <2> QED BY <1>2, <2>1, <2>2 DEF At
  <1>4. At(d, V) \in SUBSET (1..(k - 1))
    <2> SUFFICES ASSUME NEW i \in At(d, V) PROVE i \in 1..(k - 1)
      OBVIOUS
    <2>1. i \in 1..Len(a) /\ d[i] <= c[k]
      BY <1>2 DEF At
    <2>2. ~(k <= i)
      <3> SUFFICES ASSUME k <= i PROVE FALSE
        OBVIOUS
      <3>1. d[k] <= d[i]
        BY <1>1, <2>1, SortedAscends
      <3> QED BY <1>2, <2>1, <3>1
    <2> QED BY <2>1, <2>2, ListPositions
  <1>5. k \in Nat /\ k >= 1
    BY ListPositions
  <1>6. IsFiniteSet(1..(k - 1)) /\ Cardinality(1..(k - 1)) = k - 1 /\ Cardinality(1..k) = k
    <2>1. IsFiniteSet(1..(k - 1))
          /\ Cardinality(1..(k - 1)) = IF 1 > k - 1 THEN 0 ELSE (k - 1) - 1 + 1
      BY <1>5, FS_Interval
    <2>2. Cardinality(1..k) = IF 1 > k THEN 0 ELSE k - 1 + 1
      BY <1>5, FS_Interval
    <2> QED BY <1>5, <2>1, <2>2
  <1> HIDE DEF V
  <1>7. IsFiniteSet(At(c, V)) /\ Cardinality(At(c, V)) \in Nat
    BY <1>1, AtFinite
  <1>8. Cardinality(1..k) <= Cardinality(At(c, V))
    BY <1>3, <1>7, FS_Subset
  <1>9. Cardinality(At(d, V)) <= Cardinality(1..(k - 1))
    BY <1>4, <1>6, FS_Subset
  <1>10. Cardinality(At(c, V)) = Cardinality(At(a, V)) /\ Cardinality(At(d, V)) = Cardinality(At(a, V))
    BY OrderKeepsCounts
  <1> QED BY <1>5, <1>6, <1>7, <1>8, <1>9, <1>10

LEMMA SortedIsUnique ==
  ASSUME NEW a \in Seq(Nat), NEW c \in Orders(a), NEW d \in Orders(a),
         IsSorted(c), IsSorted(d)
  PROVE  c = d
  <1>1. /\ c \in Seq(Nat) /\ Len(c) = Len(a) /\ d \in Seq(Nat) /\ Len(d) = Len(a)
    BY OrderIsList
  <1>2. c \in [1..Len(a) -> Nat] /\ d \in [1..Len(a) -> Nat]
    BY <1>1, ListPositions
  <1>3. \A k \in 1..Len(a) : c[k] = d[k]
    <2> SUFFICES ASSUME NEW k \in 1..Len(a) PROVE c[k] = d[k]
      OBVIOUS
    <2>1. ~(c[k] < d[k]) /\ ~(d[k] < c[k])
      BY NoneIsBelow
    <2>2. c[k] \in Nat /\ d[k] \in Nat
      BY <1>2
    <2> QED BY <2>1, <2>2
  <1> QED BY <1>2, <1>3

\* StringSetEqual decides whether one list is the other reordered.
LEMMA StringSetEqualDecides ==
  ASSUME NEW a \in Seq(Nat), NEW b \in Seq(Nat)
  PROVE  StringSetEqual(a, b) <=> b \in Orders(a)
  <1>1. /\ Sorted(a) \in Orders(a) /\ IsSorted(Sorted(a))
        /\ Sorted(b) \in Orders(b) /\ IsSorted(Sorted(b))
    BY SortedIsSorted
  <1>2. ASSUME Sorted(a) = Sorted(b) PROVE b \in Orders(a)
    <2>1. b \in Orders(Sorted(b))
      BY <1>1, OrderSymmetric
    <2> QED BY <1>1, <1>2, <2>1, OrderTransitive
  <1>3. ASSUME b \in Orders(a) PROVE StringSetEqual(a, b)
    <2>1. Sorted(b) \in Orders(a)
      BY <1>1, <1>3, OrderTransitive
    <2>2. Sorted(a) = Sorted(b)
      BY <1>1, <2>1, SortedIsUnique
    <2>3. Len(b) = Len(a)
      BY <1>3, OrderIsList
    <2> QED BY <2>2, <2>3 DEF StringSetEqual
  <1> QED BY <1>2, <1>3 DEF StringSetEqual

-----------------------------------------------------------------------------
(* Counting. *)

\* A finite set maps one-to-one into one that is no smaller.
LEMMA InjectionExists ==
  ASSUME NEW S, NEW T, IsFiniteSet(S), IsFiniteSet(T), Cardinality(S) <= Cardinality(T)
  PROVE  \E f : f \in Injection(S, T)
  <1> DEFINE m == Cardinality(S)
             n == Cardinality(T)
  <1>1. m \in Nat /\ n \in Nat /\ ExistsBijection(1..m, S) /\ ExistsBijection(1..n, T)
    BY FS_CardinalityType
  <1>2. ExistsInjection(S, 1..m) /\ ExistsInjection(1..n, T)
    <2>1. ExistsBijection(S, 1..m)
      BY <1>1, Fun_ExistsBijSymmetric
    <2>2. ExistsInjection(S, 1..m)
      BY <2>1, Fun_ExistsBijEquiv, Zenon
    <2>3. ExistsInjection(1..n, T)
      BY <1>1, Fun_ExistsBijEquiv, Zenon
    <2> QED BY <2>2, <2>3
  <1>3. ExistsInjection(1..m, 1..n)
    BY <1>1, Fun_NatInjLeq
  <1>4. ExistsInjection(S, 1..n)
    BY <1>2, <1>3, Fun_ExistsInjTransitive, Zenon
  <1>5. ExistsInjection(S, T)
    BY <1>2, <1>4, Fun_ExistsInjTransitive, Zenon
  <1> QED BY <1>5 DEF ExistsInjection

\* No item more often in b than in a, and as many items: then there is no room
\* for one to be less often, and b is a reordered.
LEMMA CountsMakeOrder ==
  ASSUME NEW T, NEW a \in Seq(T), NEW b \in Seq(T), Len(a) = Len(b),
         \A x \in ItemsOf(b) : Count(b, x) <= Count(a, x)
  PROVE  b \in Orders(a)
  <1> DEFINE S == 1..Len(a)
             f == [x \in ItemsOf(b) |->
                     CHOOSE g : g \in Injection(At(b, {x}), At(a, {x}))]
             p == [i \in S |-> f[b[i]][i]]
  <1>1. \A x \in ItemsOf(b) : f[x] \in Injection(At(b, {x}), At(a, {x}))
    <2> SUFFICES ASSUME NEW x \in ItemsOf(b)
                 PROVE  \E g : g \in Injection(At(b, {x}), At(a, {x}))
      BY Zenon
    <2>1. Cardinality(At(b, {x})) <= Cardinality(At(a, {x}))
      BY CountIsAt
    <2> QED BY <2>1, AtFinite, InjectionExists
  <1> HIDE DEF f
  <1>2. ASSUME NEW i \in S
        PROVE  p[i] \in S /\ a[p[i]] = b[i]
    <2>1. b[i] \in ItemsOf(b) /\ i \in At(b, {b[i]})
      BY ListPositions DEF ItemsOf, At
    <2>2. f[b[i]] \in [At(b, {b[i]}) -> At(a, {b[i]})]
      BY <1>1, <2>1 DEF Injection
    <2>3. f[b[i]][i] \in At(a, {b[i]})
      BY <2>1, <2>2
    <2> QED BY <2>3, ListPositions DEF At
  <1>3. ASSUME NEW i \in S, NEW j \in S, p[i] = p[j]
        PROVE  i = j
    <2>1. b[i] = b[j]
      BY <1>2, <1>3
    <2>2. b[i] \in ItemsOf(b) /\ i \in At(b, {b[i]}) /\ j \in At(b, {b[i]})
      BY <2>1, ListPositions DEF ItemsOf, At
    <2>3. f[b[i]] \in Injection(At(b, {b[i]}), At(a, {b[i]}))
      BY <1>1, <2>2
    <2>4. f[b[i]][i] = f[b[i]][j]
      BY <1>3, <2>1
    <2> QED BY <2>2, <2>3, <2>4 DEF Injection, IsInjective
  <1>4. p \in [S -> S]
    BY <1>2
  <1>5. p \in Injection(S, S)
    BY <1>3, <1>4, Fun_IsInj
  <1>6. p \in Bijection(S, S)
    BY <1>5, ListPositions, InjectionIsBijection
  <1>7. b = [i \in S |-> a[p[i]]]
    BY <1>2, ListPositions
  <1> QED BY <1>6, <1>7, OrderBy

\* redirectURIsEqual decides it as well.
LEMMA redirectURIsEqualDecides ==
  ASSUME NEW T, NEW a \in Seq(T), NEW b \in Seq(T)
  PROVE  redirectURIsEqual(a, b) <=> b \in Orders(a)
  <1>1. ASSUME redirectURIsEqual(a, b) PROVE b \in Orders(a)
    BY <1>1, CountsMakeOrder DEF redirectURIsEqual
  <1>2. ASSUME b \in Orders(a) PROVE redirectURIsEqual(a, b)
    <2>1. Len(a) = Len(b)
      BY <1>2, OrderIsList
    <2>2. ASSUME NEW x \in ItemsOf(b) PROVE Count(b, x) <= Count(a, x)
      <3>1. Count(b, x) = Count(a, x)
        BY <1>2, OrderKeepsCounts, CountIsAt
      <3>2. Count(a, x) \in Nat
        BY AtFinite, CountIsAt
      <3> QED BY <3>1, <3>2
    <2> QED BY <2>1, <2>2 DEF redirectURIsEqual
  <1> QED BY <1>1, <1>2

-----------------------------------------------------------------------------
(* What the comparison of a provider with its request decides. *)

ProviderInStep(current, desired) ==
  /\ \A a \in ProviderRequired : desired.attributes[a] = current.attributes[a]
  /\ \A a \in ProviderOptional : desired.attributes[a] \in {Unset, current.attributes[a]}
  /\ \A l \in ProviderLists : desired.lists[l] \in Orders(current.lists[l])

LEMMA ItemsAreNumbers ==
  ASSUME NEW list \in Seq(Items)
  PROVE  list \in Seq(Nat)
  <1>1. list \in [1..Len(list) -> Nat] /\ Len(list) \in Nat
    BY ListPositions, ValuesAssumption
  <1> QED BY <1>1, FunctionIsList

LEMMA ProviderComparisonDecides ==
  ASSUME NEW current \in Provider, NEW desired \in Provider
  PROVE  ~ProviderNeedsUpdate(current, desired) <=> ProviderInStep(current, desired)
  <1>1. \A l \in ProviderLists : /\ current.lists[l] \in Seq(Items) /\ desired.lists[l] \in Seq(Items)
                                 /\ current.lists[l] \in Seq(Nat) /\ desired.lists[l] \in Seq(Nat)
    <2>1. \A l \in ProviderLists : current.lists[l] \in Seq(Items) /\ desired.lists[l] \in Seq(Items)
      BY DEF Provider
    <2>2. \A list \in Seq(Items) : list \in Seq(Nat)
      BY ItemsAreNumbers
    <2> QED BY <2>1, <2>2
  <1>2. redirectURIsEqual(current.lists["redirect_uris"], desired.lists["redirect_uris"])
          <=> desired.lists["redirect_uris"] \in Orders(current.lists["redirect_uris"])
    BY <1>1, redirectURIsEqualDecides DEF ProviderLists
  <1>3. \A l \in {"property_mappings", "grant_types"} :
          StringSetEqual(current.lists[l], desired.lists[l])
            <=> desired.lists[l] \in Orders(current.lists[l])
    BY <1>1, StringSetEqualDecides DEF ProviderLists
  <1>4. \A a \in ProviderOptional :
          ~OptionalDiffers(current.attributes, desired.attributes, a)
            <=> desired.attributes[a] \in {Unset, current.attributes[a]}
    BY DEF OptionalDiffers
  <1>5. \A l : l \in ProviderLists <=> l = "redirect_uris" \/ l \in {"property_mappings", "grant_types"}
    BY DEF ProviderLists
  <1> QED BY <1>2, <1>3, <1>4, <1>5, Zenon DEF ProviderNeedsUpdate, ProviderInStep

ApplicationInStep(current, desired) ==
  /\ \A a \in ApplicationRequired : desired[a] = current[a]
  /\ \A a \in ApplicationOptional : desired[a] \in {Unset, current[a]}

LEMMA ApplicationComparisonDecides ==
  ASSUME NEW current, NEW desired
  PROVE  ~ApplicationNeedsUpdate(current, desired) <=> ApplicationInStep(current, desired)
  BY DEF ApplicationNeedsUpdate, ApplicationInStep, OptionalDiffers

-----------------------------------------------------------------------------
(* Authentik's side. *)

LEMMA PutType ==
  ASSUME NEW D, NEW current \in [D -> Values \union {Unset}],
         NEW sent \in [D -> Values \union {Unset}]
  PROVE  /\ Put(current, sent) \in [D -> Values \union {Unset}]
         /\ \A a \in D : sent[a] # Unset => Put(current, sent)[a] = sent[a]
  BY DEF Put

LEMMA DefaultedType ==
  ASSUME NEW D, NEW sent \in [D -> Values \union {Unset}], NEW attributes \in Defaulted(sent)
  PROVE  /\ attributes \in [D -> Values \union {Unset}]
         /\ \A a \in D : sent[a] # Unset => attributes[a] = sent[a]
  <1>1. PICK v \in Values \union {Unset} : attributes = Put([a \in DOMAIN sent |-> v], sent)
    BY DEF Defaulted
  <1>2. [a \in DOMAIN sent |-> v] \in [D -> Values \union {Unset}]
    OBVIOUS
  <1> QED BY <1>1, <1>2, PutType

\* A list that is sent is what Authentik has then, in an order of its own; one
\* that is not stays.
LEMMA PutListsType ==
  ASSUME NEW current \in [ProviderLists -> Seq(Items)], NEW sent \in [ProviderLists -> Seq(Items)],
         NEW lists \in PutLists(current, sent)
  PROVE  /\ lists \in [ProviderLists -> Seq(Items)]
         /\ \A l \in ProviderLists : IF sent[l] = <<>> THEN lists[l] = current[l]
                                     ELSE lists[l] \in Orders(sent[l])
  <1>1. /\ lists \in [ProviderLists -> UNION {PutList(current[l], sent[l]) : l \in ProviderLists}]
        /\ \A l \in ProviderLists : lists[l] \in PutList(current[l], sent[l])
    BY DEF PutLists, ProviderLists
  <1>2. \A l \in ProviderLists : IF sent[l] = <<>> THEN lists[l] = current[l]
                                 ELSE lists[l] \in Orders(sent[l])
    BY <1>1 DEF PutList
  <1>3. \A l \in ProviderLists : lists[l] \in Seq(Items)
    <2> SUFFICES ASSUME NEW l \in ProviderLists PROVE lists[l] \in Seq(Items)
      OBVIOUS
    <2>1. current[l] \in Seq(Items) /\ sent[l] \in Seq(Items)
      OBVIOUS
    <2>2. CASE sent[l] = <<>>
      BY <1>2, <2>1, <2>2
    <2>3. CASE sent[l] # <<>>
      BY <1>2, <2>1, <2>3, OrderIsList
    <2> QED BY <2>2, <2>3
  <1> QED BY <1>1, <1>2, <1>3

-----------------------------------------------------------------------------
(* Types. *)

LEMMA RequestType ==
  ASSUME request \in Request
  PROVE  /\ request.provider \in ProviderRequests /\ request.provider \in Provider
         /\ request.provider.attributes \in [ProviderAttributes -> Values \union {Unset}]
         /\ request.provider.lists \in [ProviderLists -> Seq(Items)]
         /\ request.application \in ApplicationRequests /\ request.application \in Application
  BY RequestsAssumption DEF Request, Provider

\* A change of one attribute or one list leaves a provider.
LEMMA AdminEditsType ==
  ASSUME TypeOK, AdminEdits
  PROVE  provider' \in Provider \union {None} /\ application' \in Application \union {None}
  <1> DEFINE Kept == provider' \in Provider \union {None} /\ application' \in Application \union {None}
  <1>1. ASSUME provider # None, UNCHANGED application,
               NEW a \in ProviderAttributes, NEW v \in Values,
               provider' = [provider EXCEPT !.attributes[a] = v]
        PROVE  Kept
    BY <1>1 DEF TypeOK, Provider
  <1>2. ASSUME provider # None, UNCHANGED application,
               NEW l \in ProviderLists, NEW new \in Seq(Items),
               provider' = [provider EXCEPT !.lists[l] = new]
        PROVE  Kept
    BY <1>2 DEF TypeOK, Provider
  <1>3. ASSUME provider # None, NEW l \in ProviderLists, NEW i \in DOMAIN provider.lists[l],
               NEW x \in Items
        PROVE  [provider.lists[l] EXCEPT ![i] = x] \in Seq(Items)
    <2>1. provider.lists[l] \in Seq(Items)
      BY <1>3 DEF TypeOK, Provider
    <2> QED BY <2>1
  <1>4. ASSUME provider # None, NEW l \in ProviderLists, NEW x \in Items
        PROVE  Append(provider.lists[l], x) \in Seq(Items)
    <2>1. provider.lists[l] \in Seq(Items)
      BY <1>4 DEF TypeOK, Provider
    <2> QED BY <2>1
  <1>5. ASSUME application # None, UNCHANGED provider,
               NEW a \in ApplicationAttributes, NEW v \in Values,
               application' = [application EXCEPT ![a] = v]
        PROVE  Kept
    BY <1>5 DEF TypeOK, Application
  <1>6. ASSUME provider # None, UNCHANGED application,
               NEW l \in ProviderLists, NEW i \in Items, NEW x \in Items,
               i \in DOMAIN provider.lists[l],
               provider' = [provider EXCEPT !.lists[l][i] = x]
        PROVE  Kept
    <2>1. provider' = [provider EXCEPT !.lists[l] = [provider.lists[l] EXCEPT ![i] = x]]
      BY <1>6
    <2> QED BY <1>2, <1>3, <1>6, <2>1
  <1>7. ASSUME provider # None, UNCHANGED application,
               NEW l \in ProviderLists, NEW x \in Items,
               provider' = [provider EXCEPT !.lists[l] = Append(@, x)]
        PROVE  Kept
    <2>1. provider' = [provider EXCEPT !.lists[l] = Append(provider.lists[l], x)]
      BY <1>7
    <2> QED BY <1>2, <1>4, <1>7, <2>1
  <1> QED BY <1>1, <1>5, <1>6, <1>7 DEF AdminEdits

LEMMA TypesKept == TypeOK /\ [Next]_vars => TypeOK'
  <1> SUFFICES ASSUME TypeOK, [Next]_vars PROVE TypeOK'
    OBVIOUS
  <1>r. request \in Request
    BY DEF TypeOK
  <1>1. CASE CreateProvider
    <2>1. PICK attributes \in Defaulted(request.provider.attributes),
               lists \in PutLists(request.provider.lists, request.provider.lists) :
            provider' = [attributes |-> attributes, lists |-> lists]
      BY <1>1 DEF CreateProvider
    <2>2. /\ attributes \in [ProviderAttributes -> Values \union {Unset}]
          /\ lists \in [ProviderLists -> Seq(Items)]
      BY <1>r, RequestType, DefaultedType, PutListsType
    <2>3. provider' \in Provider
      BY <2>1, <2>2 DEF Provider
    <2> QED BY <1>1, <2>3 DEF CreateProvider, TypeOK
  <1>2. CASE UpdateProvider
    <2>1. PICK lists \in PutLists(provider.lists, request.provider.lists) :
            provider' = [attributes |-> Put(provider.attributes, request.provider.attributes),
                         lists |-> lists]
      BY <1>2 DEF UpdateProvider
    <2>2. /\ provider.attributes \in [ProviderAttributes -> Values \union {Unset}]
          /\ provider.lists \in [ProviderLists -> Seq(Items)]
      BY <1>2 DEF UpdateProvider, TypeOK, Provider
    <2>3. /\ Put(provider.attributes, request.provider.attributes)
               \in [ProviderAttributes -> Values \union {Unset}]
          /\ lists \in [ProviderLists -> Seq(Items)]
      BY <1>r, <2>2, RequestType, PutType, PutListsType
    <2>4. provider' \in Provider
      BY <2>1, <2>3 DEF Provider
    <2> QED BY <1>2, <2>4 DEF UpdateProvider, TypeOK
  <1>3. CASE CreateApplication
    <2>1. application' \in Application
      BY <1>r, <1>3, RequestType, DefaultedType DEF CreateApplication, Application
    <2> QED BY <1>3, <2>1 DEF CreateApplication, TypeOK
  <1>4. CASE UpdateApplication
    <2>1. application' \in Application
      BY <1>r, <1>4, RequestType, PutType DEF UpdateApplication, Application, TypeOK
    <2> QED BY <1>4, <2>1 DEF UpdateApplication, TypeOK
  <1>5. CASE EditSpec
    BY <1>5, BoundsAssumption DEF EditSpec, TypeOK
  <1>6. CASE AdminEdits
    <2>1. provider' \in Provider \union {None} /\ application' \in Application \union {None}
      BY <1>6, AdminEditsType
    <2> QED BY <1>6, <2>1, BoundsAssumption DEF AdminEdits, TypeOK
  <1>7. CASE UNCHANGED vars
    BY <1>7 DEF vars, TypeOK
  <1> QED BY <1>1, <1>2, <1>3, <1>4, <1>5, <1>6, <1>7 DEF Next, Reconcile

\* What Authentik holds is a provider and an application, whatever is sent,
\* left out, reordered or edited.
THEOREM AttributeTypes == Spec => []TypeOK
  <1>1. Init => TypeOK
    BY BoundsAssumption DEF Init, TypeOK
  <1> QED BY <1>1, TypesKept, PTL DEF Spec

-----------------------------------------------------------------------------
(* The properties. *)

\* When a reconcile has nothing to update, every attribute the request sets and
\* every item of its lists is what Authentik holds (ProviderNeedsUpdate,
\* ApplicationNeedsUpdate).
THEOREM NoDriftUnseen == Spec => []DriftSeen
  <1>1. TypeOK => DriftSeen
    <2> SUFFICES ASSUME TypeOK PROVE DriftSeen
      OBVIOUS
    <2>1. request \in Request
      BY DEF TypeOK
    <2>2. ASSUME provider # None, ~ProviderNeedsUpdate(provider, request.provider)
          PROVE  ProviderInStep(provider, request.provider)
      <3>1. provider \in Provider
        BY <2>2 DEF TypeOK
      <3> QED BY <2>1, <2>2, <3>1, RequestType, ProviderComparisonDecides
    <2>3. ASSUME ProviderInStep(provider, request.provider)
          PROVE  /\ \A a \in ProviderAttributes \ ProviderUncompared :
                      request.provider.attributes[a] \in {Unset, provider.attributes[a]}
                 /\ \A l \in ProviderLists : Reordered(provider.lists[l], request.provider.lists[l])
      BY <2>3 DEF ProviderInStep, ProviderAttributes, Reordered
    <2>4. ASSUME application # None, ~ApplicationNeedsUpdate(application, request.application)
          PROVE  \A a \in ApplicationAttributes : request.application[a] \in {Unset, application[a]}
      BY <2>4, ApplicationComparisonDecides DEF ApplicationInStep, ApplicationAttributes
    <2> QED BY <2>2, <2>3, <2>4 DEF DriftSeen
  <1> QED BY <1>1, AttributeTypes, PTL

\* What Authentik holds of a provider once it has been sent desired.
Sent(current, desired) ==
  /\ \A a \in ProviderAttributes :
       desired.attributes[a] # Unset => current.attributes[a] = desired.attributes[a]
  /\ \A l \in ProviderLists :
       desired.lists[l] # <<>> => current.lists[l] \in Orders(desired.lists[l])

\* That is in step, but for lists that are not sent when empty.
LEMMA SentIsInStep ==
  ASSUME NEW current \in Provider, NEW desired \in ProviderRequests, Sent(current, desired),
         \A l \in ProviderLists : desired.lists[l] = <<>> => current.lists[l] = <<>>
  PROVE  ~ProviderNeedsUpdate(current, desired)
  <1>1. desired \in Provider
    BY RequestsAssumption
  <1>2. \A a \in ProviderRequired : desired.attributes[a] # Unset /\ a \in ProviderAttributes
    BY RequestsAssumption DEF ProviderAttributes
  <1>3. \A a \in ProviderOptional : a \in ProviderAttributes
    BY DEF ProviderAttributes
  <1>4. ASSUME NEW l \in ProviderLists
        PROVE  desired.lists[l] \in Orders(current.lists[l])
    <2>1. desired.lists[l] \in Seq(Items) /\ current.lists[l] \in Seq(Items)
      BY <1>1 DEF Provider
    <2>2. CASE desired.lists[l] # <<>>
      <3>1. current.lists[l] \in Orders(desired.lists[l])
        BY <2>2 DEF Sent
      <3> QED BY <2>1, <3>1, OrderSymmetric
    <2>3. CASE desired.lists[l] = <<>>
      <3>1. desired.lists[l] \in Orders(desired.lists[l])
        BY <2>1, OrderReflexive
      <3> QED BY <2>3, <3>1
    <2> QED BY <2>2, <2>3
  <1>5. ProviderInStep(current, desired)
    BY <1>2, <1>3, <1>4 DEF ProviderInStep, Sent
  <1> QED BY <1>1, <1>5, ProviderComparisonDecides

\* A provider that was made or updated needs no update, unless Authentik keeps
\* a list that the spec has emptied.
LEMMA ProviderSettles ==
  ASSUME TypeOK, CreateProvider \/ UpdateProvider
  PROVE  \/ \E l \in ProviderLists : request.provider.lists[l] = <<>> /\ provider'.lists[l] # <<>>
         \/ ~ProviderNeedsUpdate(provider', request.provider)
  <1>r. request \in Request
    BY DEF TypeOK
  <1>d. PICK desired \in ProviderRequests : desired = request.provider
    BY <1>r, RequestType
  <1>t. /\ desired.attributes \in [ProviderAttributes -> Values \union {Unset}]
        /\ desired.lists \in [ProviderLists -> Seq(Items)]
    BY RequestsAssumption DEF Provider
  <1>1. \E attributes \in [ProviderAttributes -> Values \union {Unset}],
           current \in [ProviderLists -> Seq(Items)] :
          \E lists \in PutLists(current, desired.lists) :
            /\ provider' = [attributes |-> attributes, lists |-> lists]
            /\ \A a \in ProviderAttributes :
                 desired.attributes[a] # Unset => attributes[a] = desired.attributes[a]
    <2>1. CASE CreateProvider
      <3>1. PICK attributes \in Defaulted(desired.attributes),
                 lists \in PutLists(desired.lists, desired.lists) :
              provider' = [attributes |-> attributes, lists |-> lists]
        BY <1>d, <2>1 DEF CreateProvider
      <3>2. /\ attributes \in [ProviderAttributes -> Values \union {Unset}]
            /\ \A a \in ProviderAttributes :
                 desired.attributes[a] # Unset => attributes[a] = desired.attributes[a]
        BY <1>t, DefaultedType
      <3> QED BY <1>t, <3>1, <3>2
    <2>2. CASE UpdateProvider
      <3>1. PICK lists \in PutLists(provider.lists, desired.lists) :
              provider' = [attributes |-> Put(provider.attributes, desired.attributes),
                           lists |-> lists]
        BY <1>d, <2>2 DEF UpdateProvider
      <3>2. /\ provider.attributes \in [ProviderAttributes -> Values \union {Unset}]
            /\ provider.lists \in [ProviderLists -> Seq(Items)]
        BY <2>2 DEF UpdateProvider, TypeOK, Provider
      <3>3. PICK attributes : attributes = Put(provider.attributes, desired.attributes)
        OBVIOUS
      <3>4. /\ attributes \in [ProviderAttributes -> Values \union {Unset}]
            /\ \A a \in ProviderAttributes :
                 desired.attributes[a] # Unset => attributes[a] = desired.attributes[a]
        BY <1>t, <3>2, <3>3, PutType
      <3> QED BY <3>1, <3>2, <3>3, <3>4
    <2> QED BY <2>1, <2>2
  <1>2. PICK attributes \in [ProviderAttributes -> Values \union {Unset}],
             current \in [ProviderLists -> Seq(Items)] :
          \E lists \in PutLists(current, desired.lists) :
            /\ provider' = [attributes |-> attributes, lists |-> lists]
            /\ \A a \in ProviderAttributes :
                 desired.attributes[a] # Unset => attributes[a] = desired.attributes[a]
    BY <1>1
  <1>l. PICK lists \in PutLists(current, desired.lists) :
          /\ provider' = [attributes |-> attributes, lists |-> lists]
          /\ \A a \in ProviderAttributes :
               desired.attributes[a] # Unset => attributes[a] = desired.attributes[a]
    BY <1>2
  <1>3. /\ lists \in [ProviderLists -> Seq(Items)]
        /\ \A l \in ProviderLists : desired.lists[l] # <<>> => lists[l] \in Orders(desired.lists[l])
    BY <1>t, <1>2, <1>l, PutListsType
  <1>4. provider' \in Provider /\ provider'.attributes = attributes /\ provider'.lists = lists
    BY <1>2, <1>l, <1>3 DEF Provider
  <1>5. Sent(provider', desired)
    BY <1>l, <1>3, <1>4 DEF Sent
  <1> QED BY <1>d, <1>4, <1>5, SentIsInStep

LEMMA ApplicationSettles ==
  ASSUME TypeOK, CreateApplication \/ UpdateApplication
  PROVE  ~ApplicationNeedsUpdate(application', request.application)
  <1> DEFINE desired == request.application
  <1>r. request \in Request
    BY DEF TypeOK
  <1>1. /\ desired \in [ApplicationAttributes -> Values \union {Unset}]
        /\ \A a \in ApplicationRequired : desired[a] # Unset
    BY <1>r, RequestType, RequestsAssumption DEF Application
  <1>4. \A a \in ApplicationAttributes : desired[a] # Unset => application'[a] = desired[a]
    <2>1. CASE CreateApplication
      <3>1. application' \in Defaulted(desired)
        BY <2>1 DEF CreateApplication
      <3> QED BY <1>1, <3>1, DefaultedType
    <2>2. CASE UpdateApplication
      <3>1. /\ application \in [ApplicationAttributes -> Values \union {Unset}]
            /\ application' = Put(application, desired)
        BY <2>2 DEF UpdateApplication, TypeOK, Application
      <3> QED BY <1>1, <3>1, PutType
    <2> QED BY <2>1, <2>2
  <1>5. ApplicationInStep(application', desired)
    BY <1>1, <1>4 DEF ApplicationInStep, ApplicationAttributes
  <1> QED BY <1>5, ApplicationComparisonDecides

\* One update is enough: after it the comparison finds nothing, so that periodic
\* reconciles send nothing (UpdateProvider, UpdateApplication).
THEOREM OneUpdateSettles == Spec => UpdatesSettle
  <1>1. TypeOK /\ [Next]_vars =>
          [ /\ CreateProvider \/ UpdateProvider
              => \/ \E l \in ProviderLists : request.provider.lists[l] = <<>> /\ provider'.lists[l] # <<>>
                 \/ ~ProviderNeedsUpdate(provider', request.provider)
            /\ CreateApplication \/ UpdateApplication
              => ~ApplicationNeedsUpdate(application', request.application) ]_vars
    BY ProviderSettles, ApplicationSettles
  <1> QED BY <1>1, AttributeTypes, PTL DEF Spec, UpdatesSettle
=============================================================================
