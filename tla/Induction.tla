------------------------------ MODULE Induction ------------------------------
(***************************************************************************)
(* Induction over the natural numbers for predicates given as sets, which  *)
(* the provers can instantiate, and what the proofs of this project draw   *)
(* from it: the latest row of a table, sums along a sequence, and sums     *)
(* over a finite set.                                                      *)
(***************************************************************************)
EXTENDS Integers, Sequences, Functions, FiniteSetTheorems, WellFoundedInduction, TLAPS

\* A set of natural numbers that is not empty has a least element.
LEMMA LeastNumber ==
  ASSUME NEW C, C \subseteq Nat, C # {}
  PROVE  \E m \in C : \A n \in C : m <= n
  <1> DEFINE R == OpToRel(<, Nat)
  <1>1. IsWellFoundedOn(R, Nat)
    BY NatLessThanWellFounded
  <1>2. \A x, y \in Nat : <<y, x>> \in R <=> y < x
    BY DEF OpToRel
  <1> HIDE DEF R
  <1>3. PICK m \in C : \A n \in C : ~(<<n, m>> \in R)
    BY <1>1, WFMin
  <1>4. \A n \in C : ~(n < m)
    BY <1>2, <1>3, Zenon
  <1> QED
    BY <1>4

\* What holds of 0, and of n + 1 when it holds of n, holds of every number.
LEMMA ByInduction ==
  ASSUME NEW S, 0 \in S, \A n \in Nat : n \in S => n + 1 \in S
  PROVE  \A n \in Nat : n \in S
  <1> SUFFICES ASSUME NEW k \in Nat, k \notin S PROVE FALSE
    OBVIOUS
  <1> DEFINE C == {n \in Nat : n \notin S}
  <1>1. PICK m \in C : \A n \in C : m <= n
    <2>1. C # {} /\ C \subseteq Nat
      OBVIOUS
    <2> QED
      BY <2>1, LeastNumber
  <1>2. m # 0 /\ m \in Nat
    OBVIOUS
  <1>3. m - 1 \in S /\ m - 1 \in Nat
    BY <1>1, <1>2
  <1> QED
    BY <1>2, <1>3

\* Among some rows of a table, one has the greatest key.
LEMMA GreatestRow ==
  ASSUME NEW N \in Nat, NEW key \in [1..N -> Int], NEW rows \in SUBSET (1..N), rows # {}
  PROVE  \E i \in rows : \A j \in rows : key[j] <= key[i]
  <1> DEFINE S == {n \in Nat : \A T \in SUBSET (rows \cap 1..n) :
                     T # {} => \E i \in T : \A j \in T : key[j] <= key[i]}
  <1>1. 0 \in S
    <2>1. rows \cap 1..0 = {}
      OBVIOUS
    <2>2. \A T \in SUBSET (rows \cap 1..0) : T = {}
      BY <2>1, Zenon
    <2> QED
      BY <2>2
  <1>2. ASSUME NEW n \in Nat, n \in S PROVE n + 1 \in S
    <2> SUFFICES ASSUME NEW T \in SUBSET (rows \cap 1..n + 1), T # {}
                 PROVE  \E i \in T : \A j \in T : key[j] <= key[i]
      OBVIOUS
    <2> DEFINE U == T \ {n + 1}
    <2>1. U \in SUBSET (rows \cap 1..n) /\ \A i \in T : key[i] \in Int
      OBVIOUS
    <2>2. CASE U = {}
      <3>1. T = {n + 1}
        BY <2>2
      <3> QED
        BY <2>1, <3>1
    <2>3. CASE U # {}
      <3>1. PICK i \in U : \A j \in U : key[j] <= key[i]
        BY <1>2, <2>1, <2>3
      <3>2. CASE n + 1 \in T /\ key[n + 1] > key[i]
        <4>1. \A j \in T : key[j] <= key[n + 1]
          BY <2>1, <3>1, <3>2
        <4> QED
          BY <3>2, <4>1
      <3>3. CASE ~(n + 1 \in T /\ key[n + 1] > key[i])
        <4>1. \A j \in T : key[j] <= key[i]
          BY <2>1, <3>1, <3>3
        <4> QED
          BY <4>1
      <3> QED
        BY <3>2, <3>3
    <2> QED
      BY <2>2, <2>3
  <1>3. \A n \in Nat : n \in S
    <2> HIDE DEF S
    <2> QED
      BY <1>1, <1>2, ByInduction
  <1>4. rows \cap 1..N = rows /\ N \in S
    BY <1>3
  <1> QED
    BY <1>4

-----------------------------------------------------------------------------
\* f is the sequence of the sums of d: f[k] = d[1] + ... + d[k].
Sums(f, d, n) ==
  /\ f \in [0..n -> Int] /\ f[0] = 0
  /\ \A k \in 1..n : f[k] = f[k - 1] + d[k]

LEMMA SumsExist ==
  ASSUME NEW n \in Nat, NEW d, \A k \in 1..n : d[k] \in Int
  PROVE  \E f : Sums(f, d, n)
  <1> DEFINE S == {m \in Nat : m <= n => \E f : Sums(f, d, m)}
  <1>1. 0 \in S
    <2> DEFINE f == [k \in 0..0 |-> 0]
    <2>1. Sums(f, d, 0)
      BY DEF Sums
    <2> QED
      BY <2>1
  <1>2. ASSUME NEW m \in Nat, m \in S PROVE m + 1 \in S
    <2> SUFFICES ASSUME m + 1 <= n PROVE \E f : Sums(f, d, m + 1)
      OBVIOUS
    <2>1. PICK f : Sums(f, d, m)
      BY <1>2
    <2> DEFINE g == [k \in 0..m + 1 |-> IF k = m + 1 THEN f[m] + d[m + 1] ELSE f[k]]
    <2>2. f[m] \in Int /\ d[m + 1] \in Int /\ f \in [0..m -> Int]
      BY <2>1 DEF Sums
    <2>3. g \in [0..m + 1 -> Int] /\ g[0] = 0
      BY <2>1, <2>2 DEF Sums
    <2>4. ASSUME NEW k \in 1..m + 1 PROVE g[k] = g[k - 1] + d[k]
      BY <2>1, <2>2 DEF Sums
    <2>5. Sums(g, d, m + 1)
      BY <2>3, <2>4 DEF Sums
    <2> QED
      BY <2>5
  <1>3. \A m \in Nat : m \in S
    <2> HIDE DEF S
    <2> QED
      BY <1>1, <1>2, ByInduction
  <1> QED
    BY <1>3

\* Sums of what agrees up to m agree up to m.
LEMMA SumsAgree ==
  ASSUME NEW n \in Nat, NEW m \in Nat, NEW d, NEW e, NEW f, NEW g,
         Sums(f, d, n), Sums(g, e, m), m <= n, \A k \in 1..m : d[k] = e[k]
  PROVE  f[m] = g[m]
  <1> DEFINE S == {k \in Nat : k <= m => f[k] = g[k]}
  <1>1. 0 \in S
    BY DEF Sums
  <1>2. ASSUME NEW k \in Nat, k \in S PROVE k + 1 \in S
    <2> SUFFICES ASSUME k + 1 <= m PROVE f[k + 1] = g[k + 1]
      OBVIOUS
    <2>1. f[k] = g[k] /\ k + 1 \in 1..m /\ k + 1 \in 1..n /\ k + 1 - 1 = k
      BY <1>2
    <2> QED
      BY <2>1 DEF Sums
  <1>3. \A k \in Nat : k \in S
    <2> HIDE DEF S
    <2> QED
      BY <1>1, <1>2, ByInduction
  <1> QED
    BY <1>3

\* Sums of numbers that are not negative are not.
LEMMA SumsNotNegative ==
  ASSUME NEW n \in Nat, NEW d, NEW f, Sums(f, d, n), \A k \in 1..n : d[k] \in Nat
  PROVE  f[n] \in Nat
  <1> DEFINE S == {k \in Nat : k <= n => f[k] \in Nat}
  <1>1. 0 \in S
    BY DEF Sums
  <1>2. ASSUME NEW k \in Nat, k \in S PROVE k + 1 \in S
    <2> SUFFICES ASSUME k + 1 <= n PROVE f[k + 1] \in Nat
      OBVIOUS
    <2>1. f[k] \in Nat /\ k + 1 \in 1..n /\ k + 1 - 1 = k /\ d[k + 1] \in Nat
      BY <1>2
    <2> QED
      BY <2>1 DEF Sums
  <1>3. \A k \in Nat : k \in S
    <2> HIDE DEF S
    <2> QED
      BY <1>1, <1>2, ByInduction
  <1> QED
    BY <1>3

\* A function that satisfies the recursive equation of a sum consists of the sums, and the
\* sums satisfy the equation.
LEMMA SumsByRecursion ==
  ASSUME NEW n \in Nat, NEW d, \A k \in 1..n : d[k] \in Int, NEW f
  PROVE  Sums(f, d, n) <=> f = [k \in 0..n |-> IF k = 0 THEN 0 ELSE f[k - 1] + d[k]]
  <1> DEFINE g == [k \in 0..n |-> IF k = 0 THEN 0 ELSE f[k - 1] + d[k]]
  <1>1. ASSUME Sums(f, d, n) PROVE f = g
    <2>1. f \in [0..n -> Int] /\ f[0] = 0 /\ \A k \in 1..n : f[k] = f[k - 1] + d[k]
      BY <1>1 DEF Sums
    <2>2. \A k \in 0..n : f[k] = g[k]
      BY <2>1
    <2> QED
      BY <2>1, <2>2
  <1>2. ASSUME f = g PROVE Sums(f, d, n)
    <2>1. DOMAIN f = 0..n /\ f[0] = 0
      BY <1>2
    <2>2. \A k \in 1..n : f[k] = f[k - 1] + d[k]
      <3> SUFFICES ASSUME NEW k \in 1..n PROVE f[k] = f[k - 1] + d[k]
        OBVIOUS
      <3>1. f[k] = g[k]
        BY <1>2
      <3> QED
        BY <3>1
    <2> DEFINE S == {k \in Nat : k <= n => f[k] \in Int}
    <2>3. 0 \in S
      BY <2>1
    <2>4. ASSUME NEW k \in Nat, k \in S PROVE k + 1 \in S
      <3> SUFFICES ASSUME k + 1 <= n PROVE f[k + 1] \in Int
        OBVIOUS
      <3>1. f[k] \in Int /\ k + 1 \in 1..n /\ k + 1 - 1 = k
        BY <2>4
      <3> QED
        BY <2>2, <3>1
    <2>5. \A k \in Nat : k \in S
      <3> HIDE DEF S
      <3> QED
        BY <2>3, <2>4, ByInduction
    <2>6. f = [k \in 0..n |-> f[k]]
      BY <1>2
    <2>7. f \in [0..n -> Int]
      BY <2>5, <2>6
    <2> QED
      BY <2>1, <2>2, <2>7 DEF Sums
  <1> QED
    BY <1>1, <1>2

-----------------------------------------------------------------------------
(***************************************************************************)
(* SumFunctionOnSet takes the elements of a set in an order nobody knows.  *)
(***************************************************************************)

Pick(s) == CHOOSE x \in s : TRUE
SumFrom(f, it, s) == IF s = {} THEN 0 ELSE f[Pick(s)] + it[s \ {Pick(s)}]

\* it holds the sum of f over each subset of S.
SubsetSums(f, S, it) == it = [s \in SUBSET S |-> SumFrom(f, it, s)]

LEMMA SumIsIteration ==
  ASSUME NEW f, NEW S
  PROVE  SumFunctionOnSet(f, S) = (CHOOSE it : SubsetSums(f, S, it))[S]
  BY DEF SumFunctionOnSet, FoldFunctionOnSet, MapThenFoldSet, SubsetSums, SumFrom, Pick

LEMMA Picked ==
  ASSUME NEW S, IsFiniteSet(S), NEW s \in SUBSET S, s # {}
  PROVE  /\ Pick(s) \in s /\ Pick(s) \in S /\ s \ {Pick(s)} \in SUBSET S
         /\ IsFiniteSet(s) /\ Cardinality(s) \in Nat \ {0}
         /\ Cardinality(s \ {Pick(s)}) = Cardinality(s) - 1
  <1>1. Pick(s) \in s
    BY DEF Pick
  <1>2. IsFiniteSet(s)
    BY FS_Subset
  <1>3. Cardinality(s) \in Nat /\ Cardinality(s) # 0
    BY <1>2, FS_CardinalityType, FS_EmptySet
  <1>4. Cardinality(s \ {Pick(s)}) = Cardinality(s) - 1
    BY <1>1, <1>2, FS_RemoveElement
  <1> QED
    BY <1>1, <1>2, <1>3, <1>4

LEMMA IterationExists ==
  ASSUME NEW S, IsFiniteSet(S), NEW f, \A x \in S : f[x] \in Int
  PROVE  \E it : SubsetSums(f, S, it)
  <1> DEFINE Small(n) == {s \in SUBSET S : Cardinality(s) <= n}
             Good(n) == \E it \in [Small(n) -> Int] :
                          \A s \in Small(n) : it[s] = SumFrom(f, it, s)
             N == {n \in Nat : Good(n)}
  <1>1. 0 \in N
    <2> DEFINE it == [s \in Small(0) |-> 0]
    <2>1. \A s \in Small(0) : s = {}
      <3> SUFFICES ASSUME NEW s \in SUBSET S, Cardinality(s) <= 0 PROVE s = {}
        OBVIOUS
      <3>1. IsFiniteSet(s) /\ Cardinality(s) \in Nat
        BY FS_Subset, FS_CardinalityType
      <3> QED
        BY <3>1, FS_EmptySet
    <2>2. it \in [Small(0) -> Int] /\ \A s \in Small(0) : it[s] = SumFrom(f, it, s)
      BY <2>1 DEF SumFrom
    <2> QED
      BY <2>2
  <1>2. ASSUME NEW n \in Nat, n \in N PROVE n + 1 \in N
    <2>1. PICK it \in [Small(n) -> Int] : \A s \in Small(n) : it[s] = SumFrom(f, it, s)
      BY <1>2
    <2> DEFINE jt == [s \in Small(n + 1) |-> SumFrom(f, it, s)]
    <2>2. ASSUME NEW s \in Small(n + 1), s # {}
          PROVE  s \ {Pick(s)} \in Small(n) /\ s \ {Pick(s)} \in Small(n + 1) /\ Pick(s) \in S
      <3>1. s \in SUBSET S /\ Cardinality(s) <= n + 1
        OBVIOUS
      <3> HIDE DEF Small
      <3>2. /\ Pick(s) \in S /\ s \ {Pick(s)} \in SUBSET S /\ Cardinality(s) \in Nat
            /\ Cardinality(s \ {Pick(s)}) = Cardinality(s) - 1
        BY <2>2, <3>1, Picked
      <3> QED
        BY <3>1, <3>2 DEF Small
    <2>3. jt \in [Small(n + 1) -> Int]
      <3> SUFFICES ASSUME NEW s \in Small(n + 1) PROVE SumFrom(f, it, s) \in Int
        OBVIOUS
      <3>1. CASE s = {}
        BY <3>1 DEF SumFrom
      <3>2. CASE s # {}
        <4>1. s \ {Pick(s)} \in Small(n) /\ Pick(s) \in S
          BY <2>2, <3>2
        <4> HIDE DEF Small
        <4> QED
          BY <2>1, <3>2, <4>1 DEF SumFrom
      <3> QED
        BY <3>1, <3>2
    <2>4. \A t \in Small(n) : t \in Small(n + 1) /\ jt[t] = it[t]
      <3>1. \A t \in Small(n) : Cardinality(t) \in Nat
        BY FS_Subset, FS_CardinalityType
      <3>2. \A t \in Small(n) : t \in Small(n + 1)
        BY <3>1
      <3> HIDE DEF Small
      <3> QED
        BY <2>1, <3>2
    <2>5. ASSUME NEW s \in Small(n + 1) PROVE jt[s] = SumFrom(f, jt, s)
      <3>1. CASE s = {}
        BY <3>1 DEF SumFrom
      <3>2. CASE s # {}
        <4>1. s \ {Pick(s)} \in Small(n)
          BY <2>2, <3>2
        <4>2. jt[s \ {Pick(s)}] = it[s \ {Pick(s)}]
          <5> HIDE DEF jt, Small
          <5> QED
            BY <2>4, <4>1
        <4>3. jt[s] = f[Pick(s)] + it[s \ {Pick(s)}]
          <5> HIDE DEF Small
          <5> QED
            BY <3>2 DEF SumFrom
        <4> QED
          BY <3>2, <4>2, <4>3 DEF SumFrom
      <3> QED
        BY <3>1, <3>2
    <2>6. Good(n + 1)
      <3> HIDE DEF jt, Small
      <3> QED
        BY <2>3, <2>5
    <2> HIDE DEF Good
    <2> QED
      BY <2>6
  <1>3. \A n \in Nat : n \in N
    <2> HIDE DEF N
    <2> QED
      BY <1>1, <1>2, ByInduction
  <1>4. Cardinality(S) \in Nat /\ \A s \in SUBSET S : Cardinality(s) <= Cardinality(S)
    BY FS_CardinalityType, FS_Subset
  <1>5. Small(Cardinality(S)) = SUBSET S
    BY <1>4
  <1>6. Good(Cardinality(S))
    BY <1>3, <1>4
  <1>7. PICK it \in [SUBSET S -> Int] : \A s \in SUBSET S : it[s] = SumFrom(f, it, s)
    <2> HIDE DEF Small
    <2> QED
      BY <1>5, <1>6
  <1>8. it = [s \in SUBSET S |-> SumFrom(f, it, s)]
    BY <1>7
  <1> QED
    BY <1>8 DEF SubsetSums

\* Sums of what agrees on T agree on T and its subsets.
LEMMA IterationsAgree ==
  ASSUME NEW S, IsFiniteSet(S), NEW T \in SUBSET S, NEW f, NEW g,
         \A x \in T : f[x] \in Int /\ g[x] = f[x],
         NEW it, SubsetSums(f, S, it), NEW jt, SubsetSums(g, T, jt)
  PROVE  \A s \in SUBSET T : it[s] \in Int /\ jt[s] = it[s]
  <1> DEFINE N == {n \in Nat : \A s \in SUBSET T :
                     Cardinality(s) = n => it[s] \in Int /\ jt[s] = it[s]}
  <1>1. IsFiniteSet(T)
    BY FS_Subset
  <1>2. ASSUME NEW s \in SUBSET T PROVE it[s] = SumFrom(f, it, s) /\ jt[s] = SumFrom(g, jt, s)
    BY DEF SubsetSums
  <1>3. 0 \in N
    <2> SUFFICES ASSUME NEW s \in SUBSET T, Cardinality(s) = 0
                 PROVE  it[s] \in Int /\ jt[s] = it[s]
      OBVIOUS
    <2>1. s = {}
      BY <1>1, FS_Subset, FS_EmptySet
    <2>2. it[s] = SumFrom(f, it, s) /\ jt[s] = SumFrom(g, jt, s)
      BY <1>2
    <2>3. it[s] = 0 /\ jt[s] = 0
      BY <2>1, <2>2 DEF SumFrom
    <2> QED
      BY <2>3
  <1>4. ASSUME NEW n \in Nat, n \in N PROVE n + 1 \in N
    <2> SUFFICES ASSUME NEW s \in SUBSET T, Cardinality(s) = n + 1
                 PROVE  it[s] \in Int /\ jt[s] = it[s]
      OBVIOUS
    <2>1. s # {}
      BY FS_EmptySet
    <2> DEFINE t == s \ {Pick(s)}
    <2>2. t \in SUBSET T /\ Cardinality(t) = n /\ Pick(s) \in T
      BY <1>1, <2>1, Picked
    <2>3. it[t] \in Int /\ jt[t] = it[t]
      <3> HIDE DEF t
      <3> QED
        BY <1>4, <2>2
    <2>4. it[s] = f[Pick(s)] + it[t] /\ jt[s] = g[Pick(s)] + jt[t]
      BY <1>2, <2>1 DEF SumFrom
    <2>5. f[Pick(s)] \in Int /\ g[Pick(s)] = f[Pick(s)]
      BY <2>2
    <2> HIDE DEF t
    <2> QED
      BY <2>3, <2>4, <2>5
  <1>5. \A n \in Nat : n \in N
    <2> HIDE DEF N
    <2> QED
      BY <1>3, <1>4, ByInduction
  <1>6. \A s \in SUBSET T : Cardinality(s) \in Nat
    BY <1>1, FS_Subset, FS_CardinalityType
  <1> QED
    BY <1>5, <1>6

LEMMA SumIterated ==
  ASSUME NEW S, IsFiniteSet(S), NEW f, \A x \in S : f[x] \in Int
  PROVE  \E it : SubsetSums(f, S, it) /\ SumFunctionOnSet(f, S) = it[S]
  BY IterationExists, SumIsIteration, Zenon

\* The sum over a set depends on nothing but the values on it.
LEMMA SumsOfEquals ==
  ASSUME NEW S, IsFiniteSet(S), NEW f, NEW g, \A x \in S : f[x] \in Int /\ g[x] = f[x]
  PROVE  SumFunctionOnSet(f, S) \in Int /\ SumFunctionOnSet(g, S) = SumFunctionOnSet(f, S)
  <1>1. PICK it : SubsetSums(f, S, it) /\ SumFunctionOnSet(f, S) = it[S]
    BY SumIterated
  <1>2. \A x \in S : g[x] \in Int
    OBVIOUS
  <1>3. PICK jt : SubsetSums(g, S, jt) /\ SumFunctionOnSet(g, S) = jt[S]
    BY <1>2, SumIterated
  <1>4. S \in SUBSET S /\ SubsetSums(f, S, it) /\ SubsetSums(g, S, jt)
    BY <1>1, <1>3
  <1>5. \A s \in SUBSET S : it[s] \in Int /\ jt[s] = it[s]
    BY <1>4, IterationsAgree, SMTT(30)
  <1> QED
    BY <1>1, <1>3, <1>4, <1>5

LEMMA SumOfNothing ==
  ASSUME NEW f
  PROVE  SumFunctionOnSet(f, {}) = 0
  <1>1. IsFiniteSet({})
    BY FS_EmptySet
  <1>2. PICK it : SubsetSums(f, {}, it) /\ SumFunctionOnSet(f, {}) = it[{}]
    BY <1>1, SumIterated
  <1> QED
    BY <1>2 DEF SubsetSums, SumFrom

\* The element that is picked first ...
LEMMA SumPicked ==
  ASSUME NEW S, IsFiniteSet(S), S # {}, NEW f, \A x \in S : f[x] \in Int
  PROVE  SumFunctionOnSet(f, S) = f[Pick(S)] + SumFunctionOnSet(f, S \ {Pick(S)})
  <1> DEFINE T == S \ {Pick(S)}
  <1>1. PICK it : SubsetSums(f, S, it) /\ SumFunctionOnSet(f, S) = it[S]
    BY SumIterated
  <1>2. it[S] = f[Pick(S)] + it[T]
    BY <1>1 DEF SubsetSums, SumFrom
  <1>3. T \in SUBSET S /\ IsFiniteSet(T) /\ \A x \in T : f[x] \in Int
    BY FS_Subset
  <1> HIDE DEF T
  <1>4. PICK jt : SubsetSums(f, T, jt) /\ SumFunctionOnSet(f, T) = jt[T]
    BY <1>3, SumIterated
  <1>5. jt[T] = it[T]
    BY <1>1, <1>3, <1>4, IterationsAgree
  <1> QED
    BY <1>1, <1>2, <1>4, <1>5 DEF T

\* ... and any other may be taken out of the sum.
LEMMA SumWithout ==
  ASSUME NEW S, IsFiniteSet(S), NEW f, \A x \in S : f[x] \in Int, NEW y \in S
  PROVE  SumFunctionOnSet(f, S) = f[y] + SumFunctionOnSet(f, S \ {y})
  <1> DEFINE Out(s) == \A x \in s : SumFunctionOnSet(f, s) = f[x] + SumFunctionOnSet(f, s \ {x})
             N == {n \in Nat : \A s \in SUBSET S : Cardinality(s) = n => Out(s)}
  <1>1. 0 \in N
    <2>1. \A s \in SUBSET S : Cardinality(s) = 0 => s = {}
      BY FS_Subset, FS_EmptySet
    <2> QED
      BY <2>1
  <1>2. ASSUME NEW n \in Nat, n \in N PROVE n + 1 \in N
    <2> SUFFICES ASSUME NEW s \in SUBSET S, Cardinality(s) = n + 1, NEW x \in s
                 PROVE  SumFunctionOnSet(f, s) = f[x] + SumFunctionOnSet(f, s \ {x})
      OBVIOUS
    <2> DEFINE p == Pick(s)
               u == s \ {p}
               v == s \ {x}
               rest == u \ {x}
    <2>1. s # {} /\ IsFiniteSet(s) /\ p \in s
      BY Picked
    <2>2. \A z \in s : f[z] \in Int
      OBVIOUS
    <2>3. SumFunctionOnSet(f, s) = f[p] + SumFunctionOnSet(f, u)
      BY <2>1, <2>2, SumPicked
    <2>4. CASE x = p
      BY <2>3, <2>4
    <2>5. CASE x # p
      <3>1. /\ u \in SUBSET S /\ Cardinality(u) = n /\ x \in u
            /\ v \in SUBSET S /\ Cardinality(v) = n /\ p \in v
            /\ rest = v \ {p} /\ IsFiniteSet(rest)
        <4>1. u \in SUBSET S /\ x \in u /\ v \in SUBSET S /\ p \in v /\ rest = v \ {p}
          BY <2>1, <2>5
        <4>2. Cardinality(u) = n /\ Cardinality(v) = n
          <5>1. \A z \in s : Cardinality(s \ {z}) = Cardinality(s) - 1
            BY <2>1, FS_RemoveElement
          <5>2. Cardinality(u) = n + 1 - 1 /\ Cardinality(v) = n + 1 - 1
            <6> HIDE DEF p
            <6> QED
              BY <2>1, <5>1
          <5> QED
            BY <5>2
        <4>3. IsFiniteSet(rest)
          BY <2>1, FS_Subset
        <4> QED
          BY <4>1, <4>2, <4>3
      <3>2. SumFunctionOnSet(f, rest) \in Int
        <4>1. \A z \in rest : f[z] \in Int
          OBVIOUS
        <4> HIDE DEF rest
        <4> QED
          BY <3>1, <4>1, SumsOfEquals
      <3>3. Out(u) /\ Out(v)
        <4> HIDE DEF Out, u, v
        <4> QED
          BY <1>2, <3>1
      <3>4. SumFunctionOnSet(f, u) = f[x] + SumFunctionOnSet(f, rest)
        BY <3>1, <3>3
      <3>5. SumFunctionOnSet(f, v) = f[p] + SumFunctionOnSet(f, rest)
        BY <3>1, <3>3
      <3>6. f[x] \in Int /\ f[p] \in Int
        BY <2>1
      <3> HIDE DEF u, v, rest
      <3>7. SumFunctionOnSet(f, s) = f[x] + SumFunctionOnSet(f, v)
        BY <2>3, <3>2, <3>4, <3>5, <3>6
      <3> QED
        BY <3>7 DEF v
    <2> QED
      BY <2>4, <2>5
  <1>3. \A n \in Nat : n \in N
    <2> HIDE DEF N
    <2> QED
      BY <1>1, <1>2, ByInduction
  <1>4. Cardinality(S) \in Nat
    BY FS_CardinalityType
  <1> QED
    BY <1>3, <1>4

\* A change of one value changes the sum by as much.
LEMMA SumChanged ==
  ASSUME NEW S, IsFiniteSet(S), NEW y \in S, NEW f, NEW g, g[y] \in Int,
         \A x \in S : f[x] \in Int, \A x \in S \ {y} : g[x] = f[x]
  PROVE  /\ SumFunctionOnSet(f, S) \in Int
         /\ SumFunctionOnSet(g, S) = SumFunctionOnSet(f, S) - f[y] + g[y]
  <1> DEFINE T == S \ {y}
  <1>1. IsFiniteSet(T) /\ \A x \in T : f[x] \in Int /\ g[x] = f[x]
    BY FS_Subset
  <1>2. \A x \in S : g[x] \in Int
    OBVIOUS
  <1>3. SumFunctionOnSet(f, S) = f[y] + SumFunctionOnSet(f, T)
    BY SumWithout
  <1>4. SumFunctionOnSet(g, S) = g[y] + SumFunctionOnSet(g, T)
    BY <1>2, SumWithout
  <1> HIDE DEF T
  <1>5. SumFunctionOnSet(f, T) \in Int /\ SumFunctionOnSet(g, T) = SumFunctionOnSet(f, T)
    BY <1>1, SumsOfEquals
  <1> QED
    BY <1>3, <1>4, <1>5

LEMMA SumOfZeros ==
  ASSUME NEW S, IsFiniteSet(S), NEW f, \A x \in S : f[x] = 0
  PROVE  SumFunctionOnSet(f, S) = 0
  <1> DEFINE N == {n \in Nat : \A s \in SUBSET S :
                     Cardinality(s) = n => SumFunctionOnSet(f, s) = 0}
  <1>1. 0 \in N
    <2>1. \A s \in SUBSET S : Cardinality(s) = 0 => s = {}
      BY FS_Subset, FS_EmptySet
    <2> QED
      BY <2>1, SumOfNothing
  <1>2. ASSUME NEW n \in Nat, n \in N PROVE n + 1 \in N
    <2> SUFFICES ASSUME NEW s \in SUBSET S, Cardinality(s) = n + 1
                 PROVE  SumFunctionOnSet(f, s) = 0
      OBVIOUS
    <2>1. IsFiniteSet(s) /\ s # {}
      <3>1. IsFiniteSet(s)
        BY FS_Subset
      <3>2. Cardinality(s) # 0
        OBVIOUS
      <3> QED
        BY <3>1, <3>2, FS_EmptySet
    <2>2. PICK y : y \in s
      BY <2>1
    <2>3. Cardinality(s \ {y}) = n
      <3>1. Cardinality(s \ {y}) = Cardinality(s) - 1
        BY <2>1, <2>2, FS_RemoveElement
      <3> HIDE DEF N
      <3> QED
        BY <3>1
    <2>4. SumFunctionOnSet(f, s \ {y}) = 0
      BY <1>2, <2>3
    <2>5. SumFunctionOnSet(f, s) = f[y] + SumFunctionOnSet(f, s \ {y})
      <3>1. \A x \in s : f[x] \in Int
        OBVIOUS
      <3> QED
        BY <2>1, <2>2, <3>1, SumWithout
    <2>6. f[y] = 0
      BY <2>2
    <2> QED
      BY <2>4, <2>5, <2>6
  <1>3. \A n \in Nat : n \in N
    <2> HIDE DEF N
    <2> QED
      BY <1>1, <1>2, ByInduction
  <1>4. Cardinality(S) \in Nat
    BY FS_CardinalityType
  <1> QED
    BY <1>3, <1>4
=============================================================================
