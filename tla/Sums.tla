--------------------------------- MODULE Sums ---------------------------------
(***************************************************************************)
(* What the proofs of several modules need about data: induction over the  *)
(* natural numbers and finite sets, and sums of a function over a finite   *)
(* set as the community modules define them.  Induction is stated with     *)
(* sets, because the provers cannot instantiate an operator.               *)
(***************************************************************************)
EXTENDS Integers, Functions, SequencesExt, FiniteSetTheorems, WellFoundedInduction, TLAPS

(* Induction over a set of numbers, and of subsets of a finite set           *)

\* A set of numbers with zero and every successor has them all.
LEMMA Induction ==
  ASSUME NEW S \in SUBSET Nat, 0 \in S, \A n \in S : n + 1 \in S
  PROVE  S = Nat
<1> SUFFICES ASSUME Nat \ S # {} PROVE FALSE
  OBVIOUS
<1>1. PICK m \in Nat \ S : \A k \in Nat \ S : ~ (<<k, m>> \in OpToRel(<, Nat))
  <2>1. IsWellFoundedOn(OpToRel(<, Nat), Nat) /\ Nat \ S \subseteq Nat
    BY NatLessThanWellFounded
  <2> QED BY <2>1, WFMin
<1>2. \A k \in Nat \ S : ~ (k < m)
  BY <1>1 DEF OpToRel
<1>3. m \in Nat /\ m \notin S /\ m # 0
  OBVIOUS
<1>4. m - 1 \in Nat /\ m - 1 < m /\ (m - 1) + 1 = m
  BY <1>3
<1>5. m - 1 \in S
  BY <1>2, <1>4
<1> QED BY <1>3, <1>4, <1>5

LEMMA RemoveOne ==
  ASSUME NEW s, IsFiniteSet(s), NEW n \in Nat, Cardinality(s) = n + 1
  PROVE  s # {} /\ \A x \in s : IsFiniteSet(s \ {x}) /\ Cardinality(s \ {x}) = n
<1>1. s # {}
  <2>1. n + 1 # 0
    OBVIOUS
  <2> QED BY <2>1, FS_EmptySet
<1>2. ASSUME NEW x \in s PROVE IsFiniteSet(s \ {x}) /\ Cardinality(s \ {x}) = n
  <2>1. IsFiniteSet(s \ {x}) /\ Cardinality(s \ {x}) = Cardinality(s) - 1
    BY FS_RemoveElement
  <2>2. (n + 1) - 1 = n
    OBVIOUS
  <2> QED BY <2>1, <2>2
<1> QED BY <1>1, <1>2

\* What holds of no element, and of one more, holds of all of a finite set.
LEMMA FiniteInduction ==
  ASSUME NEW U, IsFiniteSet(U), NEW F, {} \in F,
         \A s \in SUBSET U : \A x \in U \ s : s \in F => s \cup {x} \in F
  PROVE  U \in F
<1> DEFINE S == {n \in Nat : \A s \in SUBSET U : Cardinality(s) = n => s \in F}
<1>1. \A s \in SUBSET U : IsFiniteSet(s) /\ Cardinality(s) \in Nat
  BY FS_Subset, FS_CardinalityType
<1>2. 0 \in S
  <2>1. \A s \in SUBSET U : Cardinality(s) = 0 => s = {}
    BY <1>1, FS_EmptySet
  <2> QED BY <2>1
<1>3. ASSUME NEW n \in S PROVE n + 1 \in S
  <2> SUFFICES ASSUME NEW s \in SUBSET U, Cardinality(s) = n + 1 PROVE s \in F
    BY <1>3
  <2>1. n \in Nat /\ \A t \in SUBSET U : Cardinality(t) = n => t \in F
    BY <1>3
  <2>2. IsFiniteSet(s) /\ s # {} /\ \A x \in s : Cardinality(s \ {x}) = n
    BY <1>1, <2>1, RemoveOne
  <2>3. PICK x \in s : TRUE
    BY <2>2
  <2>4. Cardinality(s \ {x}) = n
    BY <2>2
  <2>5. s \ {x} \in F /\ x \in U \ (s \ {x}) /\ s = (s \ {x}) \cup {x}
    BY <2>1, <2>3, <2>4
  <2> QED BY <2>5
<1> HIDE DEF S
<1>4. S = Nat
  <2>1. S \in SUBSET Nat
    BY DEF S
  <2> QED BY <1>2, <1>3, <2>1, Induction
<1>5. Cardinality(U) \in S
  BY <1>1, <1>4
<1> QED BY <1>5 DEF S

\* What holds first, and is kept by each step, holds all along.
LEMMA Along ==
  ASSUME NEW n \in Nat, NEW S, 0 \in S, \A i \in 1 .. n : i - 1 \in S => i \in S
  PROVE  0 .. n \subseteq S
<1> DEFINE M == {i \in Nat : i \in S \/ i > n}
<1>1. 0 \in M
  OBVIOUS
<1>2. ASSUME NEW i \in M PROVE i + 1 \in M
  <2>1. i + 1 \in 1 .. n => (i + 1) - 1 \in S
    <3>1. (i + 1) - 1 = i /\ i \in Nat
      OBVIOUS
    <3> QED BY <3>1
  <2>2. i + 1 \in Nat /\ (i + 1 \in 1 .. n \/ i + 1 > n)
    OBVIOUS
  <2> QED BY <2>1, <2>2
<1>3. M = Nat
  <2>1. M \in SUBSET Nat
    OBVIOUS
  <2> HIDE DEF M
  <2> QED BY <1>1, <1>2, <2>1, Induction
<1> QED BY <1>3

\* A first element and a step define a sequence.
Recurs(f, D, a, step) == f \in [Nat -> D] /\ f[0] = a /\ \A n \in Nat : f[n + 1] = step[f[n]]

LEMMA Recurrence ==
  ASSUME NEW D, NEW a \in D, NEW step \in [D -> D]
  PROVE  \E f : Recurs(f, D, a, step)
<1> DEFINE Is(f, n) == /\ f \in [0 .. n -> D] /\ f[0] = a
                       /\ \A i \in 1 .. n : f[i] = step[f[i - 1]]
           N == {n \in Nat : \E f : Is(f, n)}
<1>1. 0 \in N
  <2> DEFINE f == [i \in 0 .. 0 |-> a]
  <2>1. f \in [0 .. 0 -> D] /\ f[0] = a /\ 1 .. 0 = {}
    BY SMT
  <2> HIDE DEF f
  <2>2. Is(f, 0)
    BY <2>1
  <2> QED BY <2>2
<1>2. ASSUME NEW n \in N PROVE n + 1 \in N
  <2>1. PICK f : Is(f, n)
    OBVIOUS
  <2>2. n \in Nat
    OBVIOUS
  <2> DEFINE g == [i \in 0 .. n + 1 |-> IF i = n + 1 THEN step[f[n]] ELSE f[i]]
  <2>3. n \in 0 .. n /\ f[n] \in D /\ step[f[n]] \in D /\ f[0] = a
    BY <2>1, <2>2
  <2>4. \A i \in 0 .. n + 1 : i # n + 1 => i \in 0 .. n /\ f[i] \in D
    BY <2>1, <2>2
  <2>5. g \in [0 .. n + 1 -> D]
    BY <2>3, <2>4
  <2>6. g[0] = a
    BY <2>2, <2>3
  <2>7. ASSUME NEW i \in 1 .. n + 1 PROVE g[i] = step[g[i - 1]]
    <3>1. i - 1 \in 0 .. n + 1 /\ i - 1 # n + 1 /\ g[i - 1] = f[i - 1]
      BY <2>2
    <3>2. CASE i = n + 1
      BY <2>2, <3>1, <3>2
    <3>3. CASE i # n + 1
      <4>1. i \in 1 .. n /\ i \in 0 .. n + 1
        BY <2>2, <3>3
      <4>2. f[i] = step[f[i - 1]]
        BY <2>1, <4>1
      <4> QED BY <3>1, <3>3, <4>1, <4>2
    <3> QED BY <3>2, <3>3
  <2> HIDE DEF g
  <2>8. Is(g, n + 1)
    BY <2>5, <2>6, <2>7
  <2> HIDE DEF Is
  <2> QED BY <2>2, <2>8
<1>3. N = Nat
  <2>1. N \in SUBSET Nat
    OBVIOUS
  <2> HIDE DEF N
  <2> QED BY <1>1, <1>2, <2>1, Induction
<1>4. ASSUME NEW n \in Nat, NEW f, Is(f, n), NEW m \in Nat, NEW g, Is(g, m), n <= m
      PROVE  f[n] = g[n]
  <2> DEFINE S == {i \in 0 .. n : f[i] = g[i]}
  <2>1. 0 \in S
    BY <1>4
  <2>2. ASSUME NEW i \in 1 .. n, i - 1 \in S PROVE i \in S
    <3>1. i \in 1 .. m /\ i \in 0 .. n
      BY <1>4
    <3> QED BY <1>4, <2>2, <3>1
  <2> HIDE DEF S
  <2>3. 0 .. n \subseteq S
    BY <2>1, <2>2, Along
  <2>4. n \in 0 .. n
    OBVIOUS
  <2> QED BY <2>3, <2>4 DEF S
<1> DEFINE part(n) == CHOOSE f : Is(f, n)
<1>5. ASSUME NEW n \in Nat PROVE Is(part(n), n)
  <2>1. \E f : Is(f, n)
    BY <1>3
  <2> HIDE DEF Is
  <2> QED BY <2>1
<1> HIDE DEF part, N
<1> DEFINE h == [n \in Nat |-> part(n)[n]]
<1>6. ASSUME NEW n \in Nat PROVE h[n] \in D
  <2>1. n \in 0 .. n
    OBVIOUS
  <2> QED BY <1>5, <2>1
<1>7. ASSUME NEW n \in Nat PROVE h[n + 1] = step[h[n]]
  <2>1. n + 1 \in Nat /\ n <= n + 1 /\ (n + 1) - 1 = n /\ n + 1 \in 1 .. n + 1
    OBVIOUS
  <2>2. part(n)[n] = part(n + 1)[n]
    <3>1. Is(part(n), n) /\ Is(part(n + 1), n + 1)
      BY <1>5, <2>1
    <3> HIDE DEF Is
    <3> QED BY <1>4, <2>1, <3>1
  <2>3. part(n + 1)[n + 1] = step[part(n + 1)[n]]
    BY <1>5, <2>1
  <2> QED BY <2>1, <2>2, <2>3
<1>8. h[0] = a
  BY <1>5
<1>9. h \in [Nat -> D]
  BY <1>6
<1> HIDE DEF h
<1>10. Recurs(h, D, a, step)
  BY <1>7, <1>8, <1>9 DEF Recurs
<1> QED BY <1>10

-----------------------------------------------------------------------------
(* Sums of a function over a finite set                                      *)

Pick(s) == CHOOSE x \in s : TRUE

IsSum(f, S, iter) ==
  iter = [s \in SUBSET S |-> IF s = {} THEN 0 ELSE f[Pick(s)] + iter[s \ {Pick(s)}]]

Iter(f, S) == CHOOSE iter : IsSum(f, S, iter)

LEMMA SumIter == \A f, S : SumFunctionOnSet(f, S) = Iter(f, S)[S]
BY DEF SumFunctionOnSet, FoldFunctionOnSet, MapThenFoldSet, Iter, IsSum, Pick

LEMMA PickIn == ASSUME NEW s, s # {} PROVE Pick(s) \in s
BY DEF Pick

\* The recursion over the subsets of a finite set defines a function.
LEMMA SumExists ==
  ASSUME NEW S, IsFiniteSet(S), NEW f, \A x \in S : f[x] \in Int
  PROVE  IsSum(f, S, Iter(f, S)) /\ Iter(f, S) \in [SUBSET S -> Int]
<1> DEFINE Small(n) == {s \in SUBSET S : Cardinality(s) < n}
           Value(g, s) == IF s = {} THEN 0 ELSE f[Pick(s)] + g[s \ {Pick(s)}]
           Partial(n) == \E g \in [Small(n) -> Int] : \A s \in Small(n) : g[s] = Value(g, s)
           N == {n \in Nat : Partial(n)}
<1>1. \A s \in SUBSET S : IsFiniteSet(s) /\ Cardinality(s) \in Nat
  BY FS_Subset, FS_CardinalityType
<1>2. 0 \in N
  <2>1. Small(0) = {}
    BY <1>1
  <2>2. [s \in {} |-> 0] \in [Small(0) -> Int]
    BY <2>1
  <2> QED BY <2>1, <2>2
<1>3. ASSUME NEW n \in N PROVE n + 1 \in N
  <2>1. n \in Nat /\ Partial(n)
    BY <1>3
  <2>2. PICK g \in [Small(n) -> Int] : \A s \in Small(n) : g[s] = Value(g, s)
    BY <2>1
  <2> DEFINE h == [s \in Small(n + 1) |-> Value(g, s)]
  <2>3. \A s \in Small(n + 1) : s # {} =>
          Pick(s) \in s /\ f[Pick(s)] \in Int /\ s \ {Pick(s)} \in Small(n)
    <3> SUFFICES ASSUME NEW s \in Small(n + 1), s # {}
                 PROVE  Pick(s) \in s /\ f[Pick(s)] \in Int /\ s \ {Pick(s)} \in Small(n)
      OBVIOUS
    <3>1. Pick(s) \in s
      BY PickIn
    <3>2. Cardinality(s \ {Pick(s)}) = Cardinality(s) - 1 /\ Cardinality(s) \in Nat
      BY <1>1, <3>1, FS_RemoveElement
    <3> QED BY <2>1, <3>1, <3>2
  <2>4. h \in [Small(n + 1) -> Int]
    BY <2>2, <2>3
  <2>5. \A s \in Small(n) : s \in Small(n + 1) /\ h[s] = g[s]
    <3>1. \A s \in Small(n) : s \in Small(n + 1)
      BY <1>1, <2>1
    <3> QED BY <2>2, <3>1
  <2>6. \A s \in Small(n + 1) : h[s] = Value(h, s)
    BY <2>3, <2>5
  <2> HIDE DEF h
  <2>7. Partial(n + 1)
    BY <2>4, <2>6
  <2> HIDE DEF Partial
  <2> QED BY <2>1, <2>7
<1>4. N = Nat
  <2>1. N \in SUBSET Nat
    OBVIOUS
  <2> HIDE DEF N
  <2> QED BY <1>2, <1>3, <2>1, Induction
<1>5. Partial(Cardinality(S) + 1)
  <2>1. Cardinality(S) + 1 \in Nat
    BY <1>1
  <2> HIDE DEF Partial
  <2> QED BY <1>4, <2>1
<1>6. Small(Cardinality(S) + 1) = SUBSET S
  <2>1. \A s \in SUBSET S : Cardinality(s) <= Cardinality(S) /\ Cardinality(s) \in Nat /\ Cardinality(S) \in Nat
    BY <1>1, FS_Subset
  <2> QED BY <2>1
<1>7. PICK g \in [SUBSET S -> Int] : \A s \in SUBSET S : g[s] = Value(g, s)
  BY <1>5, <1>6
<1>8. IsSum(f, S, g)
  BY <1>7 DEF IsSum
<1>9. IsSum(f, S, Iter(f, S))
  BY <1>8 DEF Iter
<1> DEFINE h == Iter(f, S)
<1> HIDE DEF N, Partial, Small
<1>10. \A s \in SUBSET S : h[s] = Value(h, s)
  BY <1>9 DEF IsSum
<1>11. ASSUME NEW s \in SUBSET S PROVE h[s] \in Int
  <2> DEFINE M == {n \in Nat : \A t \in SUBSET S : Cardinality(t) = n => h[t] \in Int}
  <2>1. 0 \in M
    <3>1. \A t \in SUBSET S : Cardinality(t) = 0 => t = {}
      BY <1>1, FS_EmptySet
    <3>2. h[{}] = 0
      BY <1>10
    <3> QED BY <3>1, <3>2
  <2>2. ASSUME NEW n \in M PROVE n + 1 \in M
    <3> SUFFICES ASSUME NEW t \in SUBSET S, Cardinality(t) = n + 1 PROVE h[t] \in Int
      BY <2>2
    <3>1. n \in Nat /\ \A u \in SUBSET S : Cardinality(u) = n => h[u] \in Int
      BY <2>2
    <3>2. IsFiniteSet(t) /\ t # {} /\ \A x \in t : Cardinality(t \ {x}) = n
      BY <1>1, <3>1, RemoveOne
    <3>3. Pick(t) \in t /\ Cardinality(t \ {Pick(t)}) = n
      BY <3>2, PickIn
    <3>4. h[t \ {Pick(t)}] \in Int /\ f[Pick(t)] \in Int
      BY <3>1, <3>3
    <3>5. h[t] = f[Pick(t)] + h[t \ {Pick(t)}]
      BY <1>10, <3>2
    <3> QED BY <3>4, <3>5
  <2>3. M = Nat
    <3>1. M \in SUBSET Nat
      OBVIOUS
    <3> HIDE DEF M
    <3> QED BY <2>1, <2>2, <3>1, Induction
  <2> QED BY <1>1, <2>3
<1>12. h = [s \in SUBSET S |-> Value(h, s)]
  BY <1>9 DEF IsSum
<1> HIDE DEF h
<1>13. h \in [SUBSET S -> Int]
  BY <1>11, <1>12
<1> QED BY <1>9, <1>13 DEF h

LEMMA SumStep ==
  ASSUME NEW S, IsFiniteSet(S), NEW f, \A x \in S : f[x] \in Int
  PROVE  \A t \in SUBSET S :
           Iter(f, S)[t] = IF t = {} THEN 0 ELSE f[Pick(t)] + Iter(f, S)[t \ {Pick(t)}]
<1> DEFINE h == Iter(f, S)
<1>1. IsSum(f, S, h)
  BY SumExists
<1> HIDE DEF h
<1>2. h = [t \in SUBSET S |-> IF t = {} THEN 0 ELSE f[Pick(t)] + h[t \ {Pick(t)}]]
  BY <1>1 DEF IsSum
<1>3. \A t \in SUBSET S : h[t] = IF t = {} THEN 0 ELSE f[Pick(t)] + h[t \ {Pick(t)}]
  BY <1>2
<1> QED BY <1>3 DEF h

\* The recursion over a subset is the recursion over the set, cut down.
LEMMA SumCut ==
  ASSUME NEW S, IsFiniteSet(S), NEW f, \A x \in S : f[x] \in Int, NEW T \in SUBSET S,
         NEW g, \A x \in T : f[x] = g[x]
  PROVE  Iter(f, S)[T] = Iter(g, T)[T]
<1> DEFINE h == Iter(f, S)
           k == Iter(g, T)
           M == {n \in Nat : \A t \in SUBSET T : Cardinality(t) = n => h[t] = k[t]}
<1>1. \A t \in SUBSET T : IsFiniteSet(t) /\ Cardinality(t) \in Nat
  BY FS_Subset, FS_CardinalityType
<1>2. IsFiniteSet(T) /\ \A x \in T : g[x] \in Int
  BY <1>1
<1>3. \A t \in SUBSET S : h[t] = IF t = {} THEN 0 ELSE f[Pick(t)] + h[t \ {Pick(t)}]
  BY SumStep
<1>4. \A t \in SUBSET T : k[t] = IF t = {} THEN 0 ELSE g[Pick(t)] + k[t \ {Pick(t)}]
  BY <1>2, SumStep
<1> HIDE DEF h, k
<1>5. 0 \in M
  <2>1. \A t \in SUBSET T : Cardinality(t) = 0 => t = {}
    BY <1>1, FS_EmptySet
  <2>2. h[{}] = 0 /\ k[{}] = 0
    BY <1>3, <1>4
  <2> QED BY <2>1, <2>2
<1>6. ASSUME NEW n \in M PROVE n + 1 \in M
  <2> SUFFICES ASSUME NEW t \in SUBSET T, Cardinality(t) = n + 1 PROVE h[t] = k[t]
    BY <1>6
  <2>1. n \in Nat /\ \A u \in SUBSET T : Cardinality(u) = n => h[u] = k[u]
    BY <1>6
  <2>2. IsFiniteSet(t) /\ t # {} /\ \A x \in t : Cardinality(t \ {x}) = n
    BY <1>1, <2>1, RemoveOne
  <2>3. Pick(t) \in t /\ h[t \ {Pick(t)}] = k[t \ {Pick(t)}]
    BY <2>1, <2>2, PickIn
  <2>4. f[Pick(t)] = g[Pick(t)]
    BY <2>3
  <2> QED BY <1>3, <1>4, <2>2, <2>3, <2>4
<1>7. M = Nat
  <2>1. M \in SUBSET Nat
    OBVIOUS
  <2> HIDE DEF M
  <2> QED BY <1>5, <1>6, <2>1, Induction
<1>8. h[T] = k[T]
  BY <1>1, <1>7
<1> QED BY <1>8 DEF h, k

Sum(f, S) == SumFunctionOnSet(f, S)

LEMMA SumIs == \A f : SumFunction(f) = Sum(f, DOMAIN f)
BY DEF SumFunction, Sum

LEMMA SumType ==
  ASSUME NEW S, IsFiniteSet(S), NEW f, \A x \in S : f[x] \in Int
  PROVE  Sum(f, S) \in Int
<1>1. Iter(f, S) \in [SUBSET S -> Int]
  BY SumExists
<1>2. Iter(f, S)[S] \in Int
  BY <1>1
<1> QED BY <1>2, SumIter DEF Sum

LEMMA SumEmpty == ASSUME NEW f PROVE Sum(f, {}) = 0
<1>1. Iter(f, {})[{}] = 0
  BY FS_EmptySet, SumStep
<1> QED BY <1>1, SumIter DEF Sum

\* Equal values have equal sums.
LEMMA SumSame ==
  ASSUME NEW S, IsFiniteSet(S), NEW f, \A x \in S : f[x] \in Int, NEW g, \A x \in S : f[x] = g[x]
  PROVE  Sum(f, S) = Sum(g, S)
<1>1. Iter(f, S)[S] = Iter(g, S)[S]
  BY SumCut
<1> QED BY <1>1, SumIter DEF Sum

LEMMA SumPick ==
  ASSUME NEW S, IsFiniteSet(S), S # {}, NEW f, \A x \in S : f[x] \in Int
  PROVE  Sum(f, S) = f[Pick(S)] + Sum(f, S \ {Pick(S)})
<1>1. Iter(f, S)[S] = f[Pick(S)] + Iter(f, S)[S \ {Pick(S)}]
  BY SumStep
<1>2. Iter(f, S)[S \ {Pick(S)}] = Iter(f, S \ {Pick(S)})[S \ {Pick(S)}]
  BY SumCut
<1> QED BY <1>1, <1>2, SumIter DEF Sum

\* Whichever element is taken out first.
LEMMA SumRemove ==
  ASSUME NEW S, IsFiniteSet(S), NEW f, \A x \in S : f[x] \in Int, NEW a \in S
  PROVE  Sum(f, S) = f[a] + Sum(f, S \ {a})
<1> DEFINE Free(s) == \A x \in s : Sum(f, s) = f[x] + Sum(f, s \ {x})
           M == {n \in Nat : \A s \in SUBSET S : Cardinality(s) = n => Free(s)}
<1>1. \A s \in SUBSET S : IsFiniteSet(s) /\ Cardinality(s) \in Nat /\ Sum(f, s) \in Int
  BY FS_Subset, FS_CardinalityType, SumType
<1>2. 0 \in M
  <2>1. \A t \in SUBSET S : Cardinality(t) = 0 => t = {}
    BY <1>1, FS_EmptySet
  <2> QED BY <2>1
<1>3. ASSUME NEW n \in M PROVE n + 1 \in M
  <2>1. n \in Nat /\ \A u \in SUBSET S : Cardinality(u) = n => Free(u)
    BY <1>3
  <2>2. ASSUME NEW s \in SUBSET S, Cardinality(s) = n + 1, NEW x \in s
        PROVE  Sum(f, s) = f[x] + Sum(f, s \ {x})
    <3> DEFINE p == Pick(s)
    <3>1. IsFiniteSet(s) /\ s # {} /\ \A y \in s : IsFiniteSet(s \ {y}) /\ Cardinality(s \ {y}) = n
      BY <1>1, <2>1, <2>2, RemoveOne
    <3>2. p \in s /\ Sum(f, s) = f[p] + Sum(f, s \ {p})
      BY <3>1, PickIn, SumPick
    <3> HIDE DEF p
    <3>3. CASE x = p
      BY <3>2, <3>3
    <3>4. CASE x # p
      <4>1. Free(s \ {p}) /\ Free(s \ {x})
        BY <2>1, <3>1, <3>2
      <4>2. x \in s \ {p} /\ p \in s \ {x} /\ (s \ {p}) \ {x} = (s \ {x}) \ {p}
        BY <3>2, <3>4
      <4>3. /\ Sum(f, s \ {p}) = f[x] + Sum(f, (s \ {p}) \ {x})
            /\ Sum(f, s \ {x}) = f[p] + Sum(f, (s \ {p}) \ {x})
        BY <4>1, <4>2
      <4> DEFINE w == Sum(f, (s \ {p}) \ {x})
                 v == f[x]
                 u == f[p]
      <4>4. w \in Int /\ v \in Int /\ u \in Int
        BY <1>1, <3>2
      <4>5. Sum(f, s) = u + (v + w) /\ f[x] + Sum(f, s \ {x}) = v + (u + w)
        BY <3>2, <4>3
      <4> HIDE DEF u, v, w
      <4>6. u + (v + w) = v + (u + w)
        BY <4>4
      <4> QED BY <4>5, <4>6
    <3> QED BY <3>3, <3>4
  <2>3. \A s \in SUBSET S : Cardinality(s) = n + 1 => Free(s)
    BY <2>2
  <2> HIDE DEF Free
  <2> QED BY <2>1, <2>3
<1>4. M = Nat
  <2>1. M \in SUBSET Nat
    OBVIOUS
  <2> HIDE DEF M
  <2> QED BY <1>2, <1>3, <2>1, Induction
<1>5. Free(S)
  <2> HIDE DEF Free
  <2> QED BY <1>1, <1>4
<1> QED BY <1>5

LEMMA SumAdd ==
  ASSUME NEW S, IsFiniteSet(S), NEW f, \A x \in S : f[x] \in Int, NEW a, a \notin S, f[a] \in Int
  PROVE  Sum(f, S \cup {a}) = f[a] + Sum(f, S)
<1> DEFINE T == S \cup {a}
<1>1. IsFiniteSet(T) /\ a \in T /\ T \ {a} = S /\ \A x \in T : f[x] \in Int
  BY FS_AddElement
<1> HIDE DEF T
<1>2. Sum(f, T) = f[a] + Sum(f, T \ {a})
  BY <1>1, SumRemove
<1> QED BY <1>1, <1>2 DEF T

\* Changing the value at one element changes the sum by as much.
LEMMA SumChange ==
  ASSUME NEW S, IsFiniteSet(S), NEW f, NEW g, NEW a \in S,
         \A x \in S : f[x] \in Int /\ g[x] \in Int /\ (x # a => g[x] = f[x])
  PROVE  Sum(g, S) = Sum(f, S) + g[a] - f[a] /\ Sum(f, S) \in Int
<1> DEFINE rest == S \ {a}
<1>1. IsFiniteSet(rest) /\ \A x \in rest : g[x] = f[x] /\ f[x] \in Int
  BY FS_Subset
<1>2. Sum(f, S) = f[a] + Sum(f, rest) /\ Sum(g, S) = g[a] + Sum(g, rest)
  BY SumRemove
<1> HIDE DEF rest
<1>3. Sum(g, rest) = Sum(f, rest) /\ Sum(f, rest) \in Int
  BY <1>1, SumSame, SumType
<1> QED BY <1>2, <1>3

\* Two disjoint sets.
LEMMA SumUnion ==
  ASSUME NEW S, IsFiniteSet(S), NEW T, IsFiniteSet(T), S \cap T = {},
         NEW f, \A x \in S \cup T : f[x] \in Int
  PROVE  Sum(f, S \cup T) = Sum(f, S) + Sum(f, T)
<1> DEFINE F == {t \in SUBSET T : Sum(f, S \cup t) = Sum(f, S) + Sum(f, t)}
<1>1. {} \in F
  <2>1. Sum(f, S) \in Int /\ Sum(f, {}) = 0 /\ S \cup {} = S
    BY SumType, SumEmpty
  <2> QED BY <2>1
<1>2. ASSUME NEW t \in SUBSET T, NEW x \in T \ t, t \in F PROVE t \cup {x} \in F
  <2>1. IsFiniteSet(t) /\ IsFiniteSet(S \cup t)
    BY FS_Subset, FS_Union
  <2>2. \A y \in t : f[y] \in Int
    OBVIOUS
  <2>3. \A y \in S \cup t : f[y] \in Int
    OBVIOUS
  <2>4. f[x] \in Int /\ x \notin S \cup t
    OBVIOUS
  <2>5. Sum(f, t \cup {x}) = f[x] + Sum(f, t)
    BY <2>1, <2>2, <2>4, SumAdd
  <2>6. Sum(f, (S \cup t) \cup {x}) = f[x] + Sum(f, S \cup t)
    BY <2>1, <2>3, <2>4, SumAdd
  <2>7. Sum(f, S) \in Int /\ Sum(f, t) \in Int /\ Sum(f, S \cup t) = Sum(f, S) + Sum(f, t)
    BY <1>2, <2>1, <2>2, SumType
  <2>8. (S \cup t) \cup {x} = S \cup (t \cup {x})
    OBVIOUS
  <2>9. Sum(f, S \cup (t \cup {x})) = f[x] + (Sum(f, S) + Sum(f, t))
    BY <2>6, <2>7, <2>8
  <2> DEFINE u == Sum(f, S)
             v == Sum(f, t)
             w == f[x]
  <2>10. u \in Int /\ v \in Int /\ w \in Int
    BY <2>4, <2>7
  <2> HIDE DEF u, v, w
  <2>11. w + (u + v) = u + (w + v)
    BY <2>10
  <2> QED BY <2>5, <2>9, <2>11 DEF u, v, w
<1>3. T \in F
  <2> HIDE DEF F
  <2> QED BY <1>1, <1>2, FiniteInduction
<1> QED BY <1>3

\* Sums of a larger function, and of a multiple.
LEMMA SumGrows ==
  ASSUME NEW S, IsFiniteSet(S), NEW f, NEW g, \A x \in S : f[x] \in Int /\ g[x] \in Int /\ f[x] <= g[x]
  PROVE  Sum(f, S) <= Sum(g, S)
<1> DEFINE F == {s \in SUBSET S : Sum(f, s) <= Sum(g, s)}
<1>1. {} \in F
  BY SumEmpty
<1>2. ASSUME NEW s \in SUBSET S, NEW x \in S \ s, s \in F PROVE s \cup {x} \in F
  <2>1. IsFiniteSet(s)
    BY FS_Subset
  <2>2. Sum(f, s \cup {x}) = f[x] + Sum(f, s) /\ Sum(f, s) \in Int
    BY <2>1, SumAdd, SumType
  <2>3. Sum(g, s \cup {x}) = g[x] + Sum(g, s) /\ Sum(g, s) \in Int
    BY <2>1, SumAdd, SumType
  <2>4. Sum(f, s) <= Sum(g, s) /\ f[x] \in Int /\ g[x] \in Int /\ f[x] <= g[x]
    BY <1>2
  <2> QED BY <2>2, <2>3, <2>4
<1>3. S \in F
  <2> HIDE DEF F
  <2> QED BY <1>1, <1>2, FiniteInduction
<1> QED BY <1>3

LEMMA SumScales ==
  ASSUME NEW S, IsFiniteSet(S), NEW f, NEW g, NEW k \in Int,
         \A x \in S : f[x] \in Int /\ g[x] = k * f[x]
  PROVE  Sum(g, S) = k * Sum(f, S)
<1> DEFINE F == {s \in SUBSET S : Sum(g, s) = k * Sum(f, s)}
<1>1. {} \in F
  <2>1. Sum(f, {}) = 0 /\ Sum(g, {}) = 0 /\ k * 0 = 0
    BY SumEmpty
  <2> QED BY <2>1
<1>2. ASSUME NEW s \in SUBSET S, NEW x \in S \ s, s \in F PROVE s \cup {x} \in F
  <2>1. IsFiniteSet(s) /\ \A y \in S : g[y] \in Int
    BY FS_Subset
  <2>2. Sum(f, s \cup {x}) = f[x] + Sum(f, s) /\ Sum(f, s) \in Int
    BY <2>1, SumAdd, SumType
  <2>3. Sum(g, s \cup {x}) = g[x] + Sum(g, s)
    BY <2>1, SumAdd
  <2> DEFINE u == f[x]
             v == Sum(f, s)
  <2>4. Sum(g, s \cup {x}) = k * u + k * v /\ u \in Int /\ v \in Int
    BY <1>2, <2>2, <2>3
  <2>5. k * u + k * v = k * (u + v)
    <3> HIDE DEF u, v
    <3> QED BY <2>4
  <2> QED BY <2>2, <2>4, <2>5
<1>3. S \in F
  <2> HIDE DEF F
  <2> QED BY <1>1, <1>2, FiniteInduction
<1> QED BY <1>3

LEMMA SumNatural ==
  ASSUME NEW S, IsFiniteSet(S), NEW f, \A x \in S : f[x] \in Nat
  PROVE  Sum(f, S) \in Nat /\ \A x \in S : f[x] <= Sum(f, S)
<1>1. ASSUME NEW s \in SUBSET S PROVE Sum(f, s) \in Nat
  <2>1. IsFiniteSet(s)
    BY FS_Subset
  <2> DEFINE none == [x \in s |-> 0]
  <2>2. Sum(none, s) = 0 * Sum(none, s) /\ Sum(none, s) \in Int
    BY <2>1, SumScales, SumType
  <2>3. Sum(none, s) <= Sum(f, s) /\ Sum(f, s) \in Int
    BY <2>1, SumGrows, SumType
  <2> HIDE DEF none
  <2> QED BY <2>2, <2>3
<1>2. ASSUME NEW x \in S PROVE f[x] <= Sum(f, S)
  <2>1. Sum(f, S) = f[x] + Sum(f, S \ {x}) /\ Sum(f, S \ {x}) \in Nat
    BY <1>1, SumRemove
  <2> QED BY <2>1
<1> QED BY <1>1, <1>2

\* Sums over the image of a set, and without the zeros.
LEMMA SumImage ==
  ASSUME NEW S, IsFiniteSet(S), NEW g, \A x, y \in S : g[x] = g[y] => x = y,
         NEW f, \A x \in S : f[x] \in Int, NEW h, \A x \in S : h[g[x]] = f[x]
  PROVE  IsFiniteSet({g[x] : x \in S}) /\ Sum(h, {g[x] : x \in S}) = Sum(f, S)
<1> DEFINE Image(s) == {g[x] : x \in s}
           F == {s \in SUBSET S : IsFiniteSet(Image(s)) /\ Sum(h, Image(s)) = Sum(f, s)}
<1>1. {} \in F
  <2>1. Image({}) = {}
    OBVIOUS
  <2> HIDE DEF Image
  <2> QED BY <2>1, SumEmpty, FS_EmptySet
<1>2. ASSUME NEW s \in SUBSET S, NEW x \in S \ s, s \in F PROVE s \cup {x} \in F
  <2>1. Image(s \cup {x}) = Image(s) \cup {g[x]} /\ g[x] \notin Image(s)
    OBVIOUS
  <2>2. (\A y \in Image(s) : h[y] \in Int) /\ h[g[x]] = f[x] /\ f[x] \in Int
    OBVIOUS
  <2>3. IsFiniteSet(s) /\ \A y \in s : f[y] \in Int
    BY FS_Subset
  <2>4. IsFiniteSet(Image(s)) /\ Sum(h, Image(s)) = Sum(f, s)
    BY <1>2
  <2> HIDE DEF Image
  <2>5. IsFiniteSet(Image(s) \cup {g[x]})
    <3> DEFINE I == Image(s)
    <3>1. IsFiniteSet(I)
      BY <2>4
    <3> HIDE DEF I
    <3>2. IsFiniteSet(I \cup {g[x]})
      BY <3>1, FS_AddElement
    <3> QED BY <3>2 DEF I
  <2>6. Sum(h, Image(s) \cup {g[x]}) = h[g[x]] + Sum(h, Image(s))
    BY <2>1, <2>2, <2>4, SumAdd
  <2>7. Sum(f, s \cup {x}) = f[x] + Sum(f, s)
    BY <2>2, <2>3, SumAdd
  <2> QED BY <2>1, <2>2, <2>4, <2>5, <2>6, <2>7
<1>3. S \in F
  <2> HIDE DEF F
  <2> QED BY <1>1, <1>2, FiniteInduction
<1> QED BY <1>3

LEMMA SumZeros ==
  ASSUME NEW S, IsFiniteSet(S), NEW T \in SUBSET S, NEW f, \A x \in S : f[x] \in Int,
         \A x \in S \ T : f[x] = 0
  PROVE  Sum(f, S) = Sum(f, T)
<1> DEFINE R == S \ T
<1>1. IsFiniteSet(T) /\ IsFiniteSet(R) /\ T \cap R = {} /\ T \cup R = S
  BY FS_Subset
<1>2. Sum(f, R) = 0 * Sum(f, R)
  <2>1. \A x \in R : f[x] \in Int /\ f[x] = 0 * f[x]
    OBVIOUS
  <2> HIDE DEF R
  <2> QED BY <1>1, <2>1, SumScales
<1>3. Sum(f, R) \in Int /\ Sum(f, T) \in Int
  <2>1. (\A x \in R : f[x] \in Int) /\ \A x \in T : f[x] \in Int
    OBVIOUS
  <2> HIDE DEF R
  <2> QED BY <1>1, <2>1, SumType
<1> HIDE DEF R
<1>4. Sum(f, S) = Sum(f, T) + Sum(f, R)
  BY <1>1, SumUnion
<1> QED BY <1>2, <1>3, <1>4

(* Sets in order                                                             *)

\* A set of numbers has a least one.
LEMMA LeastOf == ASSUME NEW S \in SUBSET Nat, S # {} PROVE \E m \in S : \A k \in S : m <= k
<1>1. PICK m \in S : \A k \in S : ~ (<<k, m>> \in OpToRel(<, Nat))
  <2>1. IsWellFoundedOn(OpToRel(<, Nat), Nat)
    BY NatLessThanWellFounded
  <2> QED BY <2>1, WFMin
<1>2. \A k \in S : ~ (k < m)
  BY <1>1 DEF OpToRel
<1> QED BY <1>2

TotalOrder(R, S) ==
  /\ \A x \in S : <<x, x>> \notin R
  /\ \A x, y \in S : x # y => <<x, y>> \in R \/ <<y, x>> \in R
  /\ \A x, y, z \in S : <<x, y>> \in R /\ <<y, z>> \in R => <<x, z>> \in R

\* A finite set with a total order can be put in its order: an element's place is
\* the number of those before it.
LEMMA Orderly ==
  ASSUME NEW S, IsFiniteSet(S), NEW R, TotalOrder(R, S)
  PROVE  \E s \in SetToSeqs(S) : \A i, j \in DOMAIN s : i < j => <<s[i], s[j]>> \in R
<1> USE DEF TotalOrder
<1> DEFINE n == Cardinality(S)
           Before(x) == {y \in S : <<y, x>> \in R}
           place == [x \in S |-> Cardinality(Before(x)) + 1]
<1>1. n \in Nat
  BY FS_CardinalityType
<1>2. ASSUME NEW x \in S PROVE IsFiniteSet(Before(x)) /\ Cardinality(Before(x)) \in Nat /\ place[x] \in 1 .. n
  <2>1. Before(x) \in SUBSET S /\ x \notin Before(x)
    OBVIOUS
  <2>2. IsFiniteSet(Before(x)) /\ Cardinality(Before(x)) <= n /\ (n = Cardinality(Before(x)) => S = Before(x))
    BY <2>1, FS_Subset
  <2>3. Cardinality(Before(x)) \in Nat /\ Cardinality(Before(x)) # n
    BY <2>1, <2>2, FS_CardinalityType
  <2> QED BY <1>1, <2>2, <2>3
<1>3. ASSUME NEW x \in S, NEW y \in S, <<x, y>> \in R PROVE place[x] < place[y]
  <2>1. Before(x) \in SUBSET Before(y) /\ x \in Before(y) /\ x \notin Before(x)
    BY <1>3
  <2>2. Cardinality(Before(x)) <= Cardinality(Before(y))
        /\ (Cardinality(Before(y)) = Cardinality(Before(x)) => Before(y) = Before(x))
    BY <1>2, <2>1, FS_Subset
  <2>3. Cardinality(Before(x)) # Cardinality(Before(y))
    BY <2>1, <2>2
  <2>4. Cardinality(Before(x)) \in Nat /\ Cardinality(Before(y)) \in Nat
    BY <1>2
  <2>5. place[x] = Cardinality(Before(x)) + 1 /\ place[y] = Cardinality(Before(y)) + 1
    OBVIOUS
  <2> HIDE DEF Before, place
  <2> QED BY <2>2, <2>3, <2>4, <2>5
<1> HIDE DEF Before
<1>4. place \in [S -> 1 .. n]
  BY <1>2
<1> HIDE DEF place
<1>5. \A x, y \in S : place[x] = place[y] => x = y
  <2> SUFFICES ASSUME NEW x \in S, NEW y \in S, x # y PROVE place[x] # place[y]
    OBVIOUS
  <2>1. place[x] < place[y] \/ place[y] < place[x]
    BY <1>3
  <2>2. place[x] \in Nat /\ place[y] \in Nat
    BY <1>1, <1>4
  <2> QED BY <2>1, <2>2
<1>6. place \in Surjection(S, 1 .. n)
  <2>1. place \in Injection(S, 1 .. n)
    BY <1>4, <1>5 DEF Injection, IsInjective
  <2>2. IsFiniteSet(1 .. n) /\ Cardinality(1 .. n) = n
    BY <1>1, FS_Interval
  <2> QED BY <2>1, <2>2, FS_Injection
<1>7. \A i \in 1 .. n : \E x \in S : place[x] = i
  BY <1>6 DEF Surjection
<1> DEFINE s == [i \in 1 .. n |-> CHOOSE x \in S : place[x] = i]
<1>8. \A i \in 1 .. n : s[i] \in S /\ place[s[i]] = i
  BY <1>7
<1>9. s \in [1 .. n -> S] /\ DOMAIN s = 1 .. n
  BY <1>8
<1> HIDE DEF s
<1>10. s \in SetToSeqs(S)
  BY <1>8, <1>9 DEF SetToSeqs
<1>11. ASSUME NEW i \in DOMAIN s, NEW j \in DOMAIN s, i < j PROVE <<s[i], s[j]>> \in R
  <2>1. s[i] \in S /\ s[j] \in S /\ place[s[i]] = i /\ place[s[j]] = j /\ i \in Nat /\ j \in Nat
    BY <1>1, <1>8, <1>9
  <2>2. s[i] # s[j] /\ ~ (place[s[j]] < place[s[i]])
    BY <1>11, <2>1
  <2> QED BY <1>3, <2>1, <2>2
<1> QED BY <1>10, <1>11

===============================================================================
