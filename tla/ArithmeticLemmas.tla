-------------------------- MODULE ArithmeticLemmas --------------------------
(***************************************************************************)
(* Facts about remainders, least numbers and sums over finite sets that    *)
(* the proofs about the balancers rest on.                                 *)
(***************************************************************************)
EXTENDS Integers, FiniteSetsExt, FiniteSetTheorems, WellFoundedInduction, TLAPS

\* What a remainder is.
LEMMA ModFacts ==
    ASSUME NEW a \in Nat, NEW n \in Nat \ {0}
    PROVE  /\ a % n \in 0 .. n - 1
           /\ a \div n \in Nat
           /\ a = n * (a \div n) + (a % n)
  OBVIOUS

\* What is left after whole multiples of n is the remainder.
LEMMA ModOf ==
    ASSUME NEW q \in Int, NEW n \in Nat \ {0}, NEW r \in 0 .. n - 1
    PROVE  (n * q + r) % n = r
  OBVIOUS

\* Two numbers with the same remainder keep it when both are counted on.
LEMMA ModAdd ==
    ASSUME NEW a \in Nat, NEW b \in Nat, NEW n \in Nat \ {0}
    PROVE  ((a % n) + b) % n = (a + b) % n
  <1> DEFINE q == a \div n
             r == a % n
             p == (r + b) \div n
             s == (r + b) % n
  <1>1. r \in 0 .. n - 1 /\ q \in Nat /\ a = n * q + r
    BY ModFacts
  <1>2. r + b \in Nat
    BY <1>1
  <1>3. s \in 0 .. n - 1 /\ p \in Nat /\ r + b = n * p + s
    BY <1>2, ModFacts
  <1> HIDE DEF q, r, p, s
  <1>4. PICK t \in Int : t = q + p
    BY <1>1, <1>3
  <1>5. a + b = n * t + s
    <2>1. n * t = n * q + n * p
      BY <1>1, <1>3, <1>4
    <2> QED
      BY <1>1, <1>3, <2>1
  <1>6. (n * t + s) % n = s
    BY <1>3, ModOf
  <1> QED
    BY <1>5, <1>6 DEF r, s

\* A whole turn changes nothing.
LEMMA AddedModulus ==
    ASSUME NEW a \in Nat, NEW n \in Nat \ {0}
    PROVE  (a + n) % n = a % n
  <1> DEFINE q == a \div n
             r == a % n
  <1>1. r \in 0 .. n - 1 /\ q \in Nat /\ a = n * q + r
    BY ModFacts
  <1> HIDE DEF q, r
  <1>2. PICK t \in Int : t = q + 1
    BY <1>1
  <1>3. a + n = n * t + r
    BY <1>1, <1>2
  <1>4. (n * t + r) % n = r
    BY <1>1, ModOf
  <1> QED
    BY <1>3, <1>4 DEF r

\* A remainder modulo a multiple of n has the same remainder modulo n.
LEMMA ModOfMultiple ==
    ASSUME NEW a \in Nat, NEW n \in Nat \ {0}, NEW m \in Nat \ {0}, m % n = 0
    PROVE  (a % m) % n = a % n
  <1> DEFINE q == a \div m
             r == a % m
             c == m \div n
             p == r \div n
             s == r % n
  <1>1. r \in 0 .. m - 1 /\ q \in Nat /\ a = m * q + r
    BY ModFacts
  <1>2. c \in Nat /\ m = n * c
    BY ModFacts
  <1>3. r \in Nat
    BY <1>1
  <1>4. s \in 0 .. n - 1 /\ p \in Nat /\ r = n * p + s
    BY <1>3, ModFacts
  <1> HIDE DEF q, r, c, p, s
  <1>5. c * q \in Nat /\ m * q = n * (c * q)
    BY <1>1, <1>2
  <1>6. PICK t \in Int : t = c * q + p
    BY <1>4, <1>5
  <1>7. a = n * t + s
    <2>1. n * t = n * (c * q) + n * p
      BY <1>4, <1>5, <1>6
    <2> QED
      BY <1>1, <1>4, <1>5, <2>1
  <1>8. (n * t + s) % n = s
    BY <1>4, ModOf
  <1> QED
    BY <1>7, <1>8 DEF r, s

\* Any n consecutive numbers have all the remainders.
LEMMA ModReaches ==
    ASSUME NEW a \in Nat, NEW n \in Nat \ {0}, NEW r \in 0 .. n - 1
    PROVE  \E i \in 0 .. n - 1 : (a + i) % n = r
  <1> DEFINE q == a \div n
             s == a % n
  <1>1. s \in 0 .. n - 1 /\ q \in Nat /\ a = n * q + s
    BY ModFacts
  <1> HIDE DEF q, s
  <1>2. CASE s <= r
    <2>1. r - s \in 0 .. n - 1 /\ a + (r - s) = n * q + r
      BY <1>1, <1>2
    <2>2. (n * q + r) % n = r
      BY <1>1, ModOf
    <2> QED
      BY <2>1, <2>2
  <1>3. CASE s > r
    <2>1. n + r - s \in 0 .. n - 1 /\ a + (n + r - s) = n * (q + 1) + r
      BY <1>1, <1>3
    <2>2. (n * (q + 1) + r) % n = r
      BY <1>1, ModOf
    <2> QED
      BY <2>1, <2>2
  <1> QED
    BY <1>1, <1>2, <1>3

\* A set of naturals that is not empty has a least member.
LEMMA LeastNatural ==
    ASSUME NEW T, T \subseteq Nat, T # {}
    PROVE  \E x \in T : \A y \in T : x <= y
  <1>1. \E x \in T : \A y \in T : ~ (<<y, x>> \in OpToRel(<, Nat))
    BY WFMin, NatLessThanWellFounded
  <1>2. PICK x \in T : \A y \in T : ~ (<<y, x>> \in OpToRel(<, Nat))
    BY <1>1
  <1>3. \A y \in T : ~ (y < x)
    BY <1>2 DEF OpToRel
  <1> QED
    BY <1>3
-----------------------------------------------------------------------------
\* Induction over the subsets of a finite set: if a set of sets has every T
\* whose proper subsets it has, it has them all.
LEMMA SubsetInduction ==
    ASSUME NEW S, IsFiniteSet(S), NEW P,
           \A T \in SUBSET S : (\A R \in SUBSET T : R # T => R \in P) => T \in P
    PROVE  SUBSET S \subseteq P
  <1> DEFINE Bad == (SUBSET S) \ P
  <1> SUFFICES ASSUME Bad # {} PROVE FALSE
    OBVIOUS
  <1>1. IsWellFoundedOn(StrictSubsetOrdering(S), SUBSET S)
    <2>1. IsWellFoundedOn(StrictSubsetOrdering(S), FiniteSubsetsOf(S))
      BY FS_StrictSubsetOrderingWellFounded
    <2>2. FiniteSubsetsOf(S) = SUBSET S
      BY FS_FiniteSubsetsOfFinite
    <2> QED
      BY <2>1, <2>2, Zenon
  <1>2. PICK T \in Bad : \A R \in Bad : ~ (<<R, T>> \in StrictSubsetOrdering(S))
    <2>1. Bad \subseteq SUBSET S
      OBVIOUS
    <2> HIDE DEF Bad
    <2> QED
      BY <1>1, <2>1, WFMin
  <1>3. \A R \in SUBSET T : R # T => R \in P
    BY <1>2 DEF StrictSubsetOrdering
  <1> QED
    BY <1>2, <1>3

\* Induction over the naturals, for the members of a set.
LEMMA NaturalInduction ==
    ASSUME NEW P, 0 \in P, \A n \in Nat : n \in P => n + 1 \in P
    PROVE  Nat \subseteq P
  <1> DEFINE Bad == Nat \ P
  <1> SUFFICES ASSUME Bad # {} PROVE FALSE
    OBVIOUS
  <1>1. PICK n \in Bad : \A m \in Bad : n <= m
    BY LeastNatural
  <1>2. n - 1 \in Nat /\ n - 1 \in P
    BY <1>1
  <1>3. (n - 1) + 1 \in P
    BY <1>2
  <1> QED
    BY <1>1, <1>3

\* Induction over a finite set, one element at a time.
LEMMA ElementInduction ==
    ASSUME NEW S, IsFiniteSet(S), NEW P, {} \in P,
           \A T \in SUBSET S, x \in S : T \in P /\ x \notin T => T \cup {x} \in P
    PROVE  S \in P
  <1>1. ASSUME NEW T \in SUBSET S, \A R \in SUBSET T : R # T => R \in P
        PROVE  T \in P
    <2>1. CASE T = {}
      BY <2>1
    <2>2. ASSUME NEW x \in T
          PROVE  T \in P
      <3>1. T \ {x} \in P /\ x \notin T \ {x}
        BY <1>1, <2>2
      <3>2. (T \ {x}) \cup {x} \in P
        BY <3>1
      <3>3. (T \ {x}) \cup {x} = T
        OBVIOUS
      <3> QED
        BY <3>2, <3>3
    <2> QED
      BY <2>1, <2>2
  <1> QED
    BY <1>1, SubsetInduction

-----------------------------------------------------------------------------
\* The sum of f over S, as FiniteSetsExt computes it.
Total(f, S) == MapThenSumSet(LAMBDA i : f[i], S)

\* The element a sum takes first, and what the sum makes of the rest's.
First(S) == CHOOSE x \in S : TRUE
Sums(f, g, S) == IF S = {} THEN 0 ELSE f[First(S)] + g[S \ {First(S)}]

\* The partial sums over the subsets of S.
IsPartial(f, g, D) == g = [T \in D |-> Sums(f, g, T)]
Partial(f, S) == CHOOSE g : IsPartial(f, g, SUBSET S)

\* A sum is the last of its partial sums.
LEMMA TotalIsPartial ==
    ASSUME NEW f, NEW S
    PROVE  Total(f, S) = Partial(f, S)[S]
  BY Zenon DEF Total, MapThenSumSet, MapThenFoldSet, Partial, IsPartial, Sums,
                First

\* The element taken first is one of the set.
LEMMA FirstIn ==
    ASSUME NEW S, S # {}
    PROVE  First(S) \in S
  BY DEF First

\* Partial sums over the sets in D exist.
Summable(f, D) == \E g : IsPartial(f, g, D)

\* The subsets of S with up to n elements.
SubsetsUpTo(S, n) == {T \in SUBSET S : Cardinality(T) <= n}

\* Partial sums exist over the subsets with up to n elements.
LEMMA PartialUpTo ==
    ASSUME NEW f, NEW S, IsFiniteSet(S), NEW n \in Nat
    PROVE  Summable(f, SubsetsUpTo(S, n))
  <1> DEFINE P == {m \in Nat : Summable(f, SubsetsUpTo(S, m))}
  <1>1. 0 \in P
    <2> DEFINE g == [T \in SubsetsUpTo(S, 0) |-> 0]
    <2>1. \A T \in SubsetsUpTo(S, 0) : T = {}
      BY FS_Subset, FS_EmptySet, FS_CardinalityType DEF SubsetsUpTo
    <2>2. \A T \in SubsetsUpTo(S, 0) : Sums(f, g, T) = 0
      BY <2>1 DEF Sums
    <2>3. g = [T \in SubsetsUpTo(S, 0) |-> Sums(f, g, T)]
      BY <2>2
    <2> QED
      BY <2>3 DEF Summable, IsPartial
  <1>2. ASSUME NEW m \in Nat, m \in P
        PROVE  m + 1 \in P
    <2>1. PICK g : g = [T \in SubsetsUpTo(S, m) |-> Sums(f, g, T)]
      BY <1>2 DEF Summable, IsPartial
    <2> DEFINE h == [T \in SubsetsUpTo(S, m + 1) |-> Sums(f, g, T)]
    <2>2. \A T \in SubsetsUpTo(S, m + 1) : T # {} => T \ {First(T)} \in SubsetsUpTo(S, m)
      <3> SUFFICES ASSUME NEW T \in SubsetsUpTo(S, m + 1), T # {}
                   PROVE  T \ {First(T)} \in SubsetsUpTo(S, m)
        OBVIOUS
      <3>1. IsFiniteSet(T) /\ Cardinality(T) \in Nat /\ First(T) \in T
        BY FirstIn, FS_Subset, FS_CardinalityType DEF SubsetsUpTo
      <3>2. Cardinality(T \ {First(T)}) = Cardinality(T) - 1
        BY <3>1, FS_RemoveElement
      <3> QED
        BY <3>1, <3>2 DEF SubsetsUpTo
    <2>3. SubsetsUpTo(S, m) \subseteq SubsetsUpTo(S, m + 1)
      BY FS_Subset, FS_CardinalityType DEF SubsetsUpTo
    <2>4. \A T \in SubsetsUpTo(S, m) : h[T] = g[T]
      BY <2>1, <2>3
    <2>5. \A T \in SubsetsUpTo(S, m + 1) : Sums(f, g, T) = Sums(f, h, T)
      BY <2>2, <2>4 DEF Sums
    <2>6. h = [T \in SubsetsUpTo(S, m + 1) |-> Sums(f, h, T)]
      BY <2>5
    <2>7. Summable(f, SubsetsUpTo(S, m + 1))
      BY <2>6 DEF Summable, IsPartial
    <2> QED
      BY <2>7
  <1>3. n \in P
    <2> HIDE DEF P
    <2> QED
      BY <1>1, <1>2, NaturalInduction
  <1> QED
    BY <1>3

\* Partial sums over a finite set are what their definition says.
LEMMA PartialDef ==
    ASSUME NEW f, NEW S, IsFiniteSet(S)
    PROVE  IsPartial(f, Partial(f, S), SUBSET S)
  <1>1. Summable(f, SubsetsUpTo(S, Cardinality(S)))
    BY FS_CardinalityType, PartialUpTo
  <1>2. SubsetsUpTo(S, Cardinality(S)) = SUBSET S
    BY FS_Subset DEF SubsetsUpTo
  <1>3. Summable(f, SUBSET S)
    BY <1>1, <1>2
  <1> QED
    BY <1>3, Zenon DEF Partial, Summable

\* The same, at each subset.
LEMMA PartialAt ==
    ASSUME NEW f, NEW S, IsFiniteSet(S), NEW T \in SUBSET S
    PROVE  Partial(f, S)[T] = Sums(f, Partial(f, S), T)
  <1>1. PICK g : g = Partial(f, S)
    OBVIOUS
  <1>2. IsPartial(f, g, SUBSET S)
    BY <1>1, PartialDef
  <1>3. g[T] = Sums(f, g, T)
    BY <1>2 DEF IsPartial
  <1> QED
    BY <1>1, <1>3

\* A set's partial sums are also those of its subsets.
LEMMA PartialAgrees ==
    ASSUME NEW f, NEW S, IsFiniteSet(S), NEW R \in SUBSET S, NEW T \in SUBSET R
    PROVE  Partial(f, R)[T] = Partial(f, S)[T]
  <1> DEFINE g == Partial(f, R)
             h == Partial(f, S)
             P == {Q \in SUBSET R : g[Q] = h[Q]}
  <1>1. IsFiniteSet(R)
    BY FS_Subset
  <1>2. /\ \A Q \in SUBSET R : g[Q] = Sums(f, g, Q)
        /\ \A Q \in SUBSET S : h[Q] = Sums(f, h, Q)
    BY <1>1, PartialAt
  <1> HIDE DEF g, h
  <1>3. ASSUME NEW Q \in SUBSET R, \A O \in SUBSET Q : O # Q => O \in P
        PROVE  Q \in P
    <2>1. Q # {} => First(Q) \in Q /\ Q \ {First(Q)} \in P
      BY <1>3, FirstIn
    <2>2. Sums(f, g, Q) = Sums(f, h, Q)
      BY <2>1 DEF Sums
    <2> QED
      BY <1>2, <2>2
  <1>4. SUBSET R \subseteq P
    <2> HIDE DEF P
    <2> QED
      BY <1>1, <1>3, SubsetInduction
  <1> QED
    BY <1>4 DEF g, h

-----------------------------------------------------------------------------
\* The sum over no elements.
LEMMA TotalEmpty ==
    ASSUME NEW f
    PROVE  Total(f, {}) = 0
  <1>1. Partial(f, {})[{}] = Sums(f, Partial(f, {}), {})
    BY FS_EmptySet, PartialAt
  <1> QED
    BY <1>1, TotalIsPartial DEF Sums

\* A sum takes its first element, and goes on with the rest.
LEMMA TotalFirst ==
    ASSUME NEW f, NEW S, IsFiniteSet(S), S # {}
    PROVE  Total(f, S) = f[First(S)] + Total(f, S \ {First(S)})
  <1> DEFINE R == S \ {First(S)}
  <1>1. Partial(f, S)[S] = Sums(f, Partial(f, S), S)
    BY PartialAt
  <1>2. Partial(f, R)[R] = Partial(f, S)[R]
    BY PartialAgrees
  <1> QED
    BY <1>1, <1>2, TotalIsPartial DEF Sums

\* The sum of integers is an integer.
LEMMA TotalType ==
    ASSUME NEW S, IsFiniteSet(S), NEW f, \A i \in S : f[i] \in Int
    PROVE  Total(f, S) \in Int
  <1> DEFINE P == {T \in SUBSET S : Total(f, T) \in Int}
  <1>1. ASSUME NEW T \in SUBSET S, \A R \in SUBSET T : R # T => R \in P
        PROVE  T \in P
    <2>1. CASE T = {}
      BY <2>1, TotalEmpty
    <2>2. CASE T # {}
      <3>1. IsFiniteSet(T) /\ First(T) \in T
        BY <2>2, FirstIn, FS_Subset
      <3>2. T \ {First(T)} \in P /\ f[First(T)] \in Int
        BY <1>1, <3>1
      <3> QED
        BY <2>2, <3>1, <3>2, TotalFirst
    <2> QED
      BY <2>1, <2>2
  <1>2. SUBSET S \subseteq P
    <2> HIDE DEF P
    <2> QED
      BY <1>1, SubsetInduction
  <1> QED
    BY <1>2

\* A sum may take any of its elements first.
LEMMA TotalRemove ==
    ASSUME NEW S, IsFiniteSet(S), NEW f, \A i \in S : f[i] \in Int, NEW x \in S
    PROVE  Total(f, S) = f[x] + Total(f, S \ {x})
  <1> DEFINE P == {T \in SUBSET S : \A y \in T : Total(f, T) = f[y] + Total(f, T \ {y})}
  <1>1. ASSUME NEW T \in SUBSET S, \A R \in SUBSET T : R # T => R \in P
        PROVE  T \in P
    <2> SUFFICES ASSUME NEW y \in T
                 PROVE  Total(f, T) = f[y] + Total(f, T \ {y})
      OBVIOUS
    <2> DEFINE z == First(T)
    <2>1. IsFiniteSet(T) /\ z \in T
      BY FirstIn, FS_Subset
    <2>2. Total(f, T) = f[z] + Total(f, T \ {z})
      BY TotalFirst, <2>1
    <2> HIDE DEF z
    <2>3. CASE z # y
      <3> DEFINE R == (T \ {y}) \ {z}
      <3>1. Total(f, T \ {z}) = f[y] + Total(f, R)
        <4>1. Total(f, T \ {z}) = f[y] + Total(f, (T \ {z}) \ {y})
          BY <1>1, <2>1, <2>3
        <4>2. (T \ {z}) \ {y} = R
          OBVIOUS
        <4> QED
          BY <4>1, <4>2
      <3>2. Total(f, T \ {y}) = f[z] + Total(f, R)
        BY <1>1, <2>1, <2>3
      <3>3. f[y] \in Int /\ f[z] \in Int /\ Total(f, R) \in Int
        <4>1. IsFiniteSet(R)
          BY <2>1, FS_Subset
        <4> QED
          BY <2>1, <4>1, TotalType
      <3> HIDE DEF R
      <3> QED
        BY <2>2, <3>1, <3>2, <3>3
    <2> QED
      BY <2>2, <2>3
  <1>2. SUBSET S \subseteq P
    <2> HIDE DEF P
    <2> QED
      BY <1>1, SubsetInduction
  <1> QED
    BY <1>2

\* One element more.
LEMMA TotalAdd ==
    ASSUME NEW S, IsFiniteSet(S), NEW f, \A i \in S : f[i] \in Int,
           NEW T \in SUBSET S, NEW x \in S, x \notin T
    PROVE  /\ Total(f, T \cup {x}) = f[x] + Total(f, T)
           /\ Total(f, T) \in Int
  <1>1. IsFiniteSet(T) /\ IsFiniteSet(T \cup {x})
    BY FS_Subset, FS_AddElement
  <1>2. (T \cup {x}) \ {x} = T
    OBVIOUS
  <1>3. Total(f, T \cup {x}) = f[x] + Total(f, (T \cup {x}) \ {x})
    BY <1>1, TotalRemove
  <1> QED
    BY <1>1, <1>2, <1>3, TotalType

\* The sum of sums.
LEMMA TotalSum ==
    ASSUME NEW S, IsFiniteSet(S), NEW f, NEW g, NEW h,
           \A i \in S : f[i] \in Int /\ g[i] \in Int /\ h[i] = f[i] + g[i]
    PROVE  Total(h, S) = Total(f, S) + Total(g, S)
  <1> DEFINE P == {T \in SUBSET S : Total(h, T) = Total(f, T) + Total(g, T)}
  <1>1. {} \in P
    BY TotalEmpty
  <1>2. ASSUME NEW T \in SUBSET S, NEW x \in S, T \in P, x \notin T
        PROVE  T \cup {x} \in P
    <2>1. \A i \in S : h[i] \in Int
      OBVIOUS
    <2>2. Total(h, T \cup {x}) = h[x] + Total(h, T)
      BY <1>2, <2>1, TotalAdd
    <2>3. Total(f, T \cup {x}) = f[x] + Total(f, T) /\ Total(f, T) \in Int
      BY <1>2, TotalAdd
    <2>4. Total(g, T \cup {x}) = g[x] + Total(g, T) /\ Total(g, T) \in Int
      BY <1>2, TotalAdd
    <2> QED
      BY <1>2, <2>2, <2>3, <2>4
  <1>3. S \in P
    <2> HIDE DEF P
    <2> QED
      BY <1>1, <1>2, ElementInduction
  <1> QED
    BY <1>3

\* A sum grows with its terms.
LEMMA TotalMonotonic ==
    ASSUME NEW S, IsFiniteSet(S), NEW f, NEW g,
           \A i \in S : f[i] \in Int /\ g[i] \in Int /\ f[i] <= g[i]
    PROVE  Total(f, S) <= Total(g, S)
  <1> DEFINE P == {T \in SUBSET S : Total(f, T) <= Total(g, T)}
  <1>1. {} \in P
    BY TotalEmpty
  <1>2. ASSUME NEW T \in SUBSET S, NEW x \in S, T \in P, x \notin T
        PROVE  T \cup {x} \in P
    <2>1. Total(f, T \cup {x}) = f[x] + Total(f, T) /\ Total(f, T) \in Int
      BY <1>2, TotalAdd
    <2>2. Total(g, T \cup {x}) = g[x] + Total(g, T) /\ Total(g, T) \in Int
      BY <1>2, TotalAdd
    <2> QED
      BY <1>2, <2>1, <2>2
  <1>3. S \in P
    <2> HIDE DEF P
    <2> QED
      BY <1>1, <1>2, ElementInduction
  <1> QED
    BY <1>3

\* Terms that are zero may be left out.
LEMMA TotalWithout ==
    ASSUME NEW S, IsFiniteSet(S), NEW f, NEW g, NEW D,
           \A i \in S : f[i] \in Int /\ g[i] = IF i \in D THEN 0 ELSE f[i]
    PROVE  Total(g, S) = Total(f, S \ D)
  <1> DEFINE P == {T \in SUBSET S : Total(g, T) = Total(f, T \ D)}
  <1>1. {} \in P
    BY TotalEmpty
  <1>2. ASSUME NEW T \in SUBSET S, NEW x \in S, T \in P, x \notin T
        PROVE  T \cup {x} \in P
    <2>1. \A i \in S : g[i] \in Int
      OBVIOUS
    <2>2. Total(g, T \cup {x}) = g[x] + Total(g, T) /\ Total(g, T) \in Int
      BY <1>2, <2>1, TotalAdd
    <2>3. CASE x \in D
      <3>1. (T \cup {x}) \ D = T \ D
        BY <2>3
      <3> QED
        BY <1>2, <2>2, <2>3, <3>1
    <2>4. CASE x \notin D
      <3>1. (T \cup {x}) \ D = (T \ D) \cup {x}
        BY <2>4
      <3>2. Total(f, (T \ D) \cup {x}) = f[x] + Total(f, T \ D)
        BY <1>2, TotalAdd
      <3> QED
        BY <1>2, <2>2, <2>4, <3>1, <3>2
    <2> QED
      BY <2>3, <2>4
  <1>3. S \in P
    <2> HIDE DEF P
    <2> QED
      BY <1>1, <1>2, ElementInduction
  <1> QED
    BY <1>3

\* A sum of terms up to m is at most m times their number.
LEMMA TotalAtMost ==
    ASSUME NEW S, IsFiniteSet(S), NEW f, NEW m \in Int,
           \A i \in S : f[i] \in Int /\ f[i] <= m
    PROVE  Total(f, S) <= Cardinality(S) * m
  <1> DEFINE P == {T \in SUBSET S : Total(f, T) <= Cardinality(T) * m}
  <1>1. {} \in P
    BY TotalEmpty, FS_EmptySet
  <1>2. ASSUME NEW T \in SUBSET S, NEW x \in S, T \in P, x \notin T
        PROVE  T \cup {x} \in P
    <2>1. Total(f, T \cup {x}) = f[x] + Total(f, T) /\ Total(f, T) \in Int
      BY <1>2, TotalAdd
    <2>2. PICK c \in Nat : c = Cardinality(T)
      BY FS_Subset, FS_CardinalityType
    <2>3. Cardinality(T \cup {x}) = c + 1
      BY <1>2, <2>2, FS_Subset, FS_AddElement
    <2>4. (c + 1) * m = c * m + m /\ c * m \in Int
      OBVIOUS
    <2> QED
      BY <1>2, <2>1, <2>2, <2>3, <2>4
  <1>3. S \in P
    <2> HIDE DEF P
    <2> QED
      BY <1>1, <1>2, ElementInduction
  <1> QED
    BY <1>3

\* A sum of terms from m on is at least m times their number.
LEMMA TotalAtLeast ==
    ASSUME NEW S, IsFiniteSet(S), NEW f, NEW m \in Int,
           \A i \in S : f[i] \in Int /\ f[i] >= m
    PROVE  Total(f, S) >= Cardinality(S) * m
  <1> DEFINE P == {T \in SUBSET S : Total(f, T) >= Cardinality(T) * m}
  <1>1. {} \in P
    BY TotalEmpty, FS_EmptySet
  <1>2. ASSUME NEW T \in SUBSET S, NEW x \in S, T \in P, x \notin T
        PROVE  T \cup {x} \in P
    <2>1. Total(f, T \cup {x}) = f[x] + Total(f, T) /\ Total(f, T) \in Int
      BY <1>2, TotalAdd
    <2>2. PICK c \in Nat : c = Cardinality(T)
      BY FS_Subset, FS_CardinalityType
    <2>3. Cardinality(T \cup {x}) = c + 1
      BY <1>2, <2>2, FS_Subset, FS_AddElement
    <2>4. (c + 1) * m = c * m + m /\ c * m \in Int
      OBVIOUS
    <2> QED
      BY <1>2, <2>1, <2>2, <2>3, <2>4
  <1>3. S \in P
    <2> HIDE DEF P
    <2> QED
      BY <1>1, <1>2, ElementInduction
  <1> QED
    BY <1>3

\* A sum depends on its terms only.
LEMMA TotalSame ==
    ASSUME NEW S, IsFiniteSet(S), NEW f, NEW g,
           \A i \in S : f[i] \in Int /\ g[i] = f[i]
    PROVE  Total(g, S) = Total(f, S)
  <1>1. PICK D : D = {}
    OBVIOUS
  <1>2. \A i \in S : f[i] \in Int /\ g[i] = IF i \in D THEN 0 ELSE f[i]
    BY <1>1
  <1>3. Total(g, S) = Total(f, S \ D)
    BY <1>2, TotalWithout
  <1>4. S \ D = S
    BY <1>1
  <1> QED
    BY <1>3, <1>4

\* The sum of fewer terms, none of them negative, is no greater.
LEMMA TotalSubset ==
    ASSUME NEW S, IsFiniteSet(S), NEW f, \A i \in S : f[i] \in Nat,
           NEW R \in SUBSET S
    PROVE  Total(f, R) <= Total(f, S)
  <1>1. PICK D : D = S \ R
    OBVIOUS
  <1>2. PICK g : g = [i \in S |-> IF i \in D THEN 0 ELSE f[i]]
    OBVIOUS
  <1>3. \A i \in S : f[i] \in Int /\ g[i] = IF i \in D THEN 0 ELSE f[i]
    BY <1>2
  <1>4. Total(g, S) = Total(f, S \ D)
    BY <1>3, TotalWithout
  <1>5. S \ D = R
    BY <1>1
  <1>6. Total(g, S) <= Total(f, S)
    <2>1. \A i \in S : g[i] \in Int /\ g[i] <= f[i]
      BY <1>3
    <2> QED
      BY <1>3, <2>1, TotalMonotonic
  <1> QED
    BY <1>4, <1>5, <1>6

\* Terms that are each no greater and add up to the same are the same.
LEMMA TotalEqual ==
    ASSUME NEW S, IsFiniteSet(S), NEW f, NEW g,
           \A i \in S : f[i] \in Int /\ g[i] \in Int /\ f[i] <= g[i],
           Total(f, S) = Total(g, S), NEW x \in S
    PROVE  f[x] = g[x]
  <1> DEFINE R == S \ {x}
  <1>1. IsFiniteSet(R)
    BY FS_RemoveElement
  <1>2. Total(f, S) = f[x] + Total(f, R) /\ Total(g, S) = g[x] + Total(g, R)
    BY TotalRemove
  <1>3. Total(f, R) <= Total(g, R)
    BY <1>1, TotalMonotonic
  <1>4. Total(f, R) \in Int /\ Total(g, R) \in Int
    BY <1>1, TotalType
  <1>5. f[x] \in Int /\ g[x] \in Int /\ f[x] <= g[x]
    OBVIOUS
  <1> HIDE DEF R
  <1>6. f[x] + Total(f, R) = g[x] + Total(g, R)
    BY <1>2
  <1> QED
    BY <1>3, <1>4, <1>5, <1>6

\* The sum of one term.
LEMMA TotalOne ==
    ASSUME NEW f, NEW x, f[x] \in Int
    PROVE  Total(f, {x}) = f[x]
  <1>1. IsFiniteSet({x}) /\ {x} \ {x} = {}
    BY FS_Singleton
  <1>2. Total(f, {x}) = f[x] + Total(f, {x} \ {x})
    BY <1>1, TotalRemove
  <1> QED
    BY <1>1, <1>2, TotalEmpty

\* A sum is that of a part and that of the rest.
LEMMA TotalApart ==
    ASSUME NEW S, IsFiniteSet(S), NEW f, \A i \in S : f[i] \in Int,
           NEW R \in SUBSET S
    PROVE  Total(f, S) = Total(f, R) + Total(f, S \ R)
  <1>1. PICK D \in SUBSET S : D = S \ R
    OBVIOUS
  <1>2. PICK g : g = [i \in S |-> IF i \in R THEN 0 ELSE f[i]]
    OBVIOUS
  <1>3. PICK h : h = [i \in S |-> IF i \in D THEN 0 ELSE f[i]]
    OBVIOUS
  <1>4. \A i \in S : f[i] \in Int /\ g[i] = IF i \in R THEN 0 ELSE f[i]
    BY <1>2
  <1>5. \A i \in S : f[i] \in Int /\ h[i] = IF i \in D THEN 0 ELSE f[i]
    BY <1>3
  <1>6. \A i \in S : h[i] \in Int /\ g[i] \in Int /\ f[i] = h[i] + g[i]
    BY <1>1, <1>4, <1>5
  <1>7. Total(g, S) = Total(f, S \ R)
    BY <1>4, TotalWithout
  <1>8. Total(h, S) = Total(f, S \ D) /\ S \ D = R
    BY <1>1, <1>5, TotalWithout
  <1>9. Total(f, S) = Total(h, S) + Total(g, S)
    BY <1>6, TotalSum
  <1> QED
    BY <1>7, <1>8, <1>9

\* Of finitely many numbered elements, one is the first with the highest value.
LEMMA FirstHighest ==
    ASSUME NEW S, IsFiniteSet(S), S \subseteq Int, S # {},
           NEW f, \A i \in S : f[i] \in Int
    PROVE  \E i \in S : \A j \in S : f[j] < f[i] \/ (f[j] = f[i] /\ i <= j)
  <1> DEFINE Wins(i, T) == \A j \in T : f[j] < f[i] \/ (f[j] = f[i] /\ i <= j)
             P == {T \in SUBSET S : T # {} => \E i \in T : Wins(i, T)}
  <1>1. {} \in P
    OBVIOUS
  <1>2. ASSUME NEW T \in SUBSET S, NEW x \in S, T \in P, x \notin T
        PROVE  T \cup {x} \in P
    <2>1. CASE T = {}
      <3>1. Wins(x, T \cup {x})
        BY <2>1
      <3> QED
        BY <3>1
    <2>2. CASE T # {}
      <3>1. PICK i \in T : Wins(i, T)
        BY <1>2, <2>2
      <3>2. CASE f[x] < f[i] \/ (f[x] = f[i] /\ i <= x)
        <4>1. Wins(i, T \cup {x})
          BY <3>1, <3>2
        <4> QED
          BY <4>1
      <3>3. CASE f[i] < f[x] \/ (f[x] = f[i] /\ x < i)
        <4>1. Wins(x, T \cup {x})
          BY <3>1, <3>3
        <4> QED
          BY <4>1
      <3> QED
        BY <3>2, <3>3
    <2> QED
      BY <2>1, <2>2
  <1> HIDE DEF P
  <1>3. S \in P
    BY <1>1, <1>2, ElementInduction
  <1> QED
    BY <1>3 DEF P
=============================================================================
