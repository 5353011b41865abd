-------------------------------- MODULE Sums --------------------------------
(***************************************************************************)
(* Sums over finite sets, as the weights of a VirtualService add up.       *)
(* SumFunction of the community modules is a recursive function on the     *)
(* subsets of the domain; what it computes is shown by induction on their  *)
(* cardinality, in the form of a least counterexample.  And lists of       *)
(* finite sets, which exist in any order that decides between any two.     *)
(***************************************************************************)
EXTENDS Integers, FiniteSets, Functions, TLAPS, FiniteSetTheorems, WellFoundedInduction

\* Every set of numbers that is not empty has a least one.
LEMMA LeastNat ==
  ASSUME NEW T \in SUBSET Nat, T # {}
  PROVE  \E n \in T : \A m \in T : n <= m
<1> DEFINE R == OpToRel(<, Nat)
<1>1. IsWellFoundedOn(R, Nat)
  BY NatLessThanWellFounded, Zenon
<1>2. \A a, b \in Nat : a < b => <<a, b>> \in R
  BY DEF OpToRel
<1>. HIDE DEF R
<1>3. PICK n \in T : \A m \in T : ~(<<m, n>> \in R)
  BY <1>1, WFMin
<1>4. \A m \in T : n <= m
  <2> TAKE m \in T
  <2>1. n \in Nat /\ m \in Nat /\ ~(m < n)
    BY <1>2, <1>3
  <2>. QED BY <2>1
<1>. QED BY <1>4

\* Induction: a set that holds 0 and the successors of its numbers holds them all.
LEMMA NatSetInduction ==
  ASSUME NEW T, 0 \in T, \A n \in Nat : n \in T => n + 1 \in T
  PROVE  Nat \subseteq T
<1> SUFFICES ASSUME ~(Nat \subseteq T) PROVE FALSE
  OBVIOUS
<1> DEFINE U == Nat \ T
<1>1. PICK n \in U : \A m \in U : n <= m
  <2>1. U \in SUBSET Nat /\ U # {}
    OBVIOUS
  <2>. HIDE DEF U
  <2>. QED BY <2>1, LeastNat
<1>2. n - 1 \in Nat /\ n - 1 \in T
  <2>1. n \in Nat /\ n # 0
    OBVIOUS
  <2>2. n - 1 \in Nat /\ ~(n <= n - 1)
    BY <2>1
  <2>. QED BY <1>1, <2>2
<1>3. (n - 1) + 1 = n
  OBVIOUS
<1>. QED BY <1>2, <1>3
-----------------------------------------------------------------------------
(* The recursion of SumFunction.                                           *)

Pick(s) == CHOOSE x \in s : TRUE

\* g adds up f over the sets in D.
AddsUp(g, f, D) ==
  g = [s \in D |-> IF s = {} THEN 0 ELSE f[Pick(s)] + g[s \ {Pick(s)}]]

SumOn(f, S) == CHOOSE g : AddsUp(g, f, SUBSET S)

UpTo(S, n) == {s \in SUBSET S : Cardinality(s) <= n}

\* SumFunction is that recursion, at the whole domain.
LEMMA SumIsRecursion ==
  ASSUME NEW f
  PROVE  SumFunction(f) = SumOn(f, DOMAIN f)[DOMAIN f]
BY DEF SumFunction, SumFunctionOnSet, FoldFunctionOnSet, MapThenFoldSet, SumOn, AddsUp, Pick

\* One element less makes a set smaller by one.
LEMMA OneLess ==
  ASSUME NEW s, IsFiniteSet(s), s # {}
  PROVE  /\ Pick(s) \in s /\ IsFiniteSet(s \ {Pick(s)})
         /\ Cardinality(s) \in Nat /\ Cardinality(s \ {Pick(s)}) \in Nat
         /\ Cardinality(s \ {Pick(s)}) = Cardinality(s) - 1
<1>1. Pick(s) \in s
  BY DEF Pick
<1>2. IsFiniteSet(s \ {Pick(s)}) /\ Cardinality(s \ {Pick(s)}) = Cardinality(s) - 1
  BY <1>1, FS_RemoveElement
<1>. QED BY <1>1, <1>2, FS_CardinalityType

\* The recursion ends: there is a function that adds up f over the subsets of S.
LEMMA SumDefined ==
  ASSUME NEW f, NEW S, IsFiniteSet(S)
  PROVE  AddsUp(SumOn(f, S), f, SUBSET S)
<1>. DEFINE T == {n \in Nat : \E g : AddsUp(g, f, UpTo(S, n))}
<1>1. \A s \in SUBSET S : IsFiniteSet(s) /\ Cardinality(s) \in Nat
  BY FS_Subset, FS_CardinalityType
<1>2. 0 \in T
  <2>. DEFINE g == [s \in UpTo(S, 0) |-> 0]
  <2>1. \A s \in UpTo(S, 0) : s = {}
    BY <1>1, FS_EmptySet DEF UpTo
  <2>2. AddsUp(g, f, UpTo(S, 0))
    BY <2>1 DEF AddsUp
  <2>. QED BY <2>2
<1>3. ASSUME NEW n \in Nat, n \in T
      PROVE  n + 1 \in T
  <2>1. PICK g : AddsUp(g, f, UpTo(S, n))
    BY <1>3
  <2>. DEFINE h == [s \in UpTo(S, n + 1) |->
                     IF s = {} THEN 0 ELSE f[Pick(s)] + g[s \ {Pick(s)}]]
  <2>2. ASSUME NEW s \in UpTo(S, n + 1), s # {}
        PROVE  h[s \ {Pick(s)}] = g[s \ {Pick(s)}]
    <3>. DEFINE r == s \ {Pick(s)}
    <3>1. r \in UpTo(S, n) /\ r \in UpTo(S, n + 1)
      <4>1. s \in SUBSET S /\ Cardinality(s) <= n + 1 /\ IsFiniteSet(s)
        BY <1>1 DEF UpTo
      <4>2. Cardinality(r) \in Nat /\ Cardinality(r) <= n
        BY <2>2, <4>1, OneLess
      <4>. QED BY <4>1, <4>2 DEF UpTo
    <3>2. g[r] = IF r = {} THEN 0 ELSE f[Pick(r)] + g[r \ {Pick(r)}]
      <4>. HIDE DEF r
      <4>. QED BY <2>1, <3>1 DEF AddsUp
    <3>3. h[r] = IF r = {} THEN 0 ELSE f[Pick(r)] + g[r \ {Pick(r)}]
      <4>. HIDE DEF r
      <4>. QED BY <3>1
    <3>. QED BY <3>2, <3>3
  <2>3. h = [s \in UpTo(S, n + 1) |->
              IF s = {} THEN 0 ELSE f[Pick(s)] + h[s \ {Pick(s)}]]
    <3>. DEFINE k == [s \in UpTo(S, n + 1) |->
                       IF s = {} THEN 0 ELSE f[Pick(s)] + h[s \ {Pick(s)}]]
    <3>1. \A s \in UpTo(S, n + 1) : h[s] = k[s]
      BY <2>2
    <3>2. /\ h = [s \in UpTo(S, n + 1) |-> h[s]]
          /\ k = [s \in UpTo(S, n + 1) |-> k[s]]
      OBVIOUS
    <3>. HIDE DEF h, k
    <3>3. h = k
      BY <3>1, <3>2
    <3>. QED BY <3>3 DEF k
  <2>4. AddsUp(h, f, UpTo(S, n + 1))
    BY <2>3 DEF AddsUp
  <2>. QED BY <2>4
<1>4. Nat \subseteq T
  <2>. HIDE DEF T
  <2>. QED BY <1>2, <1>3, NatSetInduction
<1>5. Cardinality(S) \in Nat /\ UpTo(S, Cardinality(S)) = SUBSET S
  BY FS_Subset, FS_CardinalityType DEF UpTo
<1>6. PICK g : AddsUp(g, f, SUBSET S)
  BY <1>4, <1>5
<1>. QED BY <1>6 DEF SumOn
\* What it computes.
LEMMA SumEmpty ==
  ASSUME NEW f, NEW S, IsFiniteSet(S)
  PROVE  SumOn(f, S)[{}] = 0
<1>. DEFINE g == SumOn(f, S)
<1>1. AddsUp(g, f, SUBSET S)
  BY SumDefined
<1>. HIDE DEF g
<1>2. g = [s \in SUBSET S |-> IF s = {} THEN 0 ELSE f[Pick(s)] + g[s \ {Pick(s)}]]
  BY <1>1 DEF AddsUp
<1>3. g[{}] = 0
  BY <1>2
<1>. QED BY <1>3 DEF g

LEMMA SumStep ==
  ASSUME NEW f, NEW S, IsFiniteSet(S), NEW s \in SUBSET S, s # {}
  PROVE  /\ SumOn(f, S)[s] = f[Pick(s)] + SumOn(f, S)[s \ {Pick(s)}]
         /\ Pick(s) \in s /\ Pick(s) \in S
<1>. DEFINE g == SumOn(f, S)
<1>1. AddsUp(g, f, SUBSET S)
  BY SumDefined
<1>. HIDE DEF g
<1>2. g = [r \in SUBSET S |-> IF r = {} THEN 0 ELSE f[Pick(r)] + g[r \ {Pick(r)}]]
  BY <1>1 DEF AddsUp
<1>3. g[s] = f[Pick(s)] + g[s \ {Pick(s)}]
  BY <1>2
<1>4. Pick(s) \in s
  BY DEF Pick
<1>. QED BY <1>3, <1>4 DEF g

\* Induction over the subsets of a finite set, one element at a time.
LEMMA SubsetInduction ==
  ASSUME NEW S, IsFiniteSet(S), NEW T, {} \in T,
         \A s \in SUBSET S : s # {} /\ s \ {Pick(s)} \in T => s \in T
  PROVE  SUBSET S \subseteq T
<1>. DEFINE M == {n \in Nat : \A s \in SUBSET S : Cardinality(s) = n => s \in T}
<1>1. \A s \in SUBSET S : IsFiniteSet(s) /\ Cardinality(s) \in Nat
  BY FS_Subset, FS_CardinalityType
<1>2. 0 \in M
  BY <1>1, FS_EmptySet
<1>3. ASSUME NEW n \in Nat, n \in M
      PROVE  n + 1 \in M
  <2> SUFFICES ASSUME NEW s \in SUBSET S, Cardinality(s) = n + 1
               PROVE  s \in T
    OBVIOUS
  <2>1. s # {}
    BY FS_EmptySet
  <2>2. s \ {Pick(s)} \in SUBSET S /\ Cardinality(s \ {Pick(s)}) = n
    BY <1>1, <2>1, OneLess
  <2>. QED BY <1>3, <2>1, <2>2
<1>4. Nat \subseteq M
  <2>. HIDE DEF M
  <2>. QED BY <1>2, <1>3, NatSetInduction
<1>. QED BY <1>1, <1>4
-----------------------------------------------------------------------------
(* Sums.                                                                   *)

\* A sum of integers is an integer, and of natural numbers a natural number.
LEMMA SumType ==
  ASSUME NEW S, IsFiniteSet(S), NEW f \in [S -> Int]
  PROVE  /\ SumFunction(f) \in Int
         /\ (\A x \in S : f[x] >= 0) => SumFunction(f) \in Nat
<1>. DEFINE T == {s \in SUBSET S : /\ SumOn(f, S)[s] \in Int
                                   /\ (\A x \in S : f[x] >= 0) => SumOn(f, S)[s] >= 0}
<1>1. {} \in T
  BY SumEmpty
<1>2. ASSUME NEW s \in SUBSET S, s # {}, s \ {Pick(s)} \in T
      PROVE  s \in T
  <2>1. SumOn(f, S)[s] = f[Pick(s)] + SumOn(f, S)[s \ {Pick(s)}]
    BY <1>2, SumStep
  <2>2. Pick(s) \in S /\ f[Pick(s)] \in Int
    BY <1>2 DEF Pick
  <2>. QED BY <1>2, <2>1, <2>2
<1>3. SUBSET S \subseteq T
  <2>. HIDE DEF T
  <2>. QED BY <1>1, <1>2, SubsetInduction
<1>. QED BY <1>3, SumIsRecursion

\* Where every term is at least that of another sum, so is the sum.
LEMMA SumMonotone ==
  ASSUME NEW S, IsFiniteSet(S), NEW f \in [S -> Int], NEW g \in [S -> Int],
         \A x \in S : f[x] <= g[x]
  PROVE  SumFunction(f) <= SumFunction(g)
<1>. DEFINE T == {s \in SUBSET S : /\ SumOn(f, S)[s] \in Int /\ SumOn(g, S)[s] \in Int
                                   /\ SumOn(f, S)[s] <= SumOn(g, S)[s]}
<1>1. {} \in T
  BY SumEmpty
<1>2. ASSUME NEW s \in SUBSET S, s # {}, s \ {Pick(s)} \in T
      PROVE  s \in T
  <2>1. /\ SumOn(f, S)[s] = f[Pick(s)] + SumOn(f, S)[s \ {Pick(s)}]
        /\ SumOn(g, S)[s] = g[Pick(s)] + SumOn(g, S)[s \ {Pick(s)}]
    BY <1>2, SumStep
  <2>2. Pick(s) \in S /\ f[Pick(s)] \in Int /\ g[Pick(s)] \in Int
    BY <1>2 DEF Pick
  <2>. QED BY <1>2, <2>1, <2>2
<1>3. SUBSET S \subseteq T
  <2>. HIDE DEF T
  <2>. QED BY <1>1, <1>2, SubsetInduction
<1>. QED BY <1>3, SumIsRecursion

\* The sum of zeros is zero.
LEMMA SumZero ==
  ASSUME NEW S, IsFiniteSet(S), NEW f \in [S -> Int], \A x \in S : f[x] = 0
  PROVE  SumFunction(f) = 0
<1>. DEFINE T == {s \in SUBSET S : SumOn(f, S)[s] = 0}
<1>1. {} \in T
  BY SumEmpty
<1>2. ASSUME NEW s \in SUBSET S, s # {}, s \ {Pick(s)} \in T
      PROVE  s \in T
  <2>1. SumOn(f, S)[s] = f[Pick(s)] + SumOn(f, S)[s \ {Pick(s)}]
    BY <1>2, SumStep
  <2>2. f[Pick(s)] = 0
    BY <1>2 DEF Pick
  <2>. QED BY <1>2, <2>1, <2>2
<1>3. SUBSET S \subseteq T
  <2>. HIDE DEF T
  <2>. QED BY <1>1, <1>2, SubsetInduction
<1>. QED BY <1>3, SumIsRecursion

\* Changing one term changes the sum by the difference.
LEMMA SumUpdate ==
  ASSUME NEW S, IsFiniteSet(S), NEW f \in [S -> Int], NEW t \in S, NEW w \in Int
  PROVE  SumFunction([f EXCEPT ![t] = w]) = SumFunction(f) - f[t] + w
<1>. DEFINE g == [f EXCEPT ![t] = w]
           d(s) == IF t \in s THEN w - f[t] ELSE 0
           T == {s \in SUBSET S : /\ SumOn(f, S)[s] \in Int
                                  /\ SumOn(g, S)[s] = SumOn(f, S)[s] + d(s)}
<1>1. {} \in T
  BY SumEmpty
<1>2. ASSUME NEW s \in SUBSET S, s # {}, s \ {Pick(s)} \in T
      PROVE  s \in T
  <2>1. /\ SumOn(f, S)[s] = f[Pick(s)] + SumOn(f, S)[s \ {Pick(s)}]
        /\ SumOn(g, S)[s] = g[Pick(s)] + SumOn(g, S)[s \ {Pick(s)}]
    <3>. HIDE DEF T, g
    <3>. QED BY <1>2, SumStep
  <2>2. Pick(s) \in s /\ Pick(s) \in S /\ f[Pick(s)] \in Int /\ f[t] \in Int
    BY <1>2 DEF Pick
  <2>3. g[Pick(s)] = IF Pick(s) = t THEN w ELSE f[Pick(s)]
    BY <2>2
  <2>4. /\ SumOn(f, S)[s \ {Pick(s)}] \in Int
        /\ SumOn(g, S)[s \ {Pick(s)}] = SumOn(f, S)[s \ {Pick(s)}] + d(s \ {Pick(s)})
    BY <1>2
  <2>5. d(s) = IF Pick(s) = t THEN w - f[t] ELSE d(s \ {Pick(s)})
    BY <2>2
  <2>6. Pick(s) = t => d(s \ {Pick(s)}) = 0
    OBVIOUS
  <2>7. d(s \ {Pick(s)}) \in Int
    BY <2>2
  <2>. HIDE DEF g, d
  <2>8. SumOn(g, S)[s] = SumOn(f, S)[s] + d(s) /\ SumOn(f, S)[s] \in Int
    BY <2>1, <2>2, <2>3, <2>4, <2>5, <2>6, <2>7
  <2>. QED BY <2>8
<1>3. SUBSET S \subseteq T
  <2>. HIDE DEF T
  <2>. QED BY <1>1, <1>2, SubsetInduction
<1>4. SumOn(g, S)[S] = SumOn(f, S)[S] + (w - f[t]) /\ SumOn(f, S)[S] \in Int /\ f[t] \in Int
  BY <1>3
<1>5. SumFunction(f) = SumOn(f, S)[S] /\ SumFunction(g) = SumOn(g, S)[S]
  <2>1. DOMAIN g = S /\ DOMAIN f = S
    OBVIOUS
  <2>. HIDE DEF g
  <2>. QED BY <2>1, SumIsRecursion
<1>. HIDE DEF g
<1>6. SumFunction(g) = SumFunction(f) - f[t] + w
  BY <1>4, <1>5
<1>. QED BY <1>6 DEF g
-----------------------------------------------------------------------------
(* Lists of a finite set, in an order that decides between any two.        *)

\* R, a set of pairs, decides which of two elements of S may come first.
Sorts(R, S) ==
  /\ \A a, b \in S : a = b \/ <<a, b>> \in R \/ <<b, a>> \in R
  /\ \A a, b, c \in S : <<a, b>> \in R /\ <<b, c>> \in R => <<a, c>> \in R

\* The element t of S may come after all others.
IsLast(R, S, t) == t \in S /\ \A u \in S \ {t} : <<u, t>> \in R

\* One element comes last.
LEMMA LastExists ==
  ASSUME NEW S, IsFiniteSet(S), S # {}, NEW R, Sorts(R, S)
  PROVE  \E t : IsLast(R, S, t)
<1> DEFINE T == {s \in SUBSET S : s = {} \/ \E t : IsLast(R, s, t)}
<1>1. {} \in T
  OBVIOUS
<1>2. ASSUME NEW s \in SUBSET S, s # {}, s \ {Pick(s)} \in T PROVE s \in T
  <2> DEFINE x == Pick(s)
  <2>1. x \in s
    BY <1>2, OneLess, FS_Subset
  <2>. HIDE DEF x
  <2>2. CASE s \ {x} = {}
    <3>1. IsLast(R, s, x)
      BY <2>1, <2>2 DEF IsLast
    <3>. QED BY <3>1
  <2>3. CASE s \ {x} # {}
    <3>1. PICK t : IsLast(R, s \ {x}, t)
      BY <1>2, <2>3 DEF x
    <3>2. t \in s /\ t # x /\ t \in S /\ x \in S
      BY <2>1, <3>1 DEF IsLast
    <3>3. CASE <<x, t>> \in R
      <4>1. IsLast(R, s, t)
        BY <3>1, <3>2, <3>3 DEF IsLast
      <4>. QED BY <4>1
    <3>4. CASE <<t, x>> \in R
      <4>1. ASSUME NEW u \in s \ {x} PROVE <<u, x>> \in R
        <5>1. u = t \/ <<u, t>> \in R
          BY <3>1 DEF IsLast
        <5>. QED BY <3>2, <3>4, <5>1 DEF Sorts
      <4>2. IsLast(R, s, x)
        BY <2>1, <4>1 DEF IsLast
      <4>. QED BY <4>2
    <3>. QED BY <3>2, <3>3, <3>4 DEF Sorts
  <2>. QED BY <2>2, <2>3
<1>3. SUBSET S \subseteq T
  <2>. HIDE DEF T
  <2>. QED BY <1>1, <1>2, SubsetInduction
<1>. QED BY <1>3

\* order lists S, as R decides.
ListedBy(R, S, order) ==
  /\ order \in [1 .. Cardinality(S) -> S]
  /\ \A m, n \in 1 .. Cardinality(S) : m # n => order[m] # order[n]
  /\ \A m, n \in 1 .. Cardinality(S) : m < n => <<order[m], order[n]>> \in R

\* There is a list in the order.
LEMMA OrderExists ==
  ASSUME NEW S, IsFiniteSet(S), NEW R, Sorts(R, S)
  PROVE  \E order : ListedBy(R, S, order)
<1> DEFINE M == {n \in Nat : \A s \in SUBSET S :
                   Cardinality(s) = n => \E order : ListedBy(R, s, order)}
<1>1. \A s \in SUBSET S : IsFiniteSet(s) /\ Cardinality(s) \in Nat
  BY FS_Subset, FS_CardinalityType
<1>2. 0 \in M
  <2> SUFFICES ASSUME NEW s \in SUBSET S, Cardinality(s) = 0 PROVE \E order : ListedBy(R, s, order)
    OBVIOUS
  <2>1. ListedBy(R, s, [m \in 1 .. 0 |-> 0])
    BY DEF ListedBy
  <2>. QED BY <2>1
<1>3. ASSUME NEW n \in Nat, n \in M PROVE n + 1 \in M
  <2> SUFFICES ASSUME NEW s \in SUBSET S, Cardinality(s) = n + 1
               PROVE  \E order : ListedBy(R, s, order)
    OBVIOUS
  <2>1. s # {} /\ IsFiniteSet(s)
    BY <1>1, FS_EmptySet
  <2>2. Sorts(R, s)
    BY DEF Sorts
  <2>3. PICK t : IsLast(R, s, t)
    BY <2>1, <2>2, LastExists
  <2>4. t \in s /\ s \ {t} \in SUBSET S /\ Cardinality(s \ {t}) = n
    <3>1. t \in s /\ s \ {t} \in SUBSET S
      BY <2>3 DEF IsLast
    <3>2. Cardinality(s \ {t}) = Cardinality(s) - 1
      BY <2>1, <3>1, FS_RemoveElement
    <3>. QED BY <3>1, <3>2
  <2>5. PICK o : ListedBy(R, s \ {t}, o)
    BY <1>3, <2>4
  <2>6. /\ o \in [1 .. n -> s \ {t}]
        /\ \A m, k \in 1 .. n : m # k => o[m] # o[k]
        /\ \A m, k \in 1 .. n : m < k => <<o[m], o[k]>> \in R
    BY <2>4, <2>5 DEF ListedBy
  <2> DEFINE p == [m \in 1 .. n + 1 |-> IF m = n + 1 THEN t ELSE o[m]]
  <2>7. \A m \in 1 .. n + 1 : m = n + 1 \/ m \in 1 .. n
    OBVIOUS
  <2>8. p \in [1 .. n + 1 -> s]
    BY <2>4, <2>6, <2>7
  <2>9. /\ \A m \in 1 .. n : p[m] = o[m] /\ o[m] \in s \ {t}
        /\ p[n + 1] = t
    BY <2>6
  <2>. HIDE DEF p
  <2>10. \A m, k \in 1 .. n + 1 : m # k => p[m] # p[k]
    BY <2>6, <2>7, <2>9
  <2>11. \A m, k \in 1 .. n + 1 : m < k => <<p[m], p[k]>> \in R
    <3> SUFFICES ASSUME NEW m \in 1 .. n + 1, NEW k \in 1 .. n + 1, m < k
                 PROVE  <<p[m], p[k]>> \in R
      OBVIOUS
    <3>1. m \in 1 .. n
      OBVIOUS
    <3>2. CASE k = n + 1
      BY <2>3, <2>9, <3>1, <3>2 DEF IsLast
    <3>3. CASE k \in 1 .. n
      BY <2>6, <2>9, <3>1, <3>3
    <3>. QED BY <2>7, <3>2, <3>3
  <2>12. ListedBy(R, s, p)
    BY <2>8, <2>10, <2>11 DEF ListedBy
  <2>. QED BY <2>12
<1>4. Cardinality(S) \in M
  <2>. HIDE DEF M
  <2>1. Nat \subseteq M
    BY <1>2, <1>3, NatSetInduction
  <2>. QED BY <1>1, <2>1
<1>. QED BY <1>4
=============================================================================
