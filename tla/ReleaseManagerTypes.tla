------------------------ MODULE ReleaseManagerTypes -------------------------
(***************************************************************************)
(* The types of a reconcile, and what its steps do.                        *)
(*                                                                         *)
(* First the loop of prepareRevisions (syncer.go): whatever the number of  *)
(* incarnations, after its n-th round the first n of the list have their   *)
(* weight, and the weights and the remainder are 100 together.  The loop   *)
(* is a recursive function, so that it is what its equation says for every *)
(* list is a lemma too (VisitsDefined); both are shown by the least round  *)
(* at which they would fail.                                               *)
(*                                                                         *)
(* Then one lemma for each action of ReleaseManager: it keeps TypeOK and   *)
(* what is true of the variables at each point of a reconcile (Structure). *)
(* On the way Tick and RouteSubsets are restated in terms of what the      *)
(* other proofs need: TickTicks, RouteRoutes.                              *)
(***************************************************************************)
EXTENDS ReleaseManager, Sums, TrafficSplitProofs, TLAPS, SequenceTheorems

\* The records that a handler answers with.
USE DEF Then, To
-----------------------------------------------------------------------------
\* The fields that the handlers change or leave in place.
SameBut(i, j) ==
  /\ j.state = i.state /\ j.rev = i.rev /\ j.failed = i.failed /\ j.failedAt = i.failedAt
  /\ j.ext = i.ext /\ (j.elig => i.elig)

\* What prepareRevisions works on, when the incarnations are D.
SplitsOf(D) ==
  [inc : [D -> Incarnation], weight : [Tags -> 0 .. 100], rem : 0 .. 100, panic : BOOLEAN]

\* What is given away and what remains are the whole traffic.
WholeSplit(D, s) ==
  /\ s \in SplitsOf(D)
  /\ SumFunction(s.weight) \in Int /\ SumFunction(s.weight) + s.rem = 100

\* From s to v the incarnation t is given its weight, and nobody else is.
Gives(D, t, s, v) ==
  /\ WholeSplit(D, v)
  /\ v.weight[t] = v.inc[t].cur
  /\ SameBut(s.inc[t], v.inc[t])
  /\ \A u \in D \ {t} : v.inc[u] = s.inc[u]
  /\ \A u \in Tags \ {t} : v.weight[u] = s.weight[u]

\* s is the split of c after the incarnations in seen have been visited.
Divides(c, seen, s) ==
  /\ WholeSplit(DOMAIN c, s)
  /\ \A t \in DOMAIN c :
       /\ SameBut(c[t], s.inc[t])
       /\ s.weight[t] = IF t \in seen THEN s.inc[t].cur ELSE 0
       /\ t \notin seen => s.inc[t] = Settled(c[t])
  /\ \A t \in Tags \ DOMAIN c : s.weight[t] = 0

\* A percentage is all that updateCurrentPercent changes, and the peak follows it.
LEMMA UpdateType ==
  ASSUME NEW i \in Incarnation, NEW p \in 0 .. 100
  PROVE  /\ UpdateCurrentPercent(i, p) \in Incarnation
         /\ UpdateCurrentPercent(i, p).cur = p
         /\ SameBut(i, UpdateCurrentPercent(i, p))
<1> DEFINE peak == IF p > i.peak THEN p ELSE i.peak
<1>1. peak \in 0 .. 100
  BY DEF Incarnation
<1>2. UpdateCurrentPercent(i, p) = [i EXCEPT !.cur = p, !.peak = peak]
  BY DEF UpdateCurrentPercent
<1>. HIDE DEF peak
<1>. QED BY <1>1, <1>2 DEF Incarnation, SameBut

\* prepareRevisions takes the percentage of what is not releasable, and nothing else.
LEMMA SettledType ==
  ASSUME NEW i \in Incarnation
  PROVE  /\ Settled(i) \in Incarnation /\ SameBut(i, Settled(i))
         /\ IsReleasable(i) => Settled(i) = i
         /\ ~IsReleasable(i) => Settled(i).cur = 0
<1>1. 0 \in 0 .. 100
  OBVIOUS
<1>. QED BY <1>1, UpdateType DEF Settled, SameBut

\* What Visit gives.
LEMMA VisitGives ==
  ASSUME NEW D \in SUBSET Tags, NEW s, WholeSplit(D, s), NEW t \in D, s.weight[t] = 0,
         NEW after \in BOOLEAN, NEW gate \in BOOLEAN
  PROVE  Gives(D, t, s, Visit(s, t, after, gate))
<1> DEFINE i == s.inc[t]
           p == CurrentPercentTarget(i, t, Cap(i, s.rem, after), gate)
           j == UpdateCurrentPercent(i, p)
           k == IF p <= 0 /\ after THEN [j EXCEPT !.elig = FALSE] ELSE j
           v == Visit(s, t, after, gate)
<1>1. /\ i \in Incarnation /\ s.rem \in 0 .. 100 /\ s.rem \in Nat
      /\ i.cur \in Nat /\ t \in Tags /\ t \in Incarnations
  BY DEF WholeSplit, SplitsOf, Incarnation, Tags
<1>2. p \in Nat /\ p <= s.rem
  <2> DEFINE c == Cap(i, s.rem, after)
  <2>1. c \in Nat /\ c <= s.rem
    <3>. HIDE DEF i
    <3>. QED BY <1>1, CapBound
  <2>. HIDE DEF c, i
  <2>2. CurrentPercentTarget(i, t, c, gate) \in 0 .. c
    BY <1>1, <2>1, TargetBound
  <2>. QED BY <1>1, <2>1, <2>2 DEF c
<1>. HIDE DEF i, p
<1>3. j \in Incarnation /\ j.cur = p /\ SameBut(i, j)
  <2>1. p \in 0 .. 100
    BY <1>1, <1>2
  <2>. QED BY <1>1, <2>1, UpdateType
<1>. HIDE DEF j
<1>4. k \in Incarnation /\ k.cur = p /\ SameBut(i, k)
  <2> DEFINE e == [j EXCEPT !.elig = FALSE]
  <2>1. e \in Incarnation
    BY <1>3, ZenonT(60) DEF Incarnation
  <2>2. e.cur = p /\ SameBut(i, e)
    BY <1>3 DEF Incarnation, SameBut
  <2>3. k = e \/ k = j
    OBVIOUS
  <2>. HIDE DEF e, k
  <2>. QED BY <1>3, <2>1, <2>2, <2>3
<1>. HIDE DEF k
<1>5. v = [s EXCEPT !.inc[t] = k, !.weight[t] = p, !.rem = @ - p]
  <2>1. ~(p > s.rem)
    BY <1>1, <1>2
  <2>2. v = IF p > s.rem THEN [s EXCEPT !.panic = TRUE]
            ELSE [s EXCEPT !.inc[t] = k, !.weight[t] = p, !.rem = @ - p]
    BY DEF Visit, i, p, j, k
  <2>. QED BY <2>1, <2>2
<1>. HIDE DEF v
<1>6. /\ v.inc = [s.inc EXCEPT ![t] = k] /\ v.weight = [s.weight EXCEPT ![t] = p]
      /\ v.rem = s.rem - p /\ v \in SplitsOf(D)
  <2>1. p \in 0 .. 100 /\ s.rem - p \in 0 .. 100 /\ s \in SplitsOf(D)
    BY <1>1, <1>2 DEF WholeSplit
  <2>2. v = [inc |-> [s.inc EXCEPT ![t] = k], weight |-> [s.weight EXCEPT ![t] = p],
             rem |-> s.rem - p, panic |-> s.panic]
    BY <1>5, <2>1 DEF SplitsOf
  <2>3. [s.inc EXCEPT ![t] = k] \in [D -> Incarnation] /\ [s.weight EXCEPT ![t] = p] \in [Tags -> 0 .. 100]
    BY <1>1, <1>4, <2>1 DEF SplitsOf
  <2>. QED BY <2>1, <2>2, <2>3 DEF SplitsOf
<1>7. SumFunction(v.weight) = SumFunction(s.weight) + p
  <2>1. SumFunction([s.weight EXCEPT ![t] = p]) = SumFunction(s.weight) - s.weight[t] + p
    <3>1. s.weight \in [Tags -> Int] /\ IsFiniteSet(Tags) /\ p \in Int
      BY <1>2, TagsAssumption DEF WholeSplit, SplitsOf
    <3>. QED BY <1>1, <3>1, SumUpdate
  <2>2. SumFunction(s.weight) \in Int
    BY DEF WholeSplit, SplitsOf
  <2>. QED BY <1>1, <1>2, <1>6, <2>1, <2>2
<1>8. WholeSplit(D, v)
  BY <1>1, <1>2, <1>6, <1>7 DEF WholeSplit
<1>9. /\ v.weight[t] = v.inc[t].cur /\ SameBut(s.inc[t], v.inc[t])
      /\ \A u \in D \ {t} : v.inc[u] = s.inc[u]
      /\ \A u \in Tags \ {t} : v.weight[u] = s.weight[u]
  BY <1>1, <1>4, <1>6 DEF WholeSplit, SplitsOf, i
<1>. QED BY <1>8, <1>9 DEF Gives, v

\* No part is more than the whole.
LEMMA PartOfWhole ==
  ASSUME NEW S, IsFiniteSet(S), NEW f \in [S -> Nat], NEW t \in S
  PROVE  f[t] <= SumFunction(f)
<1> DEFINE g == [f EXCEPT ![t] = 0]
<1>1. f \in [S -> Int] /\ 0 \in Int
  OBVIOUS
<1>2. SumFunction(g) = SumFunction(f) - f[t] + 0
  BY <1>1, SumUpdate
<1>3. g \in [S -> Int] /\ \A x \in S : g[x] >= 0
  OBVIOUS
<1>. HIDE DEF g
<1>4. SumFunction(g) \in Nat /\ SumFunction(f) \in Int
  BY <1>1, <1>3, SumType
<1>. QED BY <1>2, <1>4

\* The leftover fits one that has been given its weight.
LEMMA LeftoverGives ==
  ASSUME NEW D \in SUBSET Tags, NEW s, WholeSplit(D, s), NEW t \in D,
         s.weight[t] = s.inc[t].cur
  PROVE  /\ Gives(D, t, s, AssignLeftover(s, t))
         /\ AssignLeftover(s, t).rem = 0
<1> DEFINE p == s.inc[t].cur + s.rem
           i == UpdateCurrentPercent(s.inc[t], p)
           v == AssignLeftover(s, t)
<1>1. /\ s \in SplitsOf(D) /\ s.rem \in 0 .. 100 /\ s.weight \in [Tags -> 0 .. 100]
      /\ SumFunction(s.weight) \in Int /\ SumFunction(s.weight) + s.rem = 100
      /\ s.inc[t] \in Incarnation /\ s.weight[t] \in 0 .. 100
  BY DEF WholeSplit, SplitsOf
<1>2. s.weight[t] <= SumFunction(s.weight)
  <2>1. s.weight \in [Tags -> Nat] /\ IsFiniteSet(Tags) /\ t \in Tags
    BY <1>1, TagsAssumption
  <2>. QED BY <2>1, PartOfWhole
<1>3. p \in 0 .. 100
  <2> DEFINE w == s.weight[t]
             r == s.rem
             total == SumFunction(s.weight)
  <2>1. w \in 0 .. 100 /\ r \in 0 .. 100 /\ total \in Int /\ total + r = 100 /\ w <= total
    BY <1>1, <1>2
  <2>2. p = w + r
    OBVIOUS
  <2>. HIDE DEF w, r, total, p
  <2>. QED BY <2>1, <2>2
<1>4. v = [s EXCEPT !.inc[t] = i, !.weight[t] = p, !.rem = 0]
  BY <1>1 DEF AssignLeftover, SplitsOf
<1>. HIDE DEF v
<1>5. i \in Incarnation /\ i.cur = p /\ SameBut(s.inc[t], i)
  <2>. HIDE DEF p
  <2>. QED BY <1>1, <1>3, UpdateType
<1>. HIDE DEF i
<1>6. /\ v.inc = [s.inc EXCEPT ![t] = i] /\ v.weight = [s.weight EXCEPT ![t] = p]
      /\ v.rem = 0 /\ v \in SplitsOf(D)
  <2>1. 0 \in 0 .. 100
    OBVIOUS
  <2>. HIDE DEF p
  <2>. QED BY <1>1, <1>3, <1>4, <1>5, <2>1 DEF SplitsOf
<1>7. SumFunction(v.weight) = 100
  <2>1. SumFunction([s.weight EXCEPT ![t] = p]) = SumFunction(s.weight) - s.weight[t] + p
    <3>1. s.weight \in [Tags -> Int] /\ IsFiniteSet(Tags) /\ p \in Int /\ t \in Tags
      BY <1>1, <1>3, TagsAssumption
    <3>. HIDE DEF p
    <3>. QED BY <3>1, SumUpdate
  <2> DEFINE w == s.weight[t]
             total == SumFunction(s.weight)
  <2>2. w \in Int /\ s.rem \in Int /\ total \in Int /\ total + s.rem = 100 /\ p = w + s.rem
    BY <1>1
  <2>3. SumFunction(v.weight) = total - w + p
    BY <1>6, <2>1
  <2>. HIDE DEF w, total, p
  <2>. QED BY <2>2, <2>3
<1>8. WholeSplit(D, v)
  BY <1>6, <1>7 DEF WholeSplit
<1>9. /\ v.weight[t] = v.inc[t].cur /\ SameBut(s.inc[t], v.inc[t])
      /\ \A u \in D \ {t} : v.inc[u] = s.inc[u]
      /\ \A u \in Tags \ {t} : v.weight[u] = s.weight[u]
  <2>. HIDE DEF p
  <2>. QED BY <1>1, <1>5, <1>6 DEF SplitsOf
<1>. QED BY <1>6, <1>8, <1>9 DEF Gives, v
-----------------------------------------------------------------------------
(* The loop.                                                               *)

\* What the loop starts from.
Undivided(c) ==
  [inc |-> [t \in DOMAIN c |-> Settled(c[t])], weight |-> NoWeights, rem |-> 100,
   panic |-> FALSE]

\* f holds the splits of the loop's first len rounds.
Rounds(c, order, open, len, f) ==
  f = [n \in 0 .. len |->
         IF n = 0 THEN Undivided(c)
         ELSE Visit(f[n - 1], order[n], After(order, n), order[n] \in open)]

\* Before the loop nobody has been given a weight.
LEMMA NobodyDivides ==
  ASSUME NEW c, IsPartial(c, Tags, Incarnation)
  PROVE  Divides(c, {}, Undivided(c))
<1> DEFINE s == Undivided(c)
<1>1. \A t \in DOMAIN c : Settled(c[t]) \in Incarnation /\ SameBut(c[t], Settled(c[t]))
  BY SettledType DEF IsPartial
<1>2. SumFunction(NoWeights) = 0
  <2>1. NoWeights \in [Tags -> Int] /\ (\A t \in Tags : NoWeights[t] = 0) /\ IsFiniteSet(Tags)
    BY TagsAssumption DEF NoWeights
  <2>. QED BY <2>1, SumZero
<1>3. NoWeights \in [Tags -> 0 .. 100] /\ 100 \in 0 .. 100
  BY DEF NoWeights
<1>4. WholeSplit(DOMAIN c, s)
  BY <1>1, <1>2, <1>3 DEF WholeSplit, SplitsOf, Undivided
<1>5. \A t \in Tags : s.weight[t] = 0
  BY DEF NoWeights, Undivided
<1>. QED BY <1>1, <1>4, <1>5 DEF Divides, IsPartial, Undivided

\* One more is given its weight.
LEMMA GivesDivides ==
  ASSUME NEW c, IsPartial(c, Tags, Incarnation), NEW seen, NEW s, NEW v, NEW t \in DOMAIN c,
         Divides(c, seen, s), Gives(DOMAIN c, t, s, v)
  PROVE  Divides(c, seen \cup {t}, v)
<1>1. DOMAIN c \subseteq Tags
  BY DEF IsPartial
<1>2. ASSUME NEW u \in DOMAIN c
      PROVE  /\ SameBut(c[u], v.inc[u])
             /\ v.weight[u] = IF u \in seen \cup {t} THEN v.inc[u].cur ELSE 0
             /\ u \notin seen \cup {t} => v.inc[u] = Settled(c[u])
  <2>1. CASE u = t
    BY <2>1 DEF Divides, Gives, SameBut
  <2>2. CASE u # t
    BY <1>1, <2>2 DEF Divides, Gives
  <2>. QED BY <2>1, <2>2
<1>. QED BY <1>2 DEF Divides, Gives

\* The loop is what its recursion says, however long the list is.
LEMMA VisitsDefined ==
  ASSUME NEW c, NEW order, NEW open, Len(order) \in Nat
  PROVE  Rounds(c, order, open, Len(order), Visits(c, order, open))
<1> DEFINE T == {n \in Nat : \E f : Rounds(c, order, open, n, f)}
<1>1. 0 \in T
  <2>1. Rounds(c, order, open, 0, [n \in 0 .. 0 |-> Undivided(c)])
    BY DEF Rounds
  <2>. QED BY <2>1
<1>2. ASSUME NEW n \in Nat, n \in T PROVE n + 1 \in T
  <2>1. PICK f : Rounds(c, order, open, n, f)
    BY <1>2
  <2> DEFINE v == Visit(f[n], order[n + 1], After(order, n + 1), order[n + 1] \in open)
             g == [m \in 0 .. n + 1 |-> IF m <= n THEN f[m] ELSE v]
  <2>2. ASSUME NEW m \in 0 .. n + 1
        PROVE  g[m] = IF m = 0 THEN Undivided(c)
                      ELSE Visit(g[m - 1], order[m], After(order, m), order[m] \in open)
    <3>1. CASE m = 0
      <4>1. g[m] = f[0]
        BY <3>1
      <4>2. f[0] = Undivided(c)
        BY <2>1 DEF Rounds
      <4>. QED BY <3>1, <4>1, <4>2
    <3>2. CASE m # 0 /\ m <= n
      <4>1. m \in 0 .. n /\ m - 1 \in 0 .. n /\ m - 1 \in 0 .. n + 1 /\ m - 1 <= n
        BY <3>2
      <4>2. g[m] = f[m] /\ g[m - 1] = f[m - 1]
        BY <3>2, <4>1
      <4>3. f[m] = Visit(f[m - 1], order[m], After(order, m), order[m] \in open)
        BY <2>1, <3>2, <4>1 DEF Rounds
      <4>. QED BY <3>2, <4>2, <4>3
    <3>3. CASE m = n + 1
      <4>1. m # 0 /\ ~(m <= n) /\ m - 1 = n /\ n \in 0 .. n + 1 /\ n <= n
        BY <3>3
      <4>2. g[m] = v /\ g[m - 1] = f[n]
        BY <4>1
      <4>. QED BY <3>3, <4>1, <4>2
    <3>4. m = 0 \/ (m # 0 /\ m <= n) \/ m = n + 1
      OBVIOUS
    <3>. QED BY <3>1, <3>2, <3>3, <3>4
  <2>3. g = [m \in 0 .. n + 1 |-> g[m]]
    OBVIOUS
  <2>. HIDE DEF g
  <2>4. Rounds(c, order, open, n + 1, g)
    BY <2>2, <2>3 DEF Rounds
  <2>. QED BY <2>4
<1>3. Len(order) \in T
  <2>. HIDE DEF T
  <2>. QED BY <1>1, <1>2, NatSetInduction
<1>4. PICK f : Rounds(c, order, open, Len(order), f)
  BY <1>3
<1>5. Visits(c, order, open) = CHOOSE g : Rounds(c, order, open, Len(order), g)
  BY DEF Visits, Rounds, Undivided
<1>. QED BY <1>4, <1>5

\* A list of a finite set holds each of its elements, once.
LEMMA OrderOf ==
  ASSUME NEW S, IsFiniteSet(S), NEW order \in SetToSeqs(S)
  PROVE  /\ Len(order) \in Nat /\ order \in [1 .. Len(order) -> S]
         /\ \A m, n \in 1 .. Len(order) : m # n => order[m] # order[n]
         /\ {order[n] : n \in 1 .. Len(order)} = S
<1> DEFINE k == Cardinality(S)
<1>1. k \in Nat
  BY FS_CardinalityType
<1>2. /\ order \in [1 .. k -> S]
      /\ \A m, n \in 1 .. k : m # n => order[m] # order[n]
  BY DEF SetToSeqs
<1>3. Len(order) = k
  <2>1. order \in Seq(S)
    BY <1>1, <1>2, SeqDef
  <2>2. Len(order) \in Nat /\ DOMAIN order = 1 .. Len(order)
    BY <2>1, LenProperties
  <2>. HIDE DEF k
  <2>. QED BY <1>1, <1>2, <2>2
<1>4. {order[n] : n \in 1 .. k} = S
  <2>1. order \in Injection(1 .. k, S)
    BY <1>2 DEF Injection, IsInjective
  <2>2. Cardinality(1 .. k) = k /\ IsFiniteSet(1 .. k)
    BY <1>1, FS_Interval
  <2>3. order \in Surjection(1 .. k, S)
    BY <2>1, <2>2, FS_Injection
  <2>. QED BY <2>3 DEF Surjection
<1>. HIDE DEF k
<1>. QED BY <1>1, <1>2, <1>3, <1>4

\* The set of what can be given traffic.
ReleasableTags(c) == {t \in DOMAIN c : IsReleasable(c[t])}

\* IncarnationCollection.releasable lists each releasable incarnation once.
LEMMA ReleasableOrder ==
  ASSUME NEW c, IsPartial(c, Tags, Incarnation), NEW order \in Releasable(c)
  PROVE  /\ Len(order) \in Nat /\ order \in [1 .. Len(order) -> ReleasableTags(c)]
         /\ \A m, n \in 1 .. Len(order) : m # n => order[m] # order[n]
         /\ {order[n] : n \in 1 .. Len(order)} = ReleasableTags(c)
<1>1. ReleasableTags(c) \in SUBSET Tags
  BY DEF ReleasableTags, IsPartial
<1>2. IsFiniteSet(ReleasableTags(c))
  BY <1>1, TagsAssumption, FS_Subset
<1>3. order \in SetToSeqs(ReleasableTags(c))
  BY DEF Releasable, ReleasableTags
<1>. QED BY <1>2, <1>3, OrderOf

\* What the first n of the list are.
FirstOf(order, n) == {order[m] : m \in 1 .. n}

\* After n rounds the first n of the list have their weights.
LEMMA VisitsDivide ==
  ASSUME NEW c, IsPartial(c, Tags, Incarnation), NEW order \in Releasable(c), NEW open,
         NEW n \in 0 .. Len(order)
  PROVE  Divides(c, FirstOf(order, n), Visits(c, order, open)[n])
<1> DEFINE f == Visits(c, order, open)
           T == {m \in Nat : m <= Len(order) => Divides(c, FirstOf(order, m), f[m])}
<1>1. /\ Len(order) \in Nat /\ order \in [1 .. Len(order) -> ReleasableTags(c)]
      /\ \A l, m \in 1 .. Len(order) : l # m => order[l] # order[m]
  BY ReleasableOrder
<1>2. Rounds(c, order, open, Len(order), f)
  BY <1>1, VisitsDefined
<1>. HIDE DEF f
<1>3. 0 \in T
  <2>1. f[0] = Undivided(c)
    BY <1>1, <1>2 DEF Rounds
  <2>2. FirstOf(order, 0) = {}
    BY DEF FirstOf
  <2>. QED BY <2>1, <2>2, NobodyDivides
<1>4. ASSUME NEW m \in Nat, m \in T PROVE m + 1 \in T
  <2> SUFFICES ASSUME m + 1 <= Len(order) PROVE Divides(c, FirstOf(order, m + 1), f[m + 1])
    OBVIOUS
  <2> DEFINE t == order[m + 1]
             after == After(order, m + 1)
             gate == t \in open
  <2>1. Divides(c, FirstOf(order, m), f[m])
    BY <1>1, <1>4
  <2>2. m + 1 \in 1 .. Len(order) /\ t \in DOMAIN c /\ DOMAIN c \in SUBSET Tags
    BY <1>1 DEF ReleasableTags, IsPartial
  <2>3. f[m + 1] = Visit(f[m], t, after, gate)
    BY <1>1, <1>2, <2>2 DEF Rounds
  <2>4. t \notin FirstOf(order, m)
    <3> SUFFICES ASSUME NEW l \in 1 .. m, order[l] = t PROVE FALSE
      BY DEF FirstOf
    <3>. QED BY <1>1, <2>2
  <2>5. FirstOf(order, m + 1) = FirstOf(order, m) \cup {t}
    BY <2>2 DEF FirstOf
  <2>6. after \in BOOLEAN /\ gate \in BOOLEAN
    BY DEF After
  <2>7. Gives(DOMAIN c, t, f[m], f[m + 1])
    <3>1. WholeSplit(DOMAIN c, f[m]) /\ f[m].weight[t] = 0
      BY <2>1, <2>2, <2>4 DEF Divides
    <3>. HIDE DEF t, after, gate
    <3>. QED BY <2>2, <2>3, <2>6, <3>1, VisitGives
  <2>. HIDE DEF t, after, gate
  <2>. QED BY <2>1, <2>2, <2>5, <2>7, GivesDivides
<1>5. n \in T
  <2>. HIDE DEF T
  <2>. QED BY <1>1, <1>3, <1>4, NatSetInduction
<1>. QED BY <1>1, <1>5 DEF f

(***************************************************************************)
(* What prepareRevisions makes of the incarnations c: each has the weight  *)
(* that its status says, what is not releasable has none, and together     *)
(* they have 100%, if there is anything releasable.                        *)
(***************************************************************************)
Prepared(c, s) ==
  /\ s \in SplitsOf(DOMAIN c)
  /\ \A t \in DOMAIN c :
       /\ SameBut(c[t], s.inc[t]) /\ s.weight[t] = s.inc[t].cur
       /\ ~IsReleasable(c[t]) => s.inc[t].cur = 0
  /\ \A t \in Tags \ DOMAIN c : s.weight[t] = 0
  /\ SumFunction(s.weight) = IF ReleasableTags(c) = {} THEN 0 ELSE 100

\* Whoever gets the leftover is releasable.
LEMMA ReceiverIsReleasable ==
  ASSUME NEW S, NEW order, Len(order) \in Nat, order \in [1 .. Len(order) -> S],
         order # <<>>
  PROVE  Receiver(order) \in S
<1>1. CASE ramping \cap ToSet(order) # {}
  <2>1. Receiver(order) \in ToSet(order)
    BY <1>1 DEF Receiver
  <2>. QED BY <2>1 DEF ToSet
<1>2. CASE ramping \cap ToSet(order) = {}
  <2>1. Receiver(order) = order[1]
    BY <1>2 DEF Receiver
  <2>2. Len(order) # 0
    <3> SUFFICES ASSUME Len(order) = 0 PROVE FALSE
      OBVIOUS
    <3>1. order = [n \in 1 .. 0 |-> order[n]]
      OBVIOUS
    <3>2. order = <<>>
      BY <3>1
    <3>. QED BY <3>2
  <2>. QED BY <2>1, <2>2
<1>. QED BY <1>1, <1>2

\* What prepareRevisions returns, whatever the order of the list and whoever may ramp:
\* the weights are the percentages, only releasable incarnations have one, and they are
\* 100 together unless the list is empty (the loop and the leftover of syncer.go).
THEOREM PrepareRevisionsPrepares ==
  ASSUME NEW c, IsPartial(c, Tags, Incarnation), NEW order \in Releasable(c), NEW open
  PROVE  Prepared(c, PrepareRevisions(c, order, open))
<1> DEFINE s == Visits(c, order, open)[Len(order)]
           R == ReleasableTags(c)
           t == Receiver(order)
           v == PrepareRevisions(c, order, open)
<1>1. /\ Len(order) \in Nat /\ order \in [1 .. Len(order) -> R]
      /\ FirstOf(order, Len(order)) = R
  BY ReleasableOrder DEF FirstOf
<1>2. Divides(c, R, s)
  <2>1. Len(order) \in 0 .. Len(order)
    BY <1>1
  <2>. QED BY <1>1, <2>1, VisitsDivide
<1>3. v = IF s.rem > 0 /\ order # <<>> THEN AssignLeftover(s, t) ELSE s
  BY DEF PrepareRevisions
<1>4. R \subseteq DOMAIN c /\ DOMAIN c \in SUBSET Tags
  BY DEF ReleasableTags, IsPartial
<1>5. ASSUME NEW w, Divides(c, R, w),
             SumFunction(w.weight) = IF R = {} THEN 0 ELSE 100
      PROVE  Prepared(c, w)
  <2>1. ASSUME NEW u \in DOMAIN c
        PROVE  w.weight[u] = w.inc[u].cur /\ (~IsReleasable(c[u]) => w.inc[u].cur = 0)
    <3>1. CASE u \in R
      BY <1>5, <3>1 DEF Divides, ReleasableTags
    <3>2. CASE u \notin R
      <4>1. ~IsReleasable(c[u]) /\ c[u] \in Incarnation
        BY <3>2 DEF ReleasableTags, IsPartial
      <4>. QED BY <1>5, <3>2, <4>1, SettledType DEF Divides
    <3>. QED BY <3>1, <3>2
  <2>. QED BY <1>5, <2>1 DEF Prepared, Divides, WholeSplit
<1>6. s.rem \in 0 .. 100 /\ SumFunction(s.weight) \in Int /\ SumFunction(s.weight) + s.rem = 100
  BY <1>2 DEF Divides, WholeSplit, SplitsOf
<1>7. CASE s.rem > 0 /\ order # <<>>
  <2>1. t \in R
    <3>. HIDE DEF R, t
    <3>. QED BY <1>1, <1>7, ReceiverIsReleasable DEF t
  <2>2. WholeSplit(DOMAIN c, s) /\ s.weight[t] = s.inc[t].cur
    BY <1>2, <1>4, <2>1 DEF Divides
  <2>3. Gives(DOMAIN c, t, s, v) /\ v.rem = 0
    <3>1. v = AssignLeftover(s, t) /\ t \in DOMAIN c
      BY <1>3, <1>4, <1>7, <2>1
    <3>. HIDE DEF v, s, t
    <3>. QED BY <1>4, <2>2, <3>1, LeftoverGives
  <2>4. Divides(c, R, v)
    <3>1. Divides(c, R \cup {t}, v)
      <4>1. t \in DOMAIN c
        BY <1>4, <2>1
      <4>. HIDE DEF v, s, t, R
      <4>. QED BY <1>2, <2>3, <4>1, GivesDivides
    <3>2. R \cup {t} = R
      BY <2>1
    <3>. QED BY <3>1, <3>2
  <2>5. SumFunction(v.weight) = 100
    <3>1. SumFunction(v.weight) \in Int /\ SumFunction(v.weight) + v.rem = 100
      BY <2>3 DEF Gives, WholeSplit
    <3>. QED BY <2>3, <3>1
  <2>. HIDE DEF v, R
  <2>. QED BY <1>5, <2>1, <2>4, <2>5 DEF v
<1>8. CASE s.rem > 0 /\ order = <<>>
  <2>1. Len(order) = 0 /\ R = {}
    <3>1. Len(order) = 0
      BY <1>8
    <3>. QED BY <1>1, <3>1 DEF FirstOf
  <2>2. s = Undivided(c)
    <3>1. Rounds(c, order, open, Len(order), Visits(c, order, open))
      BY <1>1, VisitsDefined
    <3>2. Rounds(c, order, open, 0, Visits(c, order, open))
      BY <2>1, <3>1
    <3>3. Visits(c, order, open)[0] = Undivided(c)
      BY <3>2 DEF Rounds
    <3>. QED BY <2>1, <3>3
  <2>3. SumFunction(s.weight) = 0
    BY <1>6, <2>2 DEF Undivided
  <2>4. v = s
    BY <1>3, <1>8
  <2>. HIDE DEF v, s, R
  <2>. QED BY <1>2, <1>5, <2>1, <2>3, <2>4 DEF v
<1>9. CASE ~(s.rem > 0)
  <2>1. SumFunction(s.weight) = 100 /\ v = s
    <3>1. v = s
      BY <1>3, <1>9
    <3>2. SumFunction(s.weight) = 100
      <4>. HIDE DEF s
      <4>. QED BY <1>6, <1>9
    <3>. QED BY <3>1, <3>2
  <2>2. R # {}
    <3> SUFFICES ASSUME R = {} PROVE FALSE
      OBVIOUS
    <3>1. \A u \in Tags : s.weight[u] = 0
      BY <1>2 DEF Divides
    <3>2. s.weight \in [Tags -> Int] /\ IsFiniteSet(Tags)
      BY <1>2, TagsAssumption DEF Divides, WholeSplit, SplitsOf
    <3>3. SumFunction(s.weight) = 0
      <4>. HIDE DEF s
      <4>. QED BY <3>1, <3>2, SumZero
    <3>. QED BY <2>1, <3>3
  <2>. HIDE DEF v, s, R
  <2>. QED BY <1>2, <1>5, <2>1, <2>2 DEF v
<1>. QED BY <1>7, <1>8, <1>9
-----------------------------------------------------------------------------
(***************************************************************************)
(* Where a reconcile is, and what it has in memory.                        *)
(***************************************************************************)
Structure ==
  /\ pc = "idle" => inc = Empty /\ plan = NoWeights
  /\ pc # "idle" => manager = "alive" /\ DOMAIN status \subseteq DOMAIN inc
  /\ pc # "tick" => todo = {}
  /\ todo \subseteq DOMAIN inc
  /\ manager # "alive" => status = Empty
  /\ manager = "absent" => mesh = NoWeights /\ canaryRules = {}

\* The inductive invariant that every other proof starts from.
Typed == TypeOK /\ Structure

\* Every handler of state.go answers with a state that the machine knows.
LEMMA NextState ==
  ASSUME NEW d, d.state \in States
  PROVE  Handle(d).next \in States
BY DEF Handle, States, ToRelease, Created, Deploying, Deployed, PendingTest, Testing, Tested,
   PendingRelease, Releasing, Retiring, Retired, Deleting, Deleted, Failing, Failed, Canarying,
   Canaried, Timingout

\* deployment update: without a ReplicaSet the percentage is reset, and only that.
LEMMA UpdateIncarnation ==
  ASSUME NEW i \in Incarnation, NEW r
  PROVE  /\ Update(i, r) \in Incarnation /\ SameBut(i, Update(i, r))
         /\ Update(i, r).elig = i.elig /\ Update(i, r).canary = i.canary
         /\ Update(i, r).cur = IF r = "none" THEN 0 ELSE i.cur
<1>1. (r = "ready") \in BOOLEAN /\ (r \in Up) \in BOOLEAN /\ 0 \in 0 .. 100
  OBVIOUS
<1>. QED BY <1>1 DEF Update, Incarnation, SameBut

\* What an incarnation starts a reconcile with.
LEMMA NewIncarnationType ==
  ASSUME TypeOK, NEW t \in Tags
  PROVE  /\ NewIncarnation(t) \in Incarnation
         /\ NewIncarnation(t).rev = (t \in DOMAIN revision)
         /\ t \in DOMAIN revision =>
              /\ NewIncarnation(t).failed = revision[t].failed
              /\ NewIncarnation(t).ext = revision[t].ext
         /\ LET s == IF t \in DOMAIN status THEN status[t] ELSE NewStatus
            IN  /\ NewIncarnation(t).state = s.state
                /\ NewIncarnation(t).cur = IF replicaSet[t] = "none" THEN 0 ELSE s.cur
                /\ NewIncarnation(t).elig = Eligible(t, s)
<1> DEFINE rev == t \in DOMAIN revision
           s   == IF t \in DOMAIN status THEN status[t] ELSE NewStatus
           i == [state |-> s.state, cur |-> s.cur, peak |-> s.peak, elig |-> Eligible(t, s),
                 canary |-> s.canary, rev |-> rev,
                 failed |-> rev /\ revision[t].failed,
                 failedAt |-> rev /\ revision[t].failedAt,
                 ext |-> IF rev THEN revision[t].ext ELSE "disabled",
                 ready |-> FALSE, up |-> FALSE]
<1>1. s \in Status
  BY DEF TypeOK, IsPartial, NewStatus, Status, States
<1>2. rev => revision[t] \in RevisionSpec
  BY DEF TypeOK, IsPartial
<1>3. rev \in BOOLEAN
  OBVIOUS
<1>. HIDE DEF s, rev
<1>4. Eligible(t, s) \in BOOLEAN
  BY <1>1, <1>2 DEF Eligible, RevisionSpec, Status, rev
<1>5. i \in Incarnation
  BY <1>1, <1>2, <1>3, <1>4 DEF Incarnation, Status, RevisionSpec, ExternalTestStatuses
<1>6. NewIncarnation(t) = Update(i, replicaSet[t])
  BY DEF NewIncarnation, s, rev
<1>7. /\ i.state = s.state /\ i.cur = s.cur /\ i.elig = Eligible(t, s) /\ i.rev = rev
      /\ rev => i.failed = revision[t].failed /\ i.ext = revision[t].ext
  BY <1>2 DEF RevisionSpec
<1>. HIDE DEF i
<1>. QED BY <1>5, <1>6, <1>7, UpdateIncarnation DEF SameBut, s, rev

\* At most one incarnation ramps.
LEMMA RampingType ==
  ASSUME NEW c, IsPartial(c, Tags, Incarnation), NEW order \in Releasable(c)
  PROVE  Ramping(c, order) \subseteq Tags /\ Cardinality(Ramping(c, order)) <= 1
<1> DEFINE mayRamp == {n \in DOMAIN order : c[order[n]].state \notin {"canaried", "canarying"}}
           first == {n \in mayRamp : \A m \in mayRamp : n <= m}
<1>1. /\ DOMAIN order = 1 .. Len(order) /\ Len(order) \in Nat
      /\ \A n \in DOMAIN order : order[n] \in Tags
  BY ReleasableOrder DEF ReleasableTags, IsPartial
<1>2. Ramping(c, order) = {order[n] : n \in first}
  BY DEF Ramping
<1>3. \A m, n \in first : m = n
  BY <1>1
<1>4. first \subseteq DOMAIN order
  OBVIOUS
<1>. HIDE DEF first
<1>5. CASE first = {}
  BY <1>2, <1>5, FS_EmptySet
<1>6. CASE first # {}
  <2>1. PICK n \in first : first = {n}
    BY <1>3, <1>6
  <2>2. Ramping(c, order) = {order[n]}
    BY <1>2, <2>1
  <2>3. Cardinality({order[n]}) <= 1
    <3> DEFINE x == order[n]
    <3>. HIDE DEF x
    <3>1. Cardinality({x}) = 1
      BY FS_Singleton
    <3>. QED BY <3>1 DEF x
  <2>4. order[n] \in Tags
    BY <1>1, <1>4
  <2>. QED BY <2>2, <2>3, <2>4
<1>. QED BY <1>5, <1>6

\* Before the first reconcile nothing is in memory.
LEMMA InitTyped == Init => Typed
<1> SUFFICES ASSUME Init PROVE Typed
  OBVIOUS
<1>1. NoWeights \in [Tags -> 0 .. 100]
  BY DEF NoWeights
<1>2. Cardinality({}) = 0
  BY FS_EmptySet
<1>. QED BY <1>1, <1>2 DEF Init, Typed, TypeOK, Structure, IsPartial, Empty

\* Users and CI change Revisions and nothing else.
LEMMA UsersType ==
  ASSUME TypeOK, NEW t \in Tags, Users(t)
  PROVE  /\ UNCHANGED <<manager, status, cluster, memory>>
         /\ IsPartial(revision', Tags, RevisionSpec)
         /\ everEligible \subseteq everEligible' /\ everEligible' \subseteq Tags
         /\ \A u \in DOMAIN revision' : u = t \/ (u \in DOMAIN revision /\ revision'[u] = revision[u])
<1>1. CASE CreateRevision(t)
  <2>1. \A e \in EligChoices, x \in ExtTests :
          [elig |-> e, failed |-> FALSE, failedAt |-> FALSE, ext |-> x, deletable |-> FALSE]
            \in RevisionSpec
    BY EnvironmentAssumption DEF RevisionSpec
  <2>. QED BY <1>1, <2>1 DEF CreateRevision, TypeOK, IsPartial
<1>2. CASE DeleteRevision(t) \/ DeleteMarked(t)
  BY <1>2 DEF DeleteRevision, DeleteMarked, TypeOK, IsPartial, Restrict
<1>3. CASE SetEligible(t)
  BY <1>3, EnvironmentAssumption DEF SetEligible, TypeOK, IsPartial, RevisionSpec
<1>4. CASE Fail(t) \/ Unfail(t)
  <2>1. ASSUME t \in DOMAIN revision
        PROVE  revision[t] \in RevisionSpec
    BY <2>1 DEF TypeOK, IsPartial
  <2>2. CASE Fail(t)
    <3> DEFINE r == [revision[t] EXCEPT !.failed = TRUE, !.failedAt = TRUE]
    <3>1. t \in DOMAIN revision /\ revision' = [revision EXCEPT ![t] = r]
      BY <2>2 DEF Fail
    <3>2. r \in RevisionSpec
      BY <2>1, <3>1 DEF RevisionSpec
    <3>. HIDE DEF r
    <3>. QED BY <2>2, <3>1, <3>2 DEF Fail, TypeOK, IsPartial
  <2>3. CASE Unfail(t)
    BY <2>1, <2>3 DEF Unfail, TypeOK, IsPartial, RevisionSpec
  <2>. QED BY <1>4, <2>2, <2>3
<1>5. CASE TestProgress(t)
  BY <1>5 DEF TestProgress, TypeOK, IsPartial, RevisionSpec
<1>. QED BY <1>1, <1>2, <1>3, <1>4, <1>5 DEF Users

\* The frames of the actions that change one part of the state.
LEMMA EnvironmentType == Typed /\ Environment => Typed'
<1> SUFFICES ASSUME Typed, Environment PROVE Typed'
  OBVIOUS
<1>0. TypeOK /\ Structure
  BY DEF Typed
<1>1. ASSUME NEW t \in Tags, Users(t) PROVE Typed'
  BY <1>0, <1>1, UsersType DEF Typed, TypeOK, Structure, cluster, memory, NoWeights, Empty
<1>2. ASSUME NEW t \in Tags, CanaryTTLPasses(t), pc = "idle" PROVE Typed'
  <2> DEFINE s == [status[t] EXCEPT !.canary = "over"]
  <2>1. t \in DOMAIN status /\ status' = [status EXCEPT ![t] = s]
    BY <1>2 DEF CanaryTTLPasses
  <2>2. s \in Status
    BY <1>0, <2>1 DEF TypeOK, IsPartial, Status
  <2>3. UNCHANGED <<revision, manager, cluster, memory, everEligible>>
    BY <1>2 DEF CanaryTTLPasses
  <2>4. DOMAIN status # {} /\ status # Empty
    BY <2>1 DEF Empty
  <2>. HIDE DEF s
  <2>. QED BY <1>0, <1>2, <2>1, <2>2, <2>3, <2>4
           DEF Typed, TypeOK, Structure, cluster, memory, NoWeights, Empty, IsPartial
<1>3. ASSUME NEW t \in Tags, PodsReady(t) \/ PodsLost(t) PROVE Typed'
  <2>1. UNCHANGED <<revision, manager, status, canaryRules, subsets, mesh, memory, everEligible>>
    BY <1>3 DEF PodsReady, PodsLost
  <2>2. replicaSet' \in [Tags -> {"none", "zero"} \cup Up]
    BY <1>0, <1>3 DEF PodsReady, PodsLost, TypeOK, Up
  <2>. QED BY <1>0, <2>1, <2>2 DEF Typed, TypeOK, Structure, memory, NoWeights, Empty
<1>4. CASE CreateManager
  BY <1>0, <1>4 DEF CreateManager, Typed, TypeOK, Structure, cluster, memory, NoWeights, Empty
<1>. QED BY <1>1, <1>2, <1>3, <1>4 DEF Environment

\* The deletion of the ReleaseManager forgets the status with it.
LEMMA ManagerType == Typed /\ (DeleteSelf \/ Finalize) => Typed'
<1> SUFFICES ASSUME Typed, DeleteSelf \/ Finalize PROVE Typed'
  OBVIOUS
<1>0. TypeOK /\ Structure
  BY DEF Typed
<1>1. IsPartial(Empty, Tags, Status)
  BY DEF IsPartial, Empty
<1>2. NoWeights \in [Tags -> 0 .. 100]
  BY DEF NoWeights
<1>3. CASE DeleteSelf
  BY <1>0, <1>1, <1>3 DEF DeleteSelf, Typed, TypeOK, Structure, cluster, memory, NoWeights, Empty
<1>4. CASE Finalize
  <2>1. /\ pc = "idle" /\ manager' = "absent" /\ status' = Empty
        /\ replicaSet' = [t \in Tags |-> "none"] /\ mesh' = NoWeights
        /\ canaryRules' = {} /\ subsets' = {}
        /\ UNCHANGED <<revision, memory, everEligible>>
    BY <1>4 DEF Finalize
  <2>2. TypeOK'
    BY <1>0, <1>1, <1>2, <2>1 DEF TypeOK, memory
  <2>3. Structure'
    BY <1>0, <2>1 DEF Structure, memory, Empty, NoWeights
  <2>. QED BY <2>2, <2>3 DEF Typed
<1>. QED BY <1>3, <1>4

\* A reconcile builds its incarnations from the status and the Revisions.
LEMMA BeginType == Typed /\ Begin => Typed'
<1> SUFFICES ASSUME Typed, Begin PROVE Typed'
  OBVIOUS
<1>0. TypeOK /\ Structure
  BY DEF Typed
<1>1. /\ pc = "idle" /\ manager = "alive"
      /\ inc' = [t \in DOMAIN revision \cup DOMAIN status |-> NewIncarnation(t)]
      /\ todo' = DOMAIN inc' /\ pc' = "tick"
      /\ UNCHANGED <<revision, manager, status, cluster, plan, everEligible>>
  BY DEF Begin
<1>2. DOMAIN inc' \subseteq Tags /\ DOMAIN inc' = DOMAIN revision \cup DOMAIN status
  BY <1>0, <1>1 DEF TypeOK, IsPartial
<1>3. IsPartial(inc', Tags, Incarnation)
  BY <1>0, <1>1, <1>2, NewIncarnationType DEF IsPartial
<1>4. ramping' \subseteq Tags /\ Cardinality(ramping') <= 1
  <2>1. PICK order \in Releasable(inc') : ramping' = Ramping(inc', order)
    BY DEF Begin
  <2>. QED BY <1>3, <2>1, RampingType
<1>. QED BY <1>0, <1>1, <1>2, <1>3, <1>4 DEF Typed, TypeOK, Structure, cluster

\* The state after a tick.
LEMMA SetStateType ==
  ASSUME NEW i \in Incarnation, NEW state \in States
  PROVE  /\ SetState(i, state) \in Incarnation
         /\ SetState(i, state).state = state /\ SetState(i, state).cur = i.cur
         /\ SetState(i, state).elig = i.elig /\ SetState(i, state).rev = i.rev
         /\ SetState(i, state).ext = i.ext /\ SetState(i, state).failed = i.failed
<1> DEFINE canary == IF state = "canarying" /\ i.canary = "unset" /\ i.cur > 0
                     THEN "running" ELSE i.canary
<1>1. canary \in {"unset", "running", "over"}
  BY DEF Incarnation
<1>2. SetState(i, state) = [i EXCEPT !.state = state, !.canary = canary]
  BY DEF SetState
<1>. HIDE DEF canary
<1>. QED BY <1>1, <1>2 DEF Incarnation

\* A plan leaves a ReplicaSet as one of the cluster's, and canary rules of known tags.
LEMMA ApplyType ==
  ASSUME TypeOK, NEW t \in Tags, NEW calls, NEW n, Apply(t, calls, n)
  PROVE  /\ replicaSet' \in [Tags -> {"none", "zero"} \cup Up] /\ canaryRules' \subseteq Tags
<1>1. ASSUME NEW r \in {"none", "zero"} \cup Up, NEW i, NEW done
      PROVE  ReplicaSetAfter(r, i, done) \in {"none", "zero"} \cup Up
  BY DEF ReplicaSetAfter, Sync, SyncRevision, CreateOrUpdate, RetireRevision, DeleteRevisionPlan, Up
<1>. QED BY <1>1 DEF Apply, TypeOK, CanaryRulesAfter, SyncCanaryRules, DeleteCanaryRules
-----------------------------------------------------------------------------
(* What a step of the reconcile does.                                      *)

\* d shows the incarnation of t as a handler sees it.
Shows(t, d) ==
  /\ d.state = inc[t].state /\ d.cur = inc[t].cur /\ d.elig = inc[t].elig
  /\ d.rev = inc[t].rev /\ d.failed = inc[t].failed /\ d.ext = inc[t].ext
  /\ d.canaryPending = CanaryPending(t, inc[t])

\* A handler has set the state of t, and nobody else's.
Ticks(t, d) ==
  /\ t \in todo /\ Shows(t, d)
  /\ Apply(t, Handle(d).calls, Len(Handle(d).calls))
  /\ inc' = [inc EXCEPT ![t] = SetState(inc[t], Handle(d).next)]
  /\ todo' = todo \ {t}
  /\ pc' = IF todo' = {} THEN "route" ELSE "tick"

\* A tick is a handler's answer about one incarnation, and the plans it calls.
LEMMA TickTicks ==
  ASSUME Typed, Tick
  PROVE  /\ pc = "tick"
         /\ UNCHANGED <<revision, manager, status, subsets, mesh, ramping, plan, everEligible>>
         /\ \E t, d : Ticks(t, d)
<1>1. PICK t \in todo, late \in Timeouts, testLate \in Timeouts, permits \in Schedules,
           expired \in Expirations :
        LET h == Handle(Deployment(t, late, testLate, permits, expired))
        IN  /\ Apply(t, h.calls, Len(h.calls))
            /\ inc' = [inc EXCEPT ![t] = SetState(@, h.next)]
            /\ todo' = todo \ {t}
            /\ pc' = IF todo' = {} THEN "route" ELSE "tick"
  BY DEF Tick
<1> DEFINE d == Deployment(t, late, testLate, permits, expired)
<1>2. Shows(t, d)
  BY DEF Shows, Deployment
<1>3. t \in DOMAIN inc
  BY DEF Typed, Structure
<1>. HIDE DEF d
<1>4. inc' = [inc EXCEPT ![t] = SetState(inc[t], Handle(d).next)]
  BY <1>1, <1>3 DEF d
<1>5. Ticks(t, d)
  BY <1>1, <1>2, <1>4 DEF Ticks, d
<1>. QED BY <1>5 DEF Tick

\* What the handler sees has its type.
LEMMA TicksShows ==
  ASSUME TypeOK, NEW t \in DOMAIN inc, NEW d, Ticks(t, d)
  PROVE  /\ d.state = inc[t].state /\ d.cur = inc[t].cur /\ d.elig = inc[t].elig
         /\ d.rev = inc[t].rev /\ d.failed = inc[t].failed /\ d.ext = inc[t].ext
         /\ d.canaryPending = CanaryPending(t, inc[t])
         /\ d.state \in States /\ d.cur \in Nat
<1>1. inc[t] \in Incarnation
  BY DEF TypeOK, IsPartial
<1>2. Shows(t, d)
  BY DEF Ticks
<1>. QED BY <1>1, <1>2 DEF Shows, Incarnation

\* What becomes of the incarnations.
LEMMA TicksIncarnations ==
  ASSUME TypeOK, todo \subseteq DOMAIN inc, NEW t, NEW d, Ticks(t, d)
  PROVE  /\ IsPartial(inc', Tags, Incarnation) /\ DOMAIN inc' = DOMAIN inc
         /\ inc'[t].state = Handle(d).next /\ inc'[t].cur = inc[t].cur
         /\ inc'[t].elig = inc[t].elig /\ inc'[t].rev = inc[t].rev
         /\ inc'[t].ext = inc[t].ext /\ inc'[t].failed = inc[t].failed
         /\ \A u \in DOMAIN inc \ {t} : inc'[u] = inc[u]
<1> DEFINE next == Handle(d).next
           i == SetState(inc[t], next)
<1>1. t \in DOMAIN inc /\ inc[t] \in Incarnation /\ inc[t].state \in States /\ d.state = inc[t].state
  BY DEF Ticks, Shows, TypeOK, IsPartial, Incarnation
<1>2. next \in States
  BY <1>1, NextState
<1>3. inc' = [inc EXCEPT ![t] = i]
  BY DEF Ticks
<1>. HIDE DEF next
<1>4. /\ i \in Incarnation
      /\ i.state = next /\ i.cur = inc[t].cur
      /\ i.elig = inc[t].elig /\ i.rev = inc[t].rev
      /\ i.ext = inc[t].ext /\ i.failed = inc[t].failed
  BY <1>1, <1>2, SetStateType
<1>. HIDE DEF i
<1>. QED BY <1>1, <1>3, <1>4 DEF TypeOK, IsPartial, next

\* A tick changes the state of one incarnation.
LEMMA TickType == Typed /\ Tick => Typed'
<1> SUFFICES ASSUME Typed, Tick PROVE Typed'
  OBVIOUS
<1>0. TypeOK /\ Structure
  BY DEF Typed
<1>1. /\ pc = "tick"
      /\ UNCHANGED <<revision, manager, status, subsets, mesh, ramping, plan, everEligible>>
      /\ \E t, d : Ticks(t, d)
  BY TickTicks
<1>2. PICK t, d : Ticks(t, d)
  BY <1>1
<1>3. IsPartial(inc', Tags, Incarnation) /\ DOMAIN inc' = DOMAIN inc
  BY <1>0, <1>2, TicksIncarnations DEF Structure
<1>4. replicaSet' \in [Tags -> {"none", "zero"} \cup Up] /\ canaryRules' \subseteq Tags
  <2>1. t \in Tags /\ Apply(t, Handle(d).calls, Len(Handle(d).calls))
    BY <1>0, <1>2 DEF Ticks, Structure, TypeOK, IsPartial
  <2>. HIDE DEF Apply
  <2>. QED BY <1>0, <2>1, ApplyType
<1>5. todo' = todo \ {t} /\ pc' = IF todo' = {} THEN "route" ELSE "tick"
  BY <1>2 DEF Ticks
<1>6. TypeOK'
  BY <1>0, <1>1, <1>3, <1>4, <1>5 DEF TypeOK
<1>7. Structure'
  BY <1>0, <1>1, <1>3, <1>5 DEF Structure
<1>. QED BY <1>6, <1>7 DEF Typed

\* After the reconcile nothing is in memory.
LEMMA ForgetType ==
  ASSUME Typed, Forget, IsPartial(revision', Tags, RevisionSpec), manager' = manager,
         IsPartial(status', Tags, Status), manager = "alive" \/ status' = status,
         replicaSet' \in [Tags -> {"none", "zero"} \cup Up],
         canaryRules' \subseteq Tags, manager = "alive" \/ canaryRules' = canaryRules,
         UNCHANGED <<subsets, mesh, everEligible>>
  PROVE  Typed'
<1>0. TypeOK /\ Structure
  BY DEF Typed
<1>1. IsPartial(Empty, Tags, Incarnation) /\ DOMAIN Empty = {}
  BY DEF IsPartial, Empty
<1>2. NoWeights \in [Tags -> 0 .. 100] /\ Cardinality({}) <= 1
  BY FS_EmptySet DEF NoWeights
<1>3. TypeOK'
  BY <1>0, <1>1, <1>2 DEF TypeOK, Forget
<1>4. Structure'
  BY <1>0, <1>1 DEF Structure, Forget, TypeOK
<1>. QED BY <1>3, <1>4 DEF Typed

\* A plan that fails ends the reconcile with the plans before it applied.
LEMMA TickFailsType == Typed /\ TickFails => Typed'
<1> SUFFICES ASSUME Typed, TickFails PROVE Typed'
  OBVIOUS
<1>0. TypeOK /\ Structure
  BY DEF Typed
<1>1. /\ pc = "tick" /\ Forget
      /\ UNCHANGED <<revision, manager, status, subsets, mesh, everEligible>>
  BY DEF TickFails
<1>2. PICK t \in todo : \E calls, n : Apply(t, calls, n)
  BY DEF TickFails
<1>3. replicaSet' \in [Tags -> {"none", "zero"} \cup Up] /\ canaryRules' \subseteq Tags
  BY <1>0, <1>2, ApplyType DEF TypeOK
<1>. QED BY <1>0, <1>1, <1>3, ForgetType DEF TypeOK, Structure

\* What the second observation makes of the incarnations.
LEMMA ObservedType ==
  ASSUME TypeOK
  PROVE  /\ IsPartial(Observed, Tags, Incarnation) /\ DOMAIN Observed = DOMAIN inc
         /\ \A t \in DOMAIN inc :
              /\ SameBut(inc[t], Observed[t])
              /\ Observed[t].elig = inc[t].elig /\ Observed[t].rev = inc[t].rev
              /\ Observed[t].cur = IF replicaSet[t] = "none" THEN 0 ELSE inc[t].cur
<1>1. \A t \in DOMAIN inc : Observed[t] = Update(inc[t], replicaSet[t])
  BY DEF Observed
<1>2. DOMAIN Observed = DOMAIN inc
  BY DEF Observed
<1>3. ASSUME NEW t \in DOMAIN inc
      PROVE  /\ Observed[t] \in Incarnation /\ SameBut(inc[t], Observed[t])
             /\ Observed[t].elig = inc[t].elig /\ Observed[t].rev = inc[t].rev
             /\ Observed[t].cur = IF replicaSet[t] = "none" THEN 0 ELSE inc[t].cur
  <2>1. inc[t] \in Incarnation
    BY DEF TypeOK, IsPartial
  <2>. QED BY <1>1, <2>1, UpdateIncarnation DEF SameBut
<1>. QED BY <1>2, <1>3 DEF TypeOK, IsPartial

\* The routes are prepared.
Routes(s) ==
  /\ Prepared(Observed, s)
  /\ inc' = s.inc /\ subsets' = PlannedTags(Observed) /\ plan' = s.weight /\ pc' = "weights"

\* There is nothing to route.
NoRoutes ==
  /\ inc' = Observed /\ pc' = "collect"
  /\ UNCHANGED <<subsets, plan>>

\* syncApp either finds nothing deployed, or prepares the routes of all incarnations.
LEMMA RouteRoutes ==
  ASSUME Typed, RouteSubsets
  PROVE  /\ pc = "route"
         /\ UNCHANGED <<revision, manager, status, replicaSet, canaryRules, mesh, ramping,
                        todo, everEligible>>
         /\ \/ DeployedTags(Observed) = {} /\ NoRoutes
            \/ DeployedTags(Observed) # {} /\ \E s : Routes(s)
<1>1. PICK order \in Releasable(Observed),
           open \in SUBSET {t \in DOMAIN inc : inc[t].rev /\ replicaSet[t] \in Up} :
        LET split == PrepareRevisions(Observed, order, open)
        IN  IF DeployedTags(Observed) = {}
            THEN /\ inc' = Observed
                 /\ pc' = "collect"
                 /\ UNCHANGED <<subsets, plan>>
            ELSE /\ inc' = split.inc
                 /\ subsets' = PlannedTags(Observed)
                 /\ plan' = split.weight
                 /\ pc' = "weights"
  BY DEF RouteSubsets
<1>2. Prepared(Observed, PrepareRevisions(Observed, order, open))
  BY ObservedType, PrepareRevisionsPrepares DEF Typed
<1>. HIDE DEF Observed
<1>3. CASE DeployedTags(Observed) = {}
  BY <1>1, <1>3 DEF NoRoutes, RouteSubsets
<1>4. CASE DeployedTags(Observed) # {}
  <2>1. Routes(PrepareRevisions(Observed, order, open))
    BY <1>1, <1>2, <1>4 DEF Routes
  <2>. QED BY <1>4, <2>1 DEF RouteSubsets
<1>. QED BY <1>3, <1>4

\* The routes are prepared from a second observation of the ReplicaSets.
LEMMA RouteSubsetsType == Typed /\ RouteSubsets => Typed'
<1> SUFFICES ASSUME Typed, RouteSubsets PROVE Typed'
  OBVIOUS
<1>0. TypeOK /\ Structure
  BY DEF Typed
<1>1. /\ pc = "route"
      /\ UNCHANGED <<revision, manager, status, replicaSet, canaryRules, mesh, ramping, todo,
                     everEligible>>
      /\ \/ DeployedTags(Observed) = {} /\ NoRoutes
         \/ DeployedTags(Observed) # {} /\ \E s : Routes(s)
  BY RouteRoutes
<1>2. IsPartial(Observed, Tags, Incarnation) /\ DOMAIN Observed = DOMAIN inc
  BY <1>0, ObservedType
<1>. HIDE DEF Observed
<1>3. /\ IsPartial(inc', Tags, Incarnation) /\ DOMAIN inc' = DOMAIN inc
      /\ subsets' \subseteq Tags /\ plan' \in [Tags -> 0 .. 100]
      /\ pc' \in {"collect", "weights"}
  <2>1. CASE NoRoutes
    BY <1>0, <1>2, <2>1 DEF NoRoutes, TypeOK
  <2>2. CASE \E s : Routes(s)
    BY <1>0, <1>2, <2>2 DEF Routes, Prepared, SplitsOf, PlannedTags, DeployedTags, IsPartial
  <2>. QED BY <1>1, <2>1, <2>2
<1>4. TypeOK'
  BY <1>0, <1>1, <1>3 DEF TypeOK
<1>5. Structure'
  BY <1>0, <1>1, <1>3 DEF Structure
<1>. QED BY <1>4, <1>5 DEF Typed

\* The VirtualService is written with weights of the DestinationRule's subsets.
LEMMA RouteWeightsType == Typed /\ RouteWeights => Typed'
BY DEF RouteWeights, Typed, TypeOK, Structure

\* Labels are all that markGarbage changes of the Revisions.
LEMMA CollectMarks ==
  ASSUME TypeOK, Collect
  PROVE  /\ pc = "collect" /\ pc' = "persist"
         /\ UNCHANGED <<manager, status, cluster, inc, ramping, todo, plan, everEligible>>
         /\ IsPartial(revision', Tags, RevisionSpec)
         /\ DOMAIN revision' = DOMAIN revision
         /\ \A t \in DOMAIN revision :
              /\ revision'[t].elig = revision[t].elig /\ revision'[t].ext = revision[t].ext
              /\ revision'[t].failed = revision[t].failed
         /\ \E sorted \in Sorted(inc), expired \in SUBSET DOMAIN inc : \A t \in DOMAIN revision :
              revision'[t].deletable =>
                revision[t].deletable \/ (t \in FindGarbage(inc, expired, sorted) /\ inc[t].rev)
<1> DEFINE Labels(marked) ==
             revision' = [t \in DOMAIN revision |->
                           [revision[t] EXCEPT !.deletable = @ \/ t \in marked]]
<1>0. PICK sorted \in Sorted(inc), expired \in SUBSET DOMAIN inc :
        LET garbage == {t \in FindGarbage(inc, expired, sorted) : inc[t].rev}
        IN  \E marked \in IF "abort" \in Events THEN SUBSET garbage ELSE {garbage} : Labels(marked)
  BY DEF Collect
<1>1. PICK marked :
        /\ marked \subseteq {t \in FindGarbage(inc, expired, sorted) : inc[t].rev}
        /\ revision' = [t \in DOMAIN revision |->
                         [revision[t] EXCEPT !.deletable = @ \/ t \in marked]]
  <2>. HIDE DEF Labels
  <2>1. PICK marked : /\ marked \subseteq {t \in FindGarbage(inc, expired, sorted) : inc[t].rev}
                      /\ Labels(marked)
    BY <1>0
  <2>. QED BY <2>1 DEF Labels
<1>2. ASSUME NEW t \in DOMAIN revision
      PROVE  /\ revision'[t] \in RevisionSpec
             /\ revision'[t].elig = revision[t].elig /\ revision'[t].ext = revision[t].ext
             /\ revision'[t].failed = revision[t].failed
             /\ revision'[t].deletable => revision[t].deletable \/ t \in marked
  <2> DEFINE deletable == revision[t].deletable \/ t \in marked
  <2>1. revision[t] \in RevisionSpec
    BY DEF TypeOK, IsPartial
  <2>2. revision'[t] = [revision[t] EXCEPT !.deletable = deletable]
    BY <1>1, <2>1 DEF RevisionSpec
  <2>3. deletable \in BOOLEAN
    OBVIOUS
  <2>4. deletable => revision[t].deletable \/ t \in marked
    OBVIOUS
  <2>. HIDE DEF deletable
  <2>5. revision'[t].deletable = deletable /\ revision'[t] \in RevisionSpec
    BY <2>1, <2>2, <2>3 DEF RevisionSpec
  <2>. QED BY <2>1, <2>2, <2>4, <2>5 DEF RevisionSpec
<1>3. DOMAIN revision' = DOMAIN revision
  BY <1>1
<1>4. IsPartial(revision', Tags, RevisionSpec)
  BY <1>2, <1>3 DEF TypeOK, IsPartial
<1>5. \A t \in DOMAIN revision : revision'[t].deletable =>
        revision[t].deletable \/ (t \in FindGarbage(inc, expired, sorted) /\ inc[t].rev)
  BY <1>1, <1>2
<1>. QED BY <1>2, <1>3, <1>4, <1>5 DEF Collect

\* The garbage collector labels Revisions and leaves the rest.
LEMMA CollectType == Typed /\ Collect => Typed'
<1> SUFFICES ASSUME Typed, Collect PROVE Typed'
  OBVIOUS
<1>1. /\ pc = "collect" /\ pc' = "persist"
      /\ UNCHANGED <<manager, status, cluster, inc, ramping, todo, plan, everEligible>>
      /\ IsPartial(revision', Tags, RevisionSpec)
  BY CollectMarks DEF Typed
<1>. QED BY <1>1 DEF Typed, TypeOK, Structure, cluster

\* What is persisted of the incarnations.
LEMMA PersistKeeps ==
  ASSUME TypeOK, Persist
  PROVE  /\ pc = "persist" /\ Forget
         /\ UNCHANGED <<revision, manager, cluster, everEligible>>
         /\ IsPartial(status', Tags, Status) /\ DOMAIN status' = Kept(inc)
         /\ \A t \in Kept(inc) :
              /\ status'[t].state = inc[t].state /\ status'[t].cur = inc[t].cur
              /\ \/ status'[t].elig = inc[t].elig
                 \/ t \in Recommissioned(inc)
<1>1. Kept(inc) \subseteq Tags /\ Kept(inc) \subseteq DOMAIN inc
  BY DEF Kept, TypeOK, IsPartial
<1>2. /\ IsPartial(Statuses, Tags, Status) /\ DOMAIN Statuses = Kept(inc)
      /\ \A t \in Kept(inc) :
           /\ Statuses[t].state = inc[t].state /\ Statuses[t].cur = inc[t].cur
           /\ Statuses[t].elig = inc[t].elig
  <2>1. DOMAIN Statuses = Kept(inc)
    BY DEF Statuses
  <2>2. ASSUME NEW t \in Kept(inc)
        PROVE  /\ Statuses[t] \in Status
               /\ Statuses[t].state = inc[t].state /\ Statuses[t].cur = inc[t].cur
               /\ Statuses[t].elig = inc[t].elig
    <3>1. inc[t] \in Incarnation
      BY <1>1 DEF TypeOK, IsPartial
    <3>. QED BY <3>1 DEF Statuses, StatusOf, Incarnation, Status
  <2>. QED BY <1>1, <2>1, <2>2 DEF IsPartial
<1>. HIDE DEF Statuses
<1>3. CASE status' = Statuses
  BY <1>2, <1>3 DEF Persist
<1>4. ASSUME NEW t \in Recommissioned(inc),
             status' = [Statuses EXCEPT ![t].elig = TRUE, ![t].peak = 100]
      PROVE  /\ IsPartial(status', Tags, Status) /\ DOMAIN status' = Kept(inc)
             /\ \A u \in Kept(inc) :
                  /\ status'[u].state = inc[u].state /\ status'[u].cur = inc[u].cur
                  /\ status'[u].elig = inc[u].elig \/ u \in Recommissioned(inc)
  <2> DEFINE s == [Statuses[t] EXCEPT !.elig = TRUE, !.peak = 100]
  <2>1. t \in DOMAIN inc /\ inc[t].state \in {"retired", "retiring"}
    BY <1>4 DEF Recommissioned
  <2>2. t \in Kept(inc)
    BY <2>1 DEF Kept
  <2>3. status' = [Statuses EXCEPT ![t] = s]
    BY <1>2, <1>4, <2>2
  <2>4. s \in Status /\ s.state = inc[t].state /\ s.cur = inc[t].cur
    <3>1. 100 \in 0 .. 100 /\ Statuses[t] \in Status
      BY <1>2, <2>2 DEF IsPartial
    <3>. QED BY <1>2, <2>2, <3>1 DEF Status
  <2>. HIDE DEF s
  <2>. QED BY <1>2, <1>4, <2>2, <2>3, <2>4 DEF IsPartial
<1>. QED BY <1>3, <1>4 DEF Persist

\* The status of every incarnation is written at the end of the reconcile.
LEMMA PersistType == Typed /\ Persist => Typed'
<1> SUFFICES ASSUME Typed, Persist PROVE Typed'
  OBVIOUS
<1>1. TypeOK /\ Structure
  BY DEF Typed
<1>2. /\ pc = "persist" /\ Forget
      /\ UNCHANGED <<revision, manager, cluster, everEligible>>
      /\ IsPartial(status', Tags, Status)
  BY <1>1, PersistKeeps
<1>3. manager = "alive"
  BY <1>1, <1>2 DEF Structure
<1>. QED BY <1>1, <1>2, <1>3, ForgetType DEF TypeOK, cluster

\* A reconcile that is cut short loses what it has in memory.
LEMMA AbortType == Typed /\ Abort => Typed'
<1> SUFFICES ASSUME Typed, Abort PROVE Typed'
  OBVIOUS
<1>1. /\ Forget /\ UNCHANGED <<revision, manager, status, cluster, everEligible>>
  BY DEF Abort
<1>. QED BY <1>1, ForgetType DEF Typed, TypeOK, cluster

\* Nothing moves.
LEMMA StutterType == Typed /\ UNCHANGED vars => Typed'
BY DEF Typed, TypeOK, Structure, vars, cluster, memory

\* No step of the reconcile or of its environment leaves the types and the structure.
LEMMA NextTyped == Typed /\ [Next]_vars => Typed'
<1> SUFFICES ASSUME Typed, [Next]_vars PROVE Typed'
  OBVIOUS
<1>1. CASE Environment
  BY <1>1, EnvironmentType
<1>2. CASE Reconcile
  BY <1>2, BeginType, ManagerType, TickType, TickFailsType, RouteSubsetsType,
     RouteWeightsType, CollectType, PersistType, AbortType DEF Reconcile
<1>3. CASE UNCHANGED vars
  BY <1>3, StutterType
<1>. QED BY <1>1, <1>2, <1>3 DEF Next

(***************************************************************************)
(* Whatever users, the cluster and the reconciles do, the objects are what *)
(* the code reads and writes, and what is in memory fits where the         *)
(* reconcile is.                                                           *)
(***************************************************************************)
THEOREM AlwaysTyped == Spec => []Typed
BY InitTyped, NextTyped, PTL DEF Spec

\* TypeOK holds in every reachable state of every instance.
THEOREM WellTyped == Spec => []TypeOK
<1>1. Typed => TypeOK
  BY DEF Typed
<1>. QED BY <1>1, AlwaysTyped, PTL
-----------------------------------------------------------------------------
(* The orders of the collection.  Incarnations without a Revision have no  *)
(* timestamp, and Newer does not tell two of them apart.                   *)

\* t may come before u, by their timestamps or in the groups of releasable.
ByTime(c, S)  == {p \in S \X S : ~Newer(c, p[2], p[1])}
ByGroup(c, S) == {p \in S \X S : ~Before(c, p[2], p[1])}

\* Both orders sort any of the incarnations.
LEMMA NewerSorts ==
  ASSUME NEW c, IsPartial(c, Tags, Incarnation), NEW S \in SUBSET DOMAIN c
  PROVE  Sorts(ByTime(c, S), S) /\ Sorts(ByGroup(c, S), S)
<1>1. \A t, u \in S : /\ <<t, u>> \in ByTime(c, S) <=> ~Newer(c, u, t)
                      /\ <<t, u>> \in ByGroup(c, S) <=> ~Before(c, u, t)
  BY DEF ByTime, ByGroup
<1>2. \A t \in S : t \in Nat /\ t \in DOMAIN c /\ c[t].rev \in BOOLEAN
  BY TagsAssumption DEF IsPartial, Incarnation
<1>3. /\ \A t, u \in S : ~Newer(c, u, t) \/ ~Newer(c, t, u)
      /\ \A t, u, v \in S : ~Newer(c, u, t) /\ ~Newer(c, v, u) => ~Newer(c, v, t)
  BY <1>2 DEF Newer
<1> DEFINE group == [t \in DOMAIN c |-> Group(c[t])]
<1>4. \A t \in S : group[t] \in Int /\ group[t] = Group(c[t])
  BY DEF Group
<1>5. \A t, u \in S : Before(c, t, u) <=>
        group[t] < group[u] \/ (group[t] = group[u] /\ Newer(c, t, u))
  BY <1>4 DEF Before
<1>. HIDE DEF group
<1>6. /\ \A t, u \in S : ~Before(c, u, t) \/ ~Before(c, t, u)
      /\ \A t, u, v \in S : ~Before(c, u, t) /\ ~Before(c, v, u) => ~Before(c, v, t)
  BY <1>3, <1>4, <1>5
<1>. QED BY <1>1, <1>3, <1>6 DEF Sorts

\* There is a list of any of the incarnations in each order, and one to begin with.
LEMMA SortedExists ==
  ASSUME NEW c, IsPartial(c, Tags, Incarnation)
  PROVE  /\ Sorted(c) # {} /\ Releasable(c) # {}
         /\ \A S \in SUBSET DOMAIN c :
              S # {} => \E t \in S : \A u \in S : ~Newer(c, u, t)
<1>1. \A S \in SUBSET DOMAIN c : IsFiniteSet(S)
  <2>1. DOMAIN c \in SUBSET Tags
    BY DEF IsPartial
  <2>. QED BY <2>1, TagsAssumption, FS_Subset
<1>2. Sorted(c) # {}
  <2> DEFINE S == DOMAIN c
  <2>1. IsFiniteSet(S) /\ Sorts(ByTime(c, S), S)
    BY <1>1, NewerSorts
  <2>. HIDE DEF S
  <2>2. PICK s : ListedBy(ByTime(c, S), S, s)
    BY <2>1, OrderExists
  <2>3. s \in SetToSeqs(S) /\ DOMAIN s = 1 .. Cardinality(S)
    BY <2>2 DEF ListedBy, SetToSeqs
  <2>4. \A m, n \in DOMAIN s : m < n => ~Newer(c, s[n], s[m])
    BY <2>2, <2>3 DEF ListedBy, ByTime
  <2>. QED BY <2>3, <2>4 DEF Sorted, S
<1>3. Releasable(c) # {}
  <2> DEFINE S == ReleasableTags(c)
  <2>1. S \in SUBSET DOMAIN c
    BY DEF ReleasableTags
  <2>. HIDE DEF S
  <2>2. IsFiniteSet(S) /\ Sorts(ByGroup(c, S), S)
    BY <1>1, <2>1, NewerSorts
  <2>3. PICK s : ListedBy(ByGroup(c, S), S, s)
    BY <2>2, OrderExists
  <2>4. s \in SetToSeqs(S) /\ DOMAIN s = 1 .. Cardinality(S)
    BY <2>3 DEF ListedBy, SetToSeqs
  <2>5. \A m, n \in DOMAIN s : m < n => ~Before(c, s[n], s[m])
    BY <2>3, <2>4 DEF ListedBy, ByGroup
  <2>6. s \in Releasable(c)
    BY <2>4, <2>5 DEF Releasable, S, ReleasableTags
  <2>. QED BY <2>6
<1>4. ASSUME NEW S \in SUBSET DOMAIN c, S # {}
      PROVE  \E t \in S : \A u \in S : ~Newer(c, u, t)
  <2> DEFINE R == {p \in S \X S : ~Newer(c, p[1], p[2])}
  <2>1. \A t, u \in S : <<t, u>> \in R <=> ~Newer(c, t, u)
    OBVIOUS
  <2>2. Sorts(R, S)
    <3>1. /\ \A t, u \in S : <<t, u>> \in R <=> <<u, t>> \in ByTime(c, S)
          /\ Sorts(ByTime(c, S), S)
      <4>1. Sorts(ByTime(c, S), S)
        BY NewerSorts
      <4>. QED BY <2>1, <4>1 DEF ByTime
    <3>. HIDE DEF R
    <3>. QED BY <3>1 DEF Sorts
  <2>. HIDE DEF R
  <2>3. PICK t : IsLast(R, S, t)
    BY <1>1, <1>4, <2>2, LastExists
  <2>4. t \in S /\ \A u \in S \ {t} : ~Newer(c, u, t)
    BY <2>1, <2>3 DEF IsLast
  <2>5. ~Newer(c, t, t)
    <3>1. t \in Nat
      BY <2>4, TagsAssumption DEF IsPartial
    <3>. QED BY <3>1 DEF Newer
  <2>. QED BY <2>4, <2>5
<1>. QED BY <1>2, <1>3, <1>4

\* What a reconcile needs to go on: lists of its incarnations, and one to tick next.
GoesOn ==
  /\ Sorted(inc) # {} /\ Releasable(inc) # {}
  /\ todo # {} => \E t \in todo : NextToTick(t)

\* A reconcile is never stuck for want of an order: the lists of the collection exist,
\* although timestamps do not tell incarnations without a Revision apart, and as long as
\* some of them are to be ticked there is one to be ticked next.
THEOREM AlwaysGoesOn == Spec => []GoesOn
<1>1. Typed => GoesOn
  <2> SUFFICES ASSUME Typed PROVE GoesOn
    OBVIOUS
  <2>1. IsPartial(inc, Tags, Incarnation) /\ todo \in SUBSET DOMAIN inc
    BY DEF Typed, TypeOK, Structure
  <2>. QED BY <2>1, SortedExists DEF GoesOn, NextToTick
<1>. QED BY <1>1, AlwaysTyped, PTL
=============================================================================
