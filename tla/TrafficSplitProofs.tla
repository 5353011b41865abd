------------------------- MODULE TrafficSplitProofs -------------------------
(***************************************************************************)
(* The operators of scaling and prepareRevisions, for any argument: what   *)
(* the strategies, the ramp gate and the cap can give to an incarnation.   *)
(***************************************************************************)
EXTENDS TrafficSplit, TLAPS

\* A percentage is a natural number, 100 at most.
LEMMA PercentIsNat == \A x \in 0 .. 100 : x \in Nat /\ x <= 100
OBVIOUS

\* No traffic is a percentage.
LEMMA ZeroPercent == 0 \in 0 .. 100
OBVIOUS

\* utils.Min of two percentages is one of them, and below both.
LEMMA SmallerBound ==
  ASSUME NEW a \in Nat, NEW b \in Nat
  PROVE  Smaller(a, b) \in Nat /\ Smaller(a, b) <= a /\ Smaller(a, b) <= b
BY DEF Smaller

\* Arithmetic that wraps around stays a natural number.
LEMMA WrapIsNat ==
  ASSUME NEW a \in Nat
  PROVE  a % Word \in Nat
BY WordAssumption

\* Both scaling strategies stay within the percentage they are offered, also
\* when their arithmetic wraps around.
LEMMA NextIncrementBound ==
  ASSUME NEW t \in Incarnations, NEW cur \in Nat, NEW max \in Nat
  PROVE  NextIncrement(t, cur, max) \in 0 .. max
<1> DEFINE r    == Release[t]
           top  == Smaller(r.max, max)
           step == IF r.strategy = "linear" THEN LinearStep(r, cur) ELSE GeometricStep(r, cur)
<1>1. /\ r.start \in Nat /\ r.factor \in Nat
      /\ r.increment \in Nat /\ r.max \in Nat
  BY ReleaseAssumption DEF Strategies
<1>2. top \in Nat /\ top <= max
  BY <1>1, SmallerBound
<1>3. step \in Nat
  <2>1. cur + r.increment \in Nat /\ cur * r.factor \in Nat
    BY <1>1
  <2>2. (cur + r.increment) % Word \in Nat /\ (cur * r.factor) % Word \in Nat
    BY <2>1, WrapIsNat
  <2>. QED BY <1>1, <2>2 DEF LinearStep, GeometricStep
<1>4. Smaller(step, top) \in Nat /\ Smaller(step, top) <= top
  BY <1>2, <1>3, SmallerBound
<1>5. NextIncrement(t, cur, max) = IF max <= 0 THEN 0
                                   ELSE IF cur > top THEN top
                                   ELSE Smaller(step, top)
  BY DEF NextIncrement
<1>. HIDE DEF top, step
<1>. QED BY <1>2, <1>4, <1>5

\* The ramp gate can only hold a percentage back.
LEMMA ScaleBound ==
  ASSUME NEW t \in Incarnations, NEW cur \in Nat, NEW max \in Nat,
         NEW gate \in BOOLEAN
  PROVE  Scale(t, cur, max, gate) \in 0 .. max
<1> DEFINE desired == NextIncrement(t, cur, max)
<1>1. desired \in 0 .. max
  BY NextIncrementBound
<1>2. Scale(t, cur, max, gate) = IF desired <= cur THEN desired ELSE IF gate THEN desired ELSE cur
  BY DEF Scale
<1>. HIDE DEF desired
<1>. QED BY <1>1, <1>2

\* currentPercentTarget stays within its argument, and a canarying incarnation
\* within Canary.Percent.
LEMMA TargetBound ==
  ASSUME NEW i, i.cur \in Nat, NEW t \in Incarnations, NEW max \in Nat,
         NEW gate \in BOOLEAN
  PROVE  /\ CurrentPercentTarget(i, t, max, gate) \in 0 .. max
         /\ i.state \in Canaries =>
              CurrentPercentTarget(i, t, max, gate) <= CanaryPercent[t]
<1> DEFINE bound == IF i.state \in Canaries THEN Smaller(max, CanaryPercent[t]) ELSE max
<1>1. i.cur \in Nat /\ CanaryPercent[t] \in Nat
  BY CanaryAssumption
<1> DEFINE least == Smaller(max, CanaryPercent[t])
<1>a. least \in Nat /\ least <= max /\ least <= CanaryPercent[t]
  BY <1>1, SmallerBound
<1>. HIDE DEF least
<1>2. bound \in Nat /\ bound <= max
  BY <1>a DEF least
<1>3. i.state \in Canaries => bound <= CanaryPercent[t]
  BY <1>a DEF least
<1>4. Scale(t, i.cur, bound, gate) \in 0 .. bound
  BY <1>1, <1>2, ScaleBound
<1>5. CurrentPercentTarget(i, t, max, gate) =
        IF i.rev THEN Scale(t, i.cur, bound, gate) ELSE 0
  BY DEF CurrentPercentTarget
<1>. HIDE DEF bound
<1>. QED BY <1>1, <1>2, <1>3, <1>4, <1>5

\* The percentage an incarnation is offered is left, and one that comes after the
\* ramping incarnation is offered no more than it has.
LEMMA CapBound ==
  ASSUME NEW i, i.cur \in Nat, NEW rem \in Nat, NEW after \in BOOLEAN
  PROVE  /\ Cap(i, rem, after) \in Nat
         /\ Cap(i, rem, after) <= rem
         /\ after => Cap(i, rem, after) <= i.cur
BY SmallerBound DEF Cap
=============================================================================
