---------------------------- MODULE TrafficSplit ----------------------------
(***************************************************************************)
(* How picchu divides 100% of an application's traffic between its         *)
(* incarnations: the scaling strategies (controllers/scaling) and one      *)
(* round of the loop of ResourceSyncer.prepareRevisions (syncer.go).       *)
(*                                                                         *)
(* An incarnation is a record; these operators read and write the fields   *)
(*   state  the deployment state        rev   the Revision still exists    *)
(*   cur    status.CurrentPercent       peak  status.PeakPercent           *)
(*   elig   status.ReleaseEligible                                         *)
(* and leave every other field alone.                                      *)
(***************************************************************************)
EXTENDS Integers

CONSTANTS
  Incarnations,  \* what the constants below are indexed by: tags, or positions
  Release,       \* RevisionTarget.Release: strategy, start, factor, increment, max
  CanaryPercent, \* RevisionTarget.Canary.Percent, 0 without a canary
  Word           \* the percentages are uint32: arithmetic wraps at Word

Strategies == [strategy : {"linear", "geometric"},
               start : Nat, factor : Nat, increment : Nat, max : Nat]

ASSUME WordAssumption == Word \in Nat /\ Word > 0
ASSUME ReleaseAssumption == Release \in [Incarnations -> Strategies]
ASSUME CanaryAssumption == CanaryPercent \in [Incarnations -> Nat]

Smaller(a, b) == IF a <= b THEN a ELSE b

Canaries == {"canarying"}
Live     == {"releasing", "released"}
Draining == {"retiring", "deleting", "failing"}

(***************************************************************************)
(* The three groups of IncarnationCollection.releasable, in their order.   *)
(***************************************************************************)
IsReleasable(i) ==
  i.state \in Canaries \cup Live \/ (i.cur > 0 /\ i.state \in Draining)

Group(i) == IF i.state \in Canaries THEN 1 ELSE IF i.state \in Live THEN 2 ELSE 3

-----------------------------------------------------------------------------
\* The next step of a strategy, before its bounds.
LinearStep(r, cur) == (cur + r.increment) % Word

GeometricStep(r, cur) == IF cur < r.start THEN r.start ELSE (cur * r.factor) % Word

\* Mutant: a step is not capped by the strategy's maximum.
NextIncrementUncapped(t, cur, max) ==
  IF max <= 0 THEN 0
  ELSE IF Release[t].strategy = "linear" THEN LinearStep(Release[t], cur)
  ELSE GeometricStep(Release[t], cur)

\* The percentage a strategy would go to next from cur, never above max.
NextIncrement(t, cur, max) ==
  LET r    == Release[t]
      top  == Smaller(r.max, max)
      step == IF r.strategy = "linear" THEN LinearStep(r, cur) ELSE GeometricStep(r, cur)
  IN  IF max <= 0 THEN 0
      ELSE IF cur > top THEN top
      ELSE Smaller(step, top)

\* Mutant: the ramp gate is not consulted.
ScaleUngated(t, cur, max, gate) == NextIncrement(t, cur, max)

\* gate: the strategy's delay has elapsed and CanRampTo(desired) answered yes.
Scale(t, cur, max, gate) ==
  LET desired == NextIncrement(t, cur, max)
  IN  IF desired <= cur THEN desired ELSE IF gate THEN desired ELSE cur

\* Mutant: a canarying incarnation is not bounded by Canary.Percent.
TargetWithoutCanary(i, t, max, gate) ==
  IF i.rev THEN Scale(t, i.cur, max, gate) ELSE 0

CurrentPercentTarget(i, t, max, gate) ==
  LET bound == IF i.state \in Canaries THEN Smaller(max, CanaryPercent[t]) ELSE max
  IN  IF i.rev THEN Scale(t, i.cur, bound, gate) ELSE 0

UpdateCurrentPercent(i, p) ==
  [i EXCEPT !.cur = p, !.peak = IF p > @ THEN p ELSE @]

-----------------------------------------------------------------------------
(***************************************************************************)
(* A split in the making: the incarnations, the weight each was given in   *)
(* the mesh, what is left of the 100%, and whether an assertion failed.    *)
(* after: the incarnation comes after the ramping one in releasable order. *)
(***************************************************************************)
\* Mutant: incarnations older than the ramping one may ramp as well.
CapIgnoresRamping(i, rem, after) == rem

\* Mutant: the cap forgets what newer incarnations already took.
CapKeepsOwn(i, rem, after) == IF after THEN i.cur ELSE rem

Cap(i, rem, after) == IF after THEN Smaller(i.cur, rem) ELSE rem

\* Mutant: eligibility is withdrawn from any incarnation left without traffic.
VisitWithdrawsAll(split, t, after, gate) ==
  LET i == split.inc[t]
      p == CurrentPercentTarget(i, t, Cap(i, split.rem, after), gate)
      j == UpdateCurrentPercent(i, p)
  IN  [split EXCEPT !.inc[t] = [j EXCEPT !.elig = i.elig /\ p > 0],
                    !.weight[t] = p, !.rem = @ - p]

Visit(split, t, after, gate) ==
  LET i == split.inc[t]
      p == CurrentPercentTarget(i, t, Cap(i, split.rem, after), gate)
      j == UpdateCurrentPercent(i, p)
  IN  IF p > split.rem THEN [split EXCEPT !.panic = TRUE]
      ELSE [split EXCEPT
              !.inc[t] = IF p <= 0 /\ after THEN [j EXCEPT !.elig = FALSE] ELSE j,
              !.weight[t] = p,
              !.rem = @ - p]

\* Mutant: the leftover is added to the weight and not to the status.
LeftoverOnlyWeight(split, receiver) ==
  [split EXCEPT !.weight[receiver] = @ + split.rem, !.rem = 0]

\* Mutant: the leftover is added to the status and not to the weight.
LeftoverOnlyStatus(split, receiver) ==
  [split EXCEPT
     !.inc[receiver] = UpdateCurrentPercent(@, @.cur + split.rem), !.rem = 0]

\* Mutant: the receiver is given 100% on top of what it has.
LeftoverIsAll(split, receiver) ==
  [split EXCEPT
     !.inc[receiver] = UpdateCurrentPercent(@, @.cur + 100),
     !.weight[receiver] = @ + 100, !.rem = 0]

\* What no incarnation took goes to the ramping one, or to the first of the list.
AssignLeftover(split, receiver) ==
  LET p == split.inc[receiver].cur + split.rem
  IN  [split EXCEPT
         !.inc[receiver] = UpdateCurrentPercent(@, p),
         !.weight[receiver] = p,
         !.rem = 0]
=============================================================================
