------------------------------ MODULE Traffic ------------------------------
(***************************************************************************)
(* The loop of ResourceSyncer.prepareRevisions (syncer.go) as a state      *)
(* machine: one incarnation of releasable() per step, newest first, then   *)
(* the leftover.  Position k of the loop is incarnation k.  `ramping` is   *)
(* the position of the incarnation with isRamping set: it was chosen when  *)
(* the collection was built, before the incarnations ticked, so it may be  *)
(* any position that is not canarying, or 0 when that incarnation is no    *)
(* longer releasable.                                                      *)
(***************************************************************************)
EXTENDS TrafficSplit, FiniteSets, Functions

CONSTANTS
  N,         \* the number of releasable incarnations
  Percents   \* the values of CurrentPercent the loop starts from

ASSUME NAssumption == N \in Nat \ {0}
ASSUME IncarnationsAssumption == Incarnations = 1 .. N
ASSUME PercentsAssumption == Percents \subseteq 0 .. 100

VARIABLES
  split,    \* the incarnations, their weights and what is left of the 100%
  k,        \* the next position of the loop
  pc,       \* "loop", "leftover", "done" or "panic"
  ramping,  \* position of the incarnation with isRamping, 0 if none
  start,    \* the percentages before the loop
  passed    \* the positions whose ramp gate was open when they were visited

vars == <<split, k, pc, ramping, start, passed>>

Incarnation == [state : Canaries \cup Live \cup Draining, rev : BOOLEAN,
                cur : Nat, peak : Nat, elig : BOOLEAN]

Position(state, rev, cur) ==
  [state |-> state, rev |-> rev, cur |-> cur, peak |-> cur, elig |-> TRUE]

(***************************************************************************)
(* What releasable() can return after the tick: sorted by group, the       *)
(* drained incarnations still have traffic, only they may have lost their  *)
(* Revision, and no more than 100% is out.                                 *)
(***************************************************************************)
Init ==
  \E state \in [1 .. N -> {"canarying", "releasing", "failing"}],
     rev \in [1 .. N -> BOOLEAN], cur \in [1 .. N -> Percents], r \in 0 .. N :
    LET inc == [n \in 1 .. N |-> Position(state[n], rev[n], cur[n])]
    IN  /\ \A m, n \in 1 .. N : m < n => Group(inc[m]) <= Group(inc[n])
        /\ \A n \in 1 .. N : IsReleasable(inc[n])
        /\ \A n \in 1 .. N : rev[n] \/ state[n] \in Draining
        /\ r # 0 => state[r] \notin Canaries
        /\ SumFunction(cur) <= 100
        /\ split = [inc |-> inc, weight |-> [n \in 1 .. N |-> 0],
                    rem |-> 100, panic |-> FALSE]
        /\ ramping = r
        /\ start = cur
        /\ k = 1
        /\ pc = "loop"
        /\ passed = {}

After(n) == ramping # 0 /\ n > ramping

Receiver == IF ramping # 0 THEN ramping ELSE 1

VisitNext ==
  /\ pc = "loop"
  /\ \E gate \in BOOLEAN :
       /\ split' = Visit(split, k, After(k), gate)
       /\ passed' = IF gate THEN passed \cup {k} ELSE passed
  /\ pc' = IF split'.panic THEN "panic" ELSE IF k = N THEN "leftover" ELSE "loop"
  /\ k' = k + 1
  /\ UNCHANGED <<ramping, start>>

GiveLeftover ==
  /\ pc = "leftover"
  /\ split' = IF split.rem > 0 THEN AssignLeftover(split, Receiver) ELSE split
  /\ pc' = "done"
  /\ UNCHANGED <<k, ramping, start, passed>>

Next == VisitNext \/ GiveLeftover

Spec == Init /\ [][Next]_vars

-----------------------------------------------------------------------------
TypeOK ==
  /\ split \in [inc : [1 .. N -> Incarnation], weight : [1 .. N -> 0 .. 100],
                rem : 0 .. 100, panic : BOOLEAN]
  /\ k \in 1 .. N + 1
  /\ pc \in {"loop", "leftover", "done", "panic"}
  /\ ramping \in 0 .. N
  /\ start \in [1 .. N -> 0 .. 100]
  /\ passed \in SUBSET (1 .. N)

(***************************************************************************)
(* The panic("Assertion failed") of prepareRevisions is unreachable: no    *)
(* strategy, canary or revision ever asks for more than what is left.      *)
(***************************************************************************)
NeverPanics == pc # "panic"

(***************************************************************************)
(* When the loop is done the whole 100% is out: the weights written to the *)
(* VirtualService add up to 100 and each equals the status CurrentPercent. *)
(***************************************************************************)
FullyAssigned ==
  pc = "done" => /\ SumFunction(split.weight) = 100
                 /\ \A n \in 1 .. N : split.weight[n] = split.inc[n].cur

(***************************************************************************)
(* Incarnations older than the ramping one never gain traffic in a round,  *)
(* neither from their strategy nor from the leftover.                      *)
(***************************************************************************)
OlderNeverGain ==
  \A n \in 1 .. N : After(n) => split.inc[n].cur <= start[n]

(***************************************************************************)
(* While some incarnation ramps, a canary never has more than its          *)
(* Canary.Percent, however much is left over.                              *)
(***************************************************************************)
CanaryBounded ==
  pc = "done" /\ ramping # 0 =>
    \A n \in 1 .. N : split.inc[n].state \in Canaries =>
      split.inc[n].cur <= CanaryPercent[n]

(***************************************************************************)
(* When all 100% was out, every Revision exists and nobody was above its   *)
(* own maximum, an incarnation gains traffic only through its ramp gate    *)
(* (delay elapsed and CanRampTo): the leftover never bypasses it.          *)
(***************************************************************************)
Healthy ==
  /\ SumFunction(start) = 100
  /\ \A n \in 1 .. N :
       /\ split.inc[n].rev
       /\ start[n] <= Release[n].max
       /\ split.inc[n].state \in Canaries => start[n] <= CanaryPercent[n]

GainsOnlyThroughGate ==
  Healthy => \A n \in 1 .. N : split.inc[n].cur > start[n] => n \in passed

(***************************************************************************)
(* Release eligibility is withdrawn (which sends the incarnation to        *)
(* retiring) only from an older incarnation that ended without traffic.    *)
(***************************************************************************)
EligibilityLostOnlyWhenDrained ==
  \A n \in 1 .. N :
    ~split.inc[n].elig => /\ After(n)
                          /\ split.inc[n].cur = 0 /\ split.weight[n] = 0

(***************************************************************************)
(* A round hands out a budget: whatever strategies, canaries and gates do, *)
(* a weight is only taken from what is left, an incarnation is given one   *)
(* once, and the rest goes to a single one (prepareRevisions).             *)
(***************************************************************************)
Round == INSTANCE Budget WITH given <- split.weight, left <- split.rem,
                              open <- pc # "done"

ImplementsBudget == Round!Spec
=============================================================================
