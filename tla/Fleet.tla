------------------------------- MODULE Fleet -------------------------------
(***************************************************************************)
(* The clusters a ReleaseManager deploys to and the replica arithmetic     *)
(* over them: ClusterInfoList and IncarnationController                    *)
(* (controllers/incarnation_controller.go), the ramp gate                  *)
(* (controllers/scaling.go) and the observation of the ReplicaSets         *)
(* (controllers/observe).                                                  *)
(*                                                                         *)
(* Percentages and scaling factors are whole percents; the code's float64  *)
(* quotients are exact rationals here.                                     *)
(***************************************************************************)
EXTENDS Integers, FiniteSets, Functions

CONSTANTS
  Clusters,
  IsLive,   \* live clusters take traffic, the others are standby
  Factor    \* Cluster.Spec.ScalingFactor, in percent

LiveClusters == {c \in Clusters : IsLive[c]}

ASSUME FleetAssumption ==
  /\ IsFiniteSet(Clusters)
  /\ IsLive \in [Clusters -> BOOLEAN]
  /\ Factor \in [Clusters -> Nat]
\* A reconcile without a live cluster stops before any plan.
ASSUME LiveAssumption == LiveClusters # {}

LiveCount == Cardinality(LiveClusters)

Larger(a, b)  == IF a > b THEN a ELSE b
Lesser(a, b)  == IF a < b THEN a ELSE b
CeilDiv(a, b) == (a + b - 1) \div b

\* How a plan scales a replica count in one cluster.
Scaled(n, factor) == CeilDiv(n * factor, 100)

\* Mutant: a share of the replicas may round to none.
DivideReplicasToZero(count, percent) ==
  CeilDiv(Lesser(100, percent) * count, 100 * LiveCount)

\* One cluster's share of count replicas for percent of the traffic, never 0.
DivideReplicas(count, percent) ==
  Larger(CeilDiv(Lesser(100, percent) * count, 100 * LiveCount), 1)

ExpectedReplicaCount(count) ==
  LET perCluster == CeilDiv(count, LiveCount)
  IN  SumFunction([c \in LiveClusters |-> Scaled(perCluster, Factor[c])])

ExpectedTotalReplicas(count, percent) ==
  ExpectedReplicaCount(CeilDiv(Lesser(100, percent) * count, 100))
-----------------------------------------------------------------------------
(* The ramp gate.  others: what the app's other revisions have, as far as  *)
(* they serve: pods, percent, and whether one of them was at 100% and is   *)
(* being scaled down (unscaled).                                           *)

Threshold == 90

BaseCapacity(scale, others) ==
  IF others.pods = 0 \/ others.percent = 0 THEN scale.min
  ELSE IF ~others.unscaled THEN CeilDiv(others.pods * 100, others.percent)
  ELSE IF scale.auto THEN others.pods
  ELSE IF scale.min = 0 THEN scale.max ELSE scale.min

\* The replicas the fleet needs before percent of the traffic goes to a revision.
ReplicasRequiredForRamp(scale, others, percent) ==
  LET total    == ExpectedTotalReplicas(BaseCapacity(scale, others), percent)
      expected == CeilDiv(total * Threshold, 100)
  IN  IF scale.max > 0 THEN Lesser(expected, ExpectedTotalReplicas(scale.max, 100))
      ELSE expected

CanRampTo(scale, others, percent, current) ==
  current >= ReplicasRequiredForRamp(scale, others, percent)
-----------------------------------------------------------------------------
(* Observations: o maps the clusters that have the tag's ReplicaSet to its *)
(* desired and available replicas.                                         *)

Recorded(o) == {c \in DOMAIN o : IsLive[c]}

CurrentSum(o) == SumFunction([c \in Recorded(o) |-> o[c].current])
DesiredSum(o) == SumFunction([c \in Recorded(o) |-> o[c].desired])

\* Incarnation.isDeployed, of what update stored: all live clusters have the
\* ReplicaSet, each with a replica up, and together all that they want.
IsDeployed(o) ==
  /\ Cardinality(Recorded(o)) >= LiveCount
  /\ \A c \in Recorded(o) : o[c].current > 0
  /\ CurrentSum(o) >= DesiredSum(o)
=============================================================================
