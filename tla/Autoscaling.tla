---------------------------- MODULE Autoscaling ----------------------------
(***************************************************************************)
(* The objects of one revision in the clusters of its target, and who      *)
(* moves its replicas: SyncRevision, ScaleRevision, RetireRevision and     *)
(* DeleteRevision (controllers/plan) through CreateOrUpdate                *)
(* (plan/common.go), against the autoscalers these plans configure.        *)
(*                                                                         *)
(* A reconcile observes the ReplicaSets and runs the handler (Begin), then *)
(* writes the objects of the handler's plans one at a time, in each        *)
(* cluster on its own (Write), and at the end sets the state and the       *)
(* percentage (Finish).  A write that fails ends the plan in its cluster   *)
(* and, once the other clusters are done, the reconcile.                   *)
(*                                                                         *)
(* The revision is the app's newest.  The older one takes the traffic this *)
(* one does not have, with OtherPods pods.  Release delays have elapsed.   *)
(***************************************************************************)
EXTENDS TrafficSplit, Handlers, Fleet, Sequences, SequencesExt

CONSTANTS
  Scalers,     \* the autoscalers a Revision may be created with
  Switches,    \* pairs of autoscalers a user may change the Revision between
  ScaleMin, ScaleDefault, ScaleMax,  \* RevisionTarget.Scale
  EventDriven, \* Revision.Spec.EventDriven
  DatadogTrigger, RequestsRate, \* a KEDA worker has a datadog trigger, a request rate
  Sources,     \* the kinds of the revision's config objects
  OtherPods,   \* the replicas of the revision that serves the rest
  Timeouts,    \* what the deadlines of the handlers may read
  Schedules,   \* what the release schedule may answer
  Events,      \* which of the events in EventKinds happen
  MaxEvents    \* bound: the events, the writes that fail and the pods that are lost

ScalerKinds == {"none", "hpa", "ambient", "worker", "keda"}
EventKinds  == {"create", "delete", "retract", "fail", "disable"}
ConfigKinds == {"Secret", "ConfigMap", "ExternalSecret"}

ASSUME ScaleAssumption ==
  /\ ScaleMin \in Nat /\ ScaleDefault \in Nat \ {0} /\ ScaleMax \in Nat \ {0}
  /\ OtherPods \in Nat
ASSUME AutoscalingAssumption ==
  /\ Scalers \subseteq ScalerKinds /\ Switches \subseteq ScalerKinds \X ScalerKinds
  /\ {EventDriven, DatadogTrigger, RequestsRate} \subseteq BOOLEAN
  /\ Sources \subseteq ConfigKinds /\ Timeouts \subseteq BOOLEAN
  /\ Schedules \subseteq BOOLEAN
  /\ Events \subseteq EventKinds /\ MaxEvents \in Nat
ASSUME OneRevision == \E t \in Incarnations : Incarnations = {t}

VARIABLES
  revision,  \* the Revision: whether it exists, and the settings that may change
  status,    \* its persisted ReleaseManagerRevisionStatus; unknown to the manager
             \* before its first reconcile and after it is deleted
  object,    \* cluster -> kind -> the object of that kind
  disabled,  \* cluster -> Spec.DisableEventDriven
  pc,        \* "idle" or "writing"
  inc,       \* the status in memory, during a reconcile
  next,      \* the state the handler decided
  todo,      \* cluster -> the writes that are left
  broken,    \* a write of this reconcile failed
  events     \* bounds the events

vars == <<revision, status, object, disabled, pc, inc, next, todo, broken, events>>
reconcile == <<status, pc, inc, next, todo, broken>>

Event == events < MaxEvents /\ events' = events + 1

Tag == CHOOSE t \in Incarnations : TRUE

Percents == 0 .. 100

Revision == [present : BOOLEAN, scaler : ScalerKinds, elig : BOOLEAN, failed : BOOLEAN]

Status == [known : BOOLEAN, state : States, cur : Percents, peak : Percents]

NewStatus == [known |-> FALSE, state |-> "created", cur |-> 0, peak |-> 0]

\* The kinds that carry the revision's tag and are the revision's alone.
TaggedKinds ==
  ConfigKinds \cup {"ReplicaSet", "HPA", "WPA", "ScaledObject", "TriggerAuth",
                    "DatadogMetric"}
AutoscalerKinds == {"HPA", "WPA", "ScaledObject"}

Plain == [plain |-> TRUE]
Bounds(min, max, paused) == [min |-> min, max |-> max, paused |-> paused]
-----------------------------------------------------------------------------
(* One write.                                                              *)

Put(kind, content) == [op |-> "put", kind |-> kind, content |-> content]
Del(kind)          == [op |-> "delete", kind |-> kind]
PutReplicaSet(desired, hold, scaler) ==
  [op |-> "replicas", desired |-> desired, hold |-> hold, scaler |-> scaler]
Zero == [op |-> "zero"]

Has(o, kind) == kind \in DOMAIN o

ReplicaSet(replicas, ready, hold) ==
  [replicas |-> replicas, ready |-> Lesser(ready, replicas), hold |-> hold]

NoReplicas == ReplicaSet(0, 0, FALSE)

(***************************************************************************)
(* The ReplicaSet case of CreateOrUpdate: replicas change only to or from  *)
(* zero, never under a WorkerPodAutoScaler (one created so has the API's   *)
(* default of 1); of the pod template only the do-not-disrupt annotation   *)
(* (hold) is kept in sync.                                                 *)
(***************************************************************************)
CreateOrUpdateReplicaSet(o, w) ==
  LET exists == Has(o, "ReplicaSet")
      old    == IF exists THEN o["ReplicaSet"] ELSE NoReplicas
      replicas ==
        IF w.scaler = "worker" THEN (IF exists THEN old.replicas ELSE 1)
        ELSE IF w.desired = 0 \/ old.replicas = 0 THEN w.desired
        ELSE old.replicas
  IN  ReplicaSet(replicas, old.ready, w.hold)

Replace(o, kind, content) ==
  [k \in DOMAIN o \cup {kind} |-> IF k = kind THEN content ELSE o[k]]

\* The objects as CreateOrUpdate or Delete of the cluster's client leaves them.
Effect(o, w) ==
  CASE w.op = "put"      -> Replace(o, w.kind, w.content)
    [] w.op = "delete"   -> Restrict(o, DOMAIN o \ {w.kind})
    [] w.op = "replicas" -> Replace(o, "ReplicaSet", CreateOrUpdateReplicaSet(o, w))
    [] w.op = "zero"     -> IF Has(o, "ReplicaSet")
                            THEN [o EXCEPT !["ReplicaSet"] = ReplicaSet(0, 0, @.hold)]
                            ELSE o
-----------------------------------------------------------------------------
(* What the incarnation i, ramping or not, wants of its plans.             *)

IsWorker == revision.scaler \in {"worker", "keda"}

HasAutoscaler == revision.scaler # "none"

IsRoutable(i) == i.state \notin {"canaried", "pendingrelease"}

\* The ramping incarnation is found before the handlers run.
IsRamping(i) == i.state \in Live

Next100(i) == NextIncrement(Tag, i.cur, Release[Tag].max)

Share(i, count) ==
  IF i.state \in {"deploying", "deployed", "pendingrelease"} THEN 1
  ELSE DivideReplicas(count,
         IF i.state = "canarying" THEN CanaryPercent[Tag]
         ELSE IF IsRamping(i) THEN Next100(i) ELSE i.cur)

ScaleInfo == [min |-> ScaleMin, max |-> ScaleMax, auto |-> HasAutoscaler]

\* The revision that serves the rest was at 100% before.
Others(i) == [pods |-> OtherPods, percent |-> 100 - i.cur, unscaled |-> i.cur > 0]

\* Mutant: nothing raises the minimum for the next increment.
NoProactiveMin(i) == 0

ProactiveRampMinReplicas(i) ==
  IF i.state # "releasing" \/ i.cur = 0 \/ ~HasAutoscaler \/ IsWorker
     \/ Next100(i) <= i.cur
  THEN 0
  ELSE Lesser(DivideReplicas(ReplicasRequiredForRamp(ScaleInfo, Others(i), Next100(i)), 100),
              DivideReplicas(ScaleMax, 100))

\* genScalePlan: the replica bounds before the cluster's factor.
MaxReplicas(i) == IF IsWorker /\ ~IsRoutable(i) THEN 0 ELSE Share(i, ScaleMax)

MinReplicas(i) ==
  IF IsWorker /\ ~IsRoutable(i) THEN 0
  ELSE IF i.cur = 0 THEN MaxReplicas(i)
  ELSE IF IsWorker /\ ScaleMin = 0 THEN 0
  ELSE Larger(Share(i, ScaleMin), ProactiveRampMinReplicas(i))

KarpenterDoNotDisrupt(i) == i.state \in {"created", "deploying"}

\* Incarnation.sync
Replicas(i) ==
  IF ~IsRoutable(i) THEN 0
  ELSE IF HasAutoscaler THEN Share(i, ScaleDefault)
  ELSE DivideReplicas(ScaleDefault, 100)
-----------------------------------------------------------------------------
(* The plans, as the writes they make in cluster c.                        *)

EventDrivenDisabled(c) == disabled[c] /\ EventDriven

Puts(kinds) == [n \in 1 .. Cardinality(kinds) |-> Put(SetToSeq(kinds)[n], Plain)]

(***************************************************************************)
(* The ServiceAccount is patched and the app's PodDisruptionBudget, shared *)
(* by its revisions, is written before: neither is an object of the        *)
(* revision.                                                               *)
(***************************************************************************)
SyncRevision(i, c) ==
  Puts(Sources) \o
  <<PutReplicaSet(IF EventDrivenDisabled(c) THEN 0 ELSE Scaled(Replicas(i), Factor[c]),
                  KarpenterDoNotDisrupt(i), revision.scaler)>>

\* Mutant: a disabled ScaledObject is not paused.
KedaNeverPaused(min, max, off) == Bounds(IF off THEN 0 ELSE min, max, FALSE)

\* kedaDisabledSettings
KedaSettings(min, max, off) == Bounds(IF off THEN 0 ELSE min, max, off)

\* applyKedaTriggerAuth and applyKeda
KedaWorkerPlan(settings) ==
  (IF DatadogTrigger THEN <<Put("ConfigMap", Plain)>> ELSE <<>>)
  \o <<Put("TriggerAuth", Plain)>>
  \o (IF RequestsRate THEN <<Put("DatadogMetric", Plain)>> ELSE <<>>)
  \o <<Put("ScaledObject", settings)>>

\* Mutant: the HPA is left when KEDA takes over.
AmbientPlanKeepsHPA(settings) == <<Put("ScaledObject", settings)>>

\* KEDA refuses a workload that an HPA manages.
AmbientPlan(settings) == <<Del("HPA"), Put("ScaledObject", settings)>>

ScaleRevision(i, c) ==
  LET off == EventDrivenDisabled(c)
      factor == IF off /\ revision.scaler = "worker" THEN 0 ELSE Factor[c]
      min == Scaled(MinReplicas(i), factor)
      max == Scaled(Larger(MinReplicas(i), MaxReplicas(i)), factor)
  IN  CASE revision.scaler = "worker"  -> <<Put("WPA", Bounds(min, max, FALSE))>>
        [] revision.scaler = "keda"    -> KedaWorkerPlan(KedaSettings(min, max, off))
        [] revision.scaler = "ambient" -> AmbientPlan(KedaSettings(min, max, off))
        [] revision.scaler = "hpa" /\ ~off -> <<Put("HPA", Bounds(min, max, FALSE))>>
        [] OTHER -> <<Del("HPA")>>

\* Mutant: the pods are stopped before what would start them again.
RetireReplicasFirst == <<Zero, Del("WPA"), Del("ScaledObject"), Del("TriggerAuth")>>

RetireRevision == <<Del("WPA"), Del("ScaledObject"), Del("TriggerAuth"), Zero>>

\* Mutant: the plan has no list of ScaledObjects.
DeleteForgetsScaledObject ==
  <<Del("Secret"), Del("ConfigMap"), Del("ReplicaSet"), Del("HPA"), Del("WPA"),
    Del("TriggerAuth"), Del("ExternalSecret"), Del("DatadogMetric")>>

DeleteRevisionPlan ==
  <<Del("Secret"), Del("ConfigMap"), Del("ReplicaSet"), Del("HPA"), Del("WPA"),
    Del("ScaledObject"), Del("TriggerAuth"), Del("ExternalSecret"), Del("DatadogMetric")>>

\* Of the plans a handler calls one writes these objects; the canary's rules have
\* no part in this module.
Writes(calls, i, c) ==
  LET called == {calls[n] : n \in 1 .. Len(calls)}
  IN  IF "sync" \in called
      THEN IF revision.present THEN SyncRevision(i, c) \o ScaleRevision(i, c) ELSE <<>>
      ELSE IF "retire" \in called THEN RetireRevision
      ELSE IF "del" \in called THEN DeleteRevisionPlan
      ELSE <<>>
-----------------------------------------------------------------------------
(* The reconcile.                                                          *)

\* ClusterObserver.Observe and ConcurrentObserver.Observe
Observation ==
  [c \in {x \in Clusters : Has(object[x], "ReplicaSet")} |->
     [desired |-> object[c]["ReplicaSet"].replicas,
      current |-> object[c]["ReplicaSet"].ready]]

\* Incarnation.update: without a ReplicaSet anywhere, no traffic.
Update(i, o) == IF DOMAIN o = {} THEN [i EXCEPT !.cur = 0] ELSE i

Deployment(i, o, late, canaryPending, permits) ==
  [state |-> i.state, cur |-> i.cur, peak |-> i.peak, elig |-> revision.elig,
   rev |-> revision.present, failed |-> revision.failed, ext |-> "disabled",
   ready |-> IsDeployed(o), canaryPending |-> canaryPending,
   late |-> late, testLate |-> FALSE, permits |-> permits, expired |-> FALSE,
   canaryPercent |-> CanaryPercent[Tag]]

Begin(late, pending, permits) ==
  /\ pc = "idle"
  /\ revision.present \/ status.known
  /\ LET i == Update(status, Observation)
         h == Handle(Deployment(i, Observation, late, pending, permits))
     IN  /\ inc' = [i EXCEPT !.known = TRUE]
         /\ next' = h.next
         /\ todo' = [c \in Clusters |-> Writes(h.calls, i, c)]
  /\ pc' = "writing" /\ broken' = FALSE
  /\ UNCHANGED <<revision, status, object, disabled, events>>

Write(c) ==
  /\ todo[c] # <<>>
  /\ object' = [object EXCEPT ![c] = Effect(@, Head(todo[c]))]
  /\ todo' = [todo EXCEPT ![c] = Tail(@)]
  /\ UNCHANGED <<revision, status, disabled, pc, inc, next, broken, events>>

\* ConcurrentApplier waits for the other clusters.
WriteFails(c) ==
  /\ todo[c] # <<>>
  /\ todo' = [todo EXCEPT ![c] = <<>>]
  /\ broken' = TRUE
  /\ Event
  /\ UNCHANGED <<revision, status, object, disabled, pc, inc, next>>

Written == pc = "writing" /\ \A c \in Clusters : todo[c] = <<>>

\* The percentage prepareRevisions may give: the older revision takes over what
\* a draining one loses.
PercentAfter(i, o) ==
  LET bound == IF i.state \in Canaries THEN CanaryPercent[Tag] ELSE 100
      gate  == CanRampTo(ScaleInfo, Others(i), NextIncrement(Tag, i.cur, bound),
                         CurrentSum(o))
  IN  IF i.state \in Canaries \cup Live
      THEN {CurrentPercentTarget(i, Tag, 100, gate)}
      ELSE IF IsReleasable(i) /\ i.rev
      THEN {p \in {0, i.cur} : p <= i.cur}
      ELSE {0}

Finish ==
  /\ Written
  /\ pc' = "idle"
  /\ IF broken THEN UNCHANGED status
     ELSE LET i == Update([state |-> next, cur |-> inc.cur, peak |-> inc.peak,
                           rev |-> revision.present], Observation)
          IN  \E p \in PercentAfter(i, Observation) :
                LET j == UpdateCurrentPercent(i, p)
                IN  status' = IF next = "deleted" /\ ~revision.present THEN NewStatus
                              ELSE [known |-> TRUE, state |-> j.state, cur |-> j.cur,
                                    peak |-> j.peak]
  /\ inc' = NewStatus /\ next' = "created" /\ broken' = FALSE
  /\ UNCHANGED <<revision, object, disabled, todo, events>>
-----------------------------------------------------------------------------
(* The clusters.                                                           *)

Replicated(c) == object[c]["ReplicaSet"]

\* The replicas an autoscaler may choose.  An HPA does not start a ReplicaSet
\* that is at zero; KEDA and the WorkerPodAutoScaler do.
Allowed(c, kind) ==
  LET b == object[c][kind]
  IN  IF kind = "HPA" /\ Replicated(c).replicas = 0 THEN {0}
      ELSE IF b.paused THEN {0}
      ELSE b.min .. b.max

Autoscale(c, kind) ==
  /\ Has(object[c], kind) /\ Has(object[c], "ReplicaSet")
  /\ \E r \in Allowed(c, kind) \ {Replicated(c).replicas} :
       object' = [object EXCEPT ![c]["ReplicaSet"] = ReplicaSet(r, @.ready, @.hold)]
  /\ UNCHANGED <<revision, disabled, events, reconcile>>

\* An autoscaler brings the replicas back within its bounds.
AutoscaleInto(c, kind) ==
  /\ Has(object[c], kind) /\ Has(object[c], "ReplicaSet")
  /\ Replicated(c).replicas \notin Allowed(c, kind)
  /\ Autoscale(c, kind)

PodsStart(c) ==
  /\ Has(object[c], "ReplicaSet") /\ Replicated(c).ready < Replicated(c).replicas
  /\ object' = [object EXCEPT ![c]["ReplicaSet"].ready = Replicated(c).replicas]
  /\ UNCHANGED <<revision, disabled, events, reconcile>>

PodsLost(c) ==
  /\ Has(object[c], "ReplicaSet") /\ Replicated(c).ready > 0
  /\ object' = [object EXCEPT ![c]["ReplicaSet"].ready = 0]
  /\ Event
  /\ UNCHANGED <<revision, disabled, reconcile>>

DisableEventDriven(c) ==
  /\ "disable" \in Events /\ pc = "idle"
  /\ disabled' = [disabled EXCEPT ![c] = ~@]
  /\ Event
  /\ UNCHANGED <<revision, object, reconcile>>
-----------------------------------------------------------------------------
(* Users.  A reconcile reads the Revision once, at its start: an edit while *)
(* it runs is an edit after it.                                            *)

CreateRevision ==
  /\ "create" \in Events /\ ~revision.present /\ pc = "idle"
  /\ \E s \in IF status.known THEN {revision.scaler} ELSE Scalers :
       revision' = [present |-> TRUE, scaler |-> s, elig |-> TRUE, failed |-> FALSE]
  /\ UNCHANGED <<object, disabled, events, reconcile>>

DeleteRevision ==
  /\ "delete" \in Events /\ revision.present /\ pc = "idle"
  /\ revision' = [revision EXCEPT !.present = FALSE]
  /\ Event
  /\ UNCHANGED <<object, disabled, reconcile>>

EditRevision ==
  /\ revision.present /\ pc = "idle"
  /\ \/ "retract" \in Events /\ revision' = [revision EXCEPT !.elig = ~@]
     \/ "fail" \in Events /\ revision' = [revision EXCEPT !.failed = ~@]
     \/ \E s \in Scalers : /\ <<revision.scaler, s>> \in Switches
                           /\ revision' = [revision EXCEPT !.scaler = s]
  /\ Event
  /\ UNCHANGED <<object, disabled, reconcile>>
-----------------------------------------------------------------------------
Init ==
  /\ revision \in [present : {TRUE}, scaler : Scalers, elig : {TRUE}, failed : {FALSE}]
  /\ status = NewStatus /\ inc = NewStatus
  /\ object = [c \in Clusters |-> [k \in {} |-> Plain]]
  /\ disabled = [c \in Clusters |-> FALSE]
  /\ pc = "idle" /\ next = "created" /\ broken = FALSE /\ events = 0
  /\ todo = [c \in Clusters |-> <<>>]

Cluster(c) ==
  \/ \E k \in AutoscalerKinds : Autoscale(c, k)
  \/ PodsStart(c) \/ PodsLost(c) \/ DisableEventDriven(c)

Next ==
  \/ \E late \in Timeouts, pending \in {FALSE, CanaryPercent[Tag] > 0},
        permits \in Schedules : Begin(late, pending, permits)
  \/ Finish
  \/ \E c \in Clusters : Write(c) \/ WriteFails(c) \/ Cluster(c)
  \/ CreateRevision \/ DeleteRevision \/ EditRevision

Spec == Init /\ [][Next]_vars

(***************************************************************************)
(* A manager is requeued after every reconcile, whether it failed or not;  *)
(* the clusters' controllers act on what is out of line; the schedule      *)
(* opens again and again, and the TTL of a canary passes.                  *)
(***************************************************************************)
Fairness ==
  /\ SF_vars(Begin(FALSE, FALSE, TRUE)) /\ WF_vars(Finish)
  /\ \A c \in Clusters :
       /\ WF_vars(Write(c)) /\ WF_vars(PodsStart(c))
       /\ \A k \in AutoscalerKinds : WF_vars(AutoscaleInto(c, k))

FairSpec == Spec /\ Fairness
-----------------------------------------------------------------------------
\* Types; no ReplicaSet has more replicas up than it wants, and no percentage
\* exceeds 100 (the caps of the scaling strategies).
TypeOK ==
  /\ revision \in Revision /\ status \in Status /\ inc \in Status /\ next \in States
  /\ DOMAIN object = Clusters
  /\ \A c \in Clusters :
       /\ DOMAIN object[c] \subseteq TaggedKinds
       /\ Has(object[c], "ReplicaSet") => Replicated(c).ready \in 0 .. Replicated(c).replicas
  /\ disabled \in [Clusters -> BOOLEAN]
  /\ pc \in {"idle", "writing"} /\ broken \in BOOLEAN /\ events \in 0 .. MaxEvents

\* Two autoscalers never manage one ReplicaSet, also while a revision moves from
\* an HPA to KEDA (ScaleRevision deletes the HPA first).
OneScaler ==
  \A c \in Clusters : Cardinality(AutoscalerKinds \cap DOMAIN object[c]) <= 1

\* Once RetireRevision is through, nothing starts the pods of a retired or failed
\* revision again: its WPA and ScaledObject go before the replicas do, and the
\* HPA that stays does not act at zero.
RetiredStaysDown ==
  status.state \in {"retired", "failed"} =>
    \A c \in Clusters : Has(object[c], "ReplicaSet") => Replicated(c).replicas = 0

\* When the manager forgets a revision, no cluster has an object of it left
\* (DeleteRevision lists every kind the other plans create).
DeleteLeavesNothing ==
  pc = "idle" /\ ~status.known => \A c \in Clusters : DOMAIN object[c] = {}

\* The API accepts what the plans write: an HPA keeps at least one replica, and
\* no autoscaler has a maximum of 0 or below its minimum.  (The ScaledObject of a
\* KEDA worker does, while its revision is not routable.)
BoundsAccepted ==
  \A c \in Clusters : \A k \in {"HPA", "ScaledObject"} \cap DOMAIN object[c] :
    LET b == object[c][k]
    IN  /\ k = "HPA" => b.min >= 1
        /\ revision.scaler # "keda" => b.max >= 1 /\ b.min <= b.max

SyncedStates == {"deploying", "deployed", "pendingrelease", "releasing", "released",
                 "canarying", "canaried"}

\* In a cluster where event-driven scaling stays disabled, an event-driven
\* revision that is still synced ends at zero replicas and stays there, whatever
\* its autoscaler.
DisabledStaysDown ==
  \A c \in Clusters :
    <>[](disabled[c] /\ EventDriven /\ revision.present /\ status.state \in SyncedStates)
      => <>[](Has(object[c], "ReplicaSet") => Replicated(c).replicas = 0)

\* Nothing outside holds the release back.
Rolling ==
  /\ revision.present /\ revision.elig /\ ~revision.failed
  /\ HasAutoscaler /\ ~IsWorker
  /\ \A c \in Clusters : ~disabled[c]
  /\ status.state \notin Draining \cup {"timingout"}

\* The ramp gate and the autoscalers do not wait for each other: a release
\* reaches 100% however little load there is (proactiveRampMinReplicas).
RolloutCompletes == <>[]Rolling => <>(status.cur = 100)
=============================================================================
