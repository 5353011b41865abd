------------------------------- MODULE Target -------------------------------
(***************************************************************************)
(* What ResourceSyncer (controllers/syncer.go) keeps in a cluster for one  *)
(* app and target besides the revisions themselves: the namespace and its  *)
(* mesh mode, the waypoint of an ambient namespace, the service account    *)
(* and its role, the Service and the Istio objects, the monitoring, and    *)
(* the ServiceLevel that lives in a namespace shared by all apps.          *)
(*                                                                         *)
(* A reconcile reads the revisions and observes the cluster (Begin), then  *)
(* writes one object after the other (Write), and persists the status      *)
(* (Finish).  A write that fails ends it.  Nobody but the reconcile reads  *)
(* these objects, except the pods: a pod gets its sidecar, or none, from   *)
(* the labels the namespace has when the pod starts.                       *)
(*                                                                         *)
(* A tag is the age of its revision: a larger one is newer.  An increment  *)
(* of the traffic is all of it; there is no canary and no external test    *)
(* (ReleaseManager has them), and an autoscaler leaves one replica.        *)
(***************************************************************************)
EXTENDS TrafficSplit, Handlers, Routing, FiniteSetsExt, Sequences, SequencesExt, TLC

CONSTANTS
  Configs,        \* what the RevisionTargets of the tags may be: tag -> Config
  ServiceLevels,  \* Config.ServiceLevelsNamespace is set
  Ignorable,      \* the objects a user may label with LabelIgnore
  Events,         \* which of the events in EventKinds happen
  MaxEvents       \* bound: the events and the writes that fail

EventKinds == {"delete", "fail", "unfail", "remove", "restart", "ignore"}

PortInfo ==
  [name : STRING, number : Nat, ingressPort : Nat, ingresses : SUBSET Ingresses,
   hosts : SUBSET (STRING \X STRING)]

\* RevisionTarget.  hpa: WaypointHPA, with 0 for what is unset; role: AWS.IAM.RoleARN.
Config ==
  [ambient : BOOLEAN, hpa : [min : Nat, max : Nat], role : BOOLEAN,
   alerts : BOOLEAN, slos : BOOLEAN, monitors : {"none", "labelled", "plain"},
   ports : SUBSET PortInfo,
   defaults : [Ingresses -> STRING], header : BOOLEAN]

ASSUME TargetAssumption ==
  /\ Incarnations \subseteq Nat \ {0} /\ IsFiniteSet(Incarnations)
  /\ Configs \subseteq [Incarnations -> Config]
  /\ ServiceLevels \in BOOLEAN
  /\ Events \subseteq EventKinds /\ MaxEvents \in Nat

VARIABLES
  config,    \* the Config of each tag, fixed
  revision,  \* tag -> "absent", "good" or "failed": the Revision and its Spec.Failed
  manager,   \* "none", "alive", or "deleting" until it is finalized
  orphaned,  \* a user removed the manager since it last deleted its ServiceLevel
  status,    \* tag -> what the manager persisted of it
  object,    \* kind -> the object of that kind
  replicas,  \* tag -> the ReplicaSet: "none", or what it wants, 0 or 1
  pod,       \* tag -> "none", "plain" or "injected"
  pc,        \* "idle", "writing", or "leaving" when the manager deletes itself
  inc,       \* tag -> the incarnation, during a reconcile
  todo,      \* the writes that are left
  events     \* bounds the events

vars == <<config, revision, manager, orphaned, status, object, replicas, pod, pc,
          inc, todo, events>>
reconcile == <<manager, orphaned, status, pc, inc, todo>>
cluster   == <<object, replicas, pod>>

Tags == Incarnations

Event == events < MaxEvents /\ events' = events + 1

Present == {t \in Tags : revision[t] # "absent"}

Plain == [plain |-> TRUE]
By(t) == [by |-> t]

WaypointKinds  == {"Options", "Gateway", "WaypointPDB", "WaypointHPA"}
AppKinds       == {"Service", "Sidecar", "DestinationRule", "AlertRule", "VirtualService"}
Kinds == {"Namespace", "ServiceAccount", "RBAC", "ServiceMonitor", "SLORule", "ServiceLevel"}
           \cup WaypointKinds \cup AppKinds

Has(kind) == kind \in DOMAIN object
-----------------------------------------------------------------------------
(* One write.                                                              *)

Put(kind, content)   == [op |-> "put", kind |-> kind, content |-> content]
ForceWrite(kind, content) == [op |-> "force", kind |-> kind, content |-> content]
Del(kind)            == [op |-> "delete", kind |-> kind]
DelLabelled(kind)    == [op |-> "labelled", kind |-> kind]
ScaleTo(t, n)        == [op |-> "scale", kind |-> "ReplicaSet", tag |-> t, replicas |-> n]

Written(o, w) ==
  [kind \in DOMAIN o \cup {w.kind} |->
     IF kind = w.kind THEN [content |-> w.content, ignored |-> FALSE] ELSE o[kind]]

\* The frame of every case of CreateOrUpdate: an object with LabelIgnore is left alone.
CreateOrUpdate(o, w) ==
  IF w.kind \in DOMAIN o /\ o[w.kind].ignored THEN o
  ELSE Written(o, w)

Without(o, kinds) == Restrict(o, DOMAIN o \ kinds)

\* EnsureWaypoint and patchServiceAccount do not use CreateOrUpdate.
Effect(o, w) ==
  CASE w.op = "put"      -> CreateOrUpdate(o, w)
    [] w.op = "force"    -> Written(o, w)
    [] w.op = "delete"   -> Without(o, {w.kind})
    [] w.op = "labelled" -> IF w.kind \in DOMAIN o /\ o[w.kind].content.labelled
                            THEN Without(o, {w.kind}) ELSE o
    [] w.op = "scale"    -> o
-----------------------------------------------------------------------------
(* The incarnations i: tag -> [state, cur, peak, elig, rev, failed].       *)

NewStatus == [state |-> "created", cur |-> 0, peak |-> 0, elig |-> TRUE]

\* Without a ReplicaSet an incarnation is not released.
NewIncarnation(t) ==
  LET s == IF t \in DOMAIN status THEN status[t] ELSE NewStatus
  IN  [state |-> s.state, cur |-> IF replicas[t] = "none" THEN 0 ELSE s.cur,
       peak |-> s.peak,
       elig |-> IF s.state \in {"created", "deploying"} THEN t \in Present ELSE s.elig,
       rev |-> t \in Present, failed |-> revision[t] = "failed"]

Current == [t \in Present \cup DOMAIN status |-> NewIncarnation(t)]

\* Newest first; incarnations without a Revision have no time and come last.
Newer(i, t, u) == IF i[t].rev = i[u].rev THEN t > u ELSE i[t].rev

\* The collection lists incarnations group by group, each group sorted.
Before(i, group, t, u) ==
  group[t] < group[u] \/ (group[t] = group[u] /\ Newer(i, t, u))

Orders(i, group, tags) ==
  {order \in SetToSeqs(tags) :
     \A m, n \in DOMAIN order : m < n => Before(i, group, order[m], order[n])}

\* The first of the tags, if there is any.
First(i, group, tags) == {t \in tags : \A u \in tags \ {t} : Before(i, group, t, u)}

OneGroup(i) == [t \in DOMAIN i |-> 0]

Sorted(i) == Orders(i, OneGroup(i), DOMAIN i)

In(i, states) == {t \in DOMAIN i : i[t].state \in states}

DeployedStates == {"deployed", "pendingtest", "testing", "tested", "pendingrelease",
                   "canarying", "canaried"} \cup Live
Deployments(i) == In(i, DeployedStates)

Groups(i)        == [t \in DOMAIN i |-> Group(i[t])]
ReleasableSet(i) == {t \in DOMAIN i : IsReleasable(i[t])}

Releasable(i) == Orders(i, Groups(i), ReleasableSet(i))

\* The incarnation to ramp, found before the ticks.
Ramping(i) == First(i, Groups(i), ReleasableSet(i) \ In(i, Canaries))

\* The first alertable incarnation that has its Revision: one that is canarying or
\* about to be released, or else a live one.
Alertable(i) ==
  First(i, [t \in DOMAIN i |-> IF i[t].state \in Live THEN 2 ELSE 1],
        {t \in In(i, {"canarying", "canaried", "pendingrelease"} \cup Live) : i[t].rev})
-----------------------------------------------------------------------------
(* syncNamespace, by the replicas observed when the reconcile began.       *)

HasReplicas(i, ambient) ==
  \E t \in DOMAIN i : i[t].rev /\ config[t].ambient = ambient /\ replicas[t] = "one"

Newest(i) == CHOOSE t \in First(i, OneGroup(i), DOMAIN i) : TRUE
EffectiveAmbientMesh(i) == i[Newest(i)].rev /\ config[Newest(i)].ambient

\* Mutant: a namespace whose newest revision has a sidecar waits for its replicas.
ModeByReplicas(i) ==
  IF HasReplicas(i, TRUE) /\ HasReplicas(i, FALSE) THEN "transition"
  ELSE IF HasReplicas(i, TRUE)  THEN "ambient"
  ELSE IF HasReplicas(i, FALSE) THEN "sidecar"
  ELSE IF EffectiveAmbientMesh(i) THEN "ambient" ELSE "sidecar"

\* Mutant: the newest revision alone decides.
ModeByNewest(i) == IF EffectiveAmbientMesh(i) THEN "ambient" ELSE "sidecar"

Mode(i) ==
  IF HasReplicas(i, TRUE) /\ (HasReplicas(i, FALSE) \/ ~EffectiveAmbientMesh(i))
  THEN "transition"
  ELSE IF HasReplicas(i, TRUE)  THEN "ambient"
  ELSE IF HasReplicas(i, FALSE) THEN "sidecar"
  ELSE IF EffectiveAmbientMesh(i) THEN "ambient" ELSE "sidecar"

\* EnsureNamespace replaces the labels.
Labels(mode) ==
  [injection |-> mode # "ambient", dataplane |-> mode # "sidecar",
   waypoint |-> mode = "ambient"]

DefaultMin == 2
DefaultMax == 20

\* effectiveWaypointHPA; the default also stands in for a missing target.
EffectiveHPA(i) ==
  LET hpa == config[Newest(i)].hpa
  IN  IF i[Newest(i)].rev /\ hpa.min >= DefaultMin
      THEN [min |-> hpa.min, max |-> IF hpa.max < 1 THEN DefaultMax ELSE hpa.max]
      ELSE [min |-> DefaultMin, max |-> DefaultMax]

\* EnsureWaypointHPA gives way to a maximum below the minimum.
WaypointHPA(hpa) ==
  [min |-> IF hpa.max < hpa.min THEN hpa.max ELSE hpa.min, max |-> hpa.max]

\* Mutant: all of the waypoint's pods must stay available.
WaypointPDBTight(hpa) == [minAvailable |-> hpa.min]

WaypointPDB(hpa) == [minAvailable |-> hpa.min - 1]

\* The overlay carries the resources the newest revision asks for.
WaypointOptions(i) == Put("Options", By(Newest(i)))

EnsureWaypoint == ForceWrite("Gateway", Plain)

WaypointWrites(i) ==
  LET hpa == EffectiveHPA(i)
  IN  <<WaypointOptions(i), EnsureWaypoint, Put("WaypointPDB", WaypointPDB(hpa)),
        Put("WaypointHPA", WaypointHPA(hpa))>>

\* Mutant: the waypoint's HPA is forgotten.
NoWaypointKeepsHPA == <<Del("Gateway"), Del("Options"), Del("WaypointPDB")>>

NoWaypoint == <<Del("Gateway"), Del("Options"), Del("WaypointPDB"), Del("WaypointHPA")>>

SyncNamespace(i) ==
  <<Put("Namespace", Labels(Mode(i)))>>
    \o IF Mode(i) = "sidecar" THEN NoWaypoint ELSE WaypointWrites(i)

\* The token Secret, and the account with the annotations it has.
EnsureServiceAccount ==
  <<Put("ServiceAccount",
        IF Has("ServiceAccount") THEN object["ServiceAccount"].content ELSE By(0))>>

\* The Role, then the RoleBinding.
EnsureRBAC == <<Put("RBAC", Plain)>>
-----------------------------------------------------------------------------
(* tickIncarnations.                                                       *)

Deployment(i, t) ==
  [state |-> i[t].state, cur |-> i[t].cur, peak |-> i[t].peak, elig |-> i[t].elig,
   rev |-> i[t].rev, failed |-> i[t].failed, ext |-> "disabled",
   ready |-> replicas[t] = "one" /\ pod[t] # "none", canaryPending |-> FALSE,
   late |-> FALSE, testLate |-> FALSE, permits |-> TRUE, expired |-> FALSE,
   canaryPercent |-> 0]

\* A sync gives a revision its replicas while it is routable, and the account its
\* role; no handler applies two of the three.
Calls(i, t) ==
  LET calls == Range(Handle(Deployment(i, t)).calls)
  IN  IF "sync" \in calls
      THEN <<ScaleTo(t, IF i[t].state \in {"pendingrelease", "canaried"}
                        THEN "zero" ELSE "one")>>
             \o IF config[t].role THEN <<ForceWrite("ServiceAccount", By(t))>> ELSE <<>>
      ELSE IF "retire" \in calls /\ replicas[t] # "none" THEN <<ScaleTo(t, "zero")>>
      ELSE IF "del" \in calls THEN <<ScaleTo(t, "none")>>
      ELSE <<>>

TickWrites(i, sorted) == FlattenSeq([n \in DOMAIN sorted |-> Calls(i, sorted[n])])

Ticked(i) == [t \in DOMAIN i |-> [i[t] EXCEPT !.state = Handle(Deployment(i, t)).next]]
-----------------------------------------------------------------------------
(* syncApp.                                                                *)

(***************************************************************************)
(* prepareRevisions: what is no longer releasable gets no traffic, and the *)
(* others share it as far as their ramp gates are open.                    *)
(***************************************************************************)
Split0(i) ==
  [inc |-> [t \in DOMAIN i |-> IF IsReleasable(i[t]) THEN i[t]
                               ELSE UpdateCurrentPercent(i[t], 0)],
   weight |-> [t \in DOMAIN i |-> 0], rem |-> 100, panic |-> FALSE]

\* The n-th releasable incarnation is visited, after the ramping one or not.
VisitNth(split, order, n, ramping, open) ==
  Visit(split, order[n], \E m \in 1 .. n - 1 : order[m] \in ramping, order[n] \in open)

Split(i, order, ramping, open) ==
  LET visited[n \in 0 .. Len(order)] ==
        IF n = 0 THEN Split0(i)
        ELSE VisitNth(visited[n - 1], order, n, ramping, open)
  IN  visited[Len(order)]

\* The ramping incarnation, or the first.
Receiver(order, ramping) ==
  CHOOSE t \in IF ramping \cap Range(order) # {} THEN ramping \cap Range(order)
               ELSE {order[1]} : TRUE

PrepareRevisions(i, order, ramping, open) ==
  IF Deployments(i) = {} THEN i
  ELSE IF order = <<>> THEN Split0(i).inc
  ELSE AssignLeftover(Split(i, order, ramping, open), Receiver(order, ramping)).inc

AppIncarnations(i) == In(i, DeployedStates \cup {"deploying"})

AppGroups(i) == [t \in DOMAIN i |-> IF i[t].state = "deploying" THEN 2 ELSE 1]

\* The ports by name, as the first incarnation that has it defines it.
Ports(i) ==
  LET earlier(t) == {u \in AppIncarnations(i) \ {t} : Before(i, AppGroups(i), u, t)}
  IN  UNION {{p \in config[t].ports :
                \A u \in earlier(t) : \A q \in config[u].ports : q.name # p.name} :
             t \in AppIncarnations(i)}

LastTarget(i) ==
  CHOOSE t \in AppIncarnations(i) :
    \A u \in AppIncarnations(i) \ {t} : Before(i, AppGroups(i), u, t)

\* What the VirtualService is built from.  latestTarget is the target of the last.
App(i) ==
  LET planned == Deployments(i) \cup ReleasableSet(i)
  IN  [ports |-> Ports(i), defaults |-> config[LastTarget(i)].defaults,
       weights |-> [t \in planned |-> i[t].cur],
       tagged |-> {t \in planned : /\ config[t].header /\ i[t].rev
                                   /\ i[t].state \notin {"pendingrelease", "canaried"}}]

\* AlertRules of the newest alertable revision.
AlertRule(i) ==
  LET from == {t \in Alertable(i) : config[t].alerts}
  IN  IF from = {} THEN Del("AlertRule") ELSE Put("AlertRule", By(CHOOSE t \in from : TRUE))

Service(app)         == Put("Service", app.ports)
Sidecar              == Put("Sidecar", Plain)
DestinationRule(app) == Put("DestinationRule", DOMAIN app.weights)

\* SyncApp.Apply: the Service comes before anything is deployed.
SyncApp(i) ==
  LET app == App(i)
  IN  IF app.ports = {} THEN <<>>
      ELSE <<Service(app), Sidecar>>
           \o IF Deployments(i) = {} THEN <<>>
              ELSE <<DestinationRule(app), AlertRule(i)>>
                   \o IF HasRoutes(app) THEN <<Put("VirtualService", app)>> ELSE <<>>

AppWrites(i) ==
  IF AppIncarnations(i) = {} THEN <<>> ELSE SyncApp(i)
-----------------------------------------------------------------------------
(* The monitoring.                                                         *)

\* prepareServiceMonitors
MonitorSource(i) ==
  {t \in Alertable(i) : Deployments(i) # {} /\ config[t].monitors # "none"}

ServiceMonitor(t) ==
  Put("ServiceMonitor", [by |-> t, labelled |-> config[t].monitors = "labelled"])

\* The delete selects a label that only users may have set.
SyncServiceMonitors(i) ==
  IF MonitorSource(i) = {} THEN <<DelLabelled("ServiceMonitor")>>
  ELSE <<ServiceMonitor(CHOOSE t \in MonitorSource(i) : TRUE)>>

\* prepareServiceLevelObjectives: the revision whose SLOs are observed, if any.
SLOSource(i) ==
  {t \in First(i, Groups(i), {u \in ReleasableSet(i) : i[u].rev}) :
     Deployments(i) # {} /\ config[t].slos}

SLORule(t)      == Put("SLORule", By(t))
ServiceLevel(t) == Put("ServiceLevel", By(t))

\* Mutant: the rules are synced with the newest SLOs, but never deleted.
SyncSLORulesOnly(i) ==
  IF SLOSource(i) = {} THEN <<>> ELSE <<SLORule(CHOOSE t \in SLOSource(i) : TRUE)>>

SyncSLORules(i) ==
  IF SLOSource(i) = {} THEN <<Del("SLORule")>>
  ELSE <<SLORule(CHOOSE t \in SLOSource(i) : TRUE)>>

\* The shared namespace is ensured first; it is never deleted.
SyncServiceLevels(i) ==
  IF ~ServiceLevels THEN <<>>
  ELSE IF SLOSource(i) = {} THEN <<Del("ServiceLevel")>>
  ELSE <<ServiceLevel(CHOOSE t \in SLOSource(i) : TRUE)>>

\* Mutant: the ServiceLevel is not deleted with the manager.
LeaveAtOnce(i) == <<>>

\* What is left to write before the manager deletes itself.
Leave(i) == SyncServiceLevels(i)
-----------------------------------------------------------------------------
(* The reconcile.                                                          *)

\* The ramp gates CanRampTo may leave open: it needs a running pod at least.
Gates(i) == {{}, {t \in DOMAIN i : i[t].rev /\ pod[t] # "none"}}

Begin ==
  /\ pc = "idle" /\ manager = "alive"
  /\ \E i \in {Current} :
       IF \E t \in DOMAIN i : i[t].rev
       THEN \E sorted \in Sorted(i), order \in Releasable(Ticked(i)), open \in Gates(i) :
              \E j \in {PrepareRevisions(Ticked(i), order, Ramping(i), open)} :
                /\ pc' = "writing" /\ inc' = j
                /\ todo' = SyncNamespace(i) \o EnsureServiceAccount \o EnsureRBAC
                             \o TickWrites(i, sorted) \o AppWrites(j) \o SyncServiceMonitors(j)
                             \o SyncSLORules(j) \o SyncServiceLevels(j)
       ELSE pc' = "leaving" /\ inc' = i /\ todo' = Leave(i)
  /\ UNCHANGED <<config, revision, manager, orphaned, status, events, cluster>>

\* Pods follow their ReplicaSet.
Scaled(w) ==
  /\ replicas' = IF w.op = "scale" THEN [replicas EXCEPT ![w.tag] = w.replicas] ELSE replicas
  /\ pod' = IF w.op = "scale" /\ w.replicas # "one" THEN [pod EXCEPT ![w.tag] = "none"] ELSE pod

Write ==
  /\ todo # <<>>
  /\ object' = Effect(object, Head(todo))
  /\ Scaled(Head(todo))
  /\ todo' = Tail(todo)
  /\ UNCHANGED <<config, revision, manager, orphaned, status, pc, inc, events>>

\* What follows SyncApp when it ends after the AlertRule.
AfterSyncApp(writes) ==
  IF writes # <<>> /\ Head(writes).kind = "VirtualService" THEN Tail(writes) ELSE writes

(***************************************************************************)
(* A write that fails ends the reconcile; only a PrometheusRule that       *)
(* cannot be deleted ends SyncApp alone, as if it were done.               *)
(***************************************************************************)
WriteFails ==
  /\ todo # <<>>
  /\ Event
  /\ IF Head(todo) = Del("AlertRule")
     THEN todo' = AfterSyncApp(Tail(todo)) /\ UNCHANGED <<pc, inc>>
     ELSE todo' = <<>> /\ pc' = "idle" /\ inc' = <<>>
  /\ UNCHANGED <<config, revision, manager, orphaned, status, cluster>>

\* deleted incarnations without a Revision are dropped.
Kept == {t \in DOMAIN inc : inc[t].rev \/ inc[t].state # "deleted"}

GoodRelease(i) ==
  /\ i.state \in {"deploying", "deployed", "pendingrelease"} \cup Live
  /\ ~i.failed /\ i.peak > 0

\* Without a good release the newest retired or retiring one is recommissioned.
Recommissioned ==
  IF \E t \in Kept : GoodRelease(inc[t]) THEN {}
  ELSE First(inc, OneGroup(inc), In(inc, {"retired", "retiring"}))

StatusOf(t) ==
  LET again == t \in Recommissioned
  IN  [state |-> inc[t].state, cur |-> inc[t].cur,
       peak |-> IF again THEN 100 ELSE inc[t].peak, elig |-> again \/ inc[t].elig]

Finish ==
  /\ pc = "writing" /\ todo = <<>>
  /\ status' = [t \in Kept |-> StatusOf(t)]
  /\ pc' = "idle" /\ inc' = <<>>
  /\ UNCHANGED <<config, revision, manager, orphaned, todo, events, cluster>>

\* The manager is deleted, and persists an empty status.
DeleteSelf ==
  /\ pc = "leaving" /\ todo = <<>>
  /\ manager' = "deleting" /\ orphaned' = FALSE /\ status' = <<>>
  /\ pc' = "idle" /\ inc' = <<>>
  /\ UNCHANGED <<config, revision, todo, events, cluster>>

\* DeleteApp: the namespace takes everything in it along, which is all but the
\* ServiceLevel; then the finalizer goes.
Finalize ==
  /\ manager = "deleting" /\ pc = "idle"
  /\ object' = Without(object, DOMAIN object \ {"ServiceLevel"})
  /\ replicas' = [t \in Tags |-> "none"] /\ pod' = [t \in Tags |-> "none"]
  /\ manager' = "none" /\ status' = <<>>
  /\ UNCHANGED <<config, revision, orphaned, pc, inc, todo, events>>
-----------------------------------------------------------------------------
(* Users, and the cluster.  A reconcile reads the Revisions once, when it  *)
(* starts: an edit while it runs is an edit after it.                      *)

SetRevision(t, v) ==
  /\ pc = "idle"
  /\ revision' = [revision EXCEPT ![t] = v]
  /\ UNCHANGED <<config, reconcile, cluster>>

CreateRevision(t) == revision[t] = "absent" /\ SetRevision(t, "good") /\ UNCHANGED events

EditRevision(t) ==
  /\ \/ "delete" \in Events /\ revision[t] # "absent" /\ SetRevision(t, "absent")
     \/ "fail" \in Events /\ revision[t] = "good" /\ SetRevision(t, "failed")
     \/ "unfail" \in Events /\ revision[t] = "failed" /\ SetRevision(t, "good")
  /\ Event

\* The revision controller.
CreateManager ==
  /\ manager = "none" /\ Present # {}
  /\ manager' = "alive"
  /\ UNCHANGED <<config, revision, orphaned, status, pc, inc, todo, events, cluster>>

RemoveManager ==
  /\ "remove" \in Events /\ manager = "alive" /\ pc = "idle"
  /\ manager' = "deleting" /\ orphaned' = TRUE
  /\ Event
  /\ UNCHANGED <<config, revision, status, pc, inc, todo, cluster>>

Ignore(kind) ==
  /\ "ignore" \in Events /\ Has(kind) /\ ~object[kind].ignored
  /\ object' = [object EXCEPT ![kind].ignored = TRUE]
  /\ Event
  /\ UNCHANGED <<config, revision, replicas, pod, reconcile>>

StartPod(t) ==
  /\ replicas[t] = "one" /\ pod[t] = "none" /\ Has("Namespace")
  /\ pod' = [pod EXCEPT ![t] = IF object["Namespace"].content.injection
                               THEN "injected" ELSE "plain"]
  /\ UNCHANGED <<config, revision, object, replicas, reconcile, events>>

RestartPod(t) ==
  /\ "restart" \in Events /\ pod[t] # "none"
  /\ pod' = [pod EXCEPT ![t] = "none"]
  /\ Event
  /\ UNCHANGED <<config, revision, object, replicas, reconcile>>
-----------------------------------------------------------------------------
Init ==
  /\ config \in Configs
  /\ revision = [t \in Tags |-> "absent"]
  /\ manager = "none" /\ orphaned = FALSE /\ status = <<>> /\ object = <<>>
  /\ replicas = [t \in Tags |-> "none"] /\ pod = [t \in Tags |-> "none"]
  /\ pc = "idle" /\ inc = <<>> /\ todo = <<>> /\ events = 0

Next ==
  \/ Begin \/ Write \/ WriteFails \/ Finish \/ DeleteSelf \/ Finalize
  \/ CreateManager \/ RemoveManager
  \/ \E kind \in Ignorable : Ignore(kind)
  \/ \E t \in Tags : CreateRevision(t) \/ EditRevision(t) \/ StartPod(t) \/ RestartPod(t)

Spec == Init /\ [][Next]_vars

(***************************************************************************)
(* Every reconcile ends in a requeue, and a manager is requeued until it   *)
(* is gone; the ReplicaSets start their pods.  Requeued is WF_vars(Begin): *)
(* Begin needs no more than its guard, and ends it.                        *)
(***************************************************************************)
Requeued == []<>~(pc = "idle" /\ manager = "alive")

Fairness ==
  /\ Requeued /\ WF_vars(Write) /\ WF_vars(Finish)
  /\ WF_vars(DeleteSelf) /\ WF_vars(Finalize) /\ WF_vars(CreateManager)
  /\ \A t \in Tags : WF_vars(StartPod(t))

FairSpec == Spec /\ Fairness
-----------------------------------------------------------------------------
\* Types; a manager that is gone has no status, and no pod runs without a namespace.
TypeOK ==
  /\ config \in Configs /\ \A t \in Tags : config[t] \in Config
  /\ revision \in [Tags -> {"absent", "good", "failed"}]
  /\ manager \in {"none", "alive", "deleting"} /\ orphaned \in BOOLEAN
  /\ manager = "none" => DOMAIN status = {}
  /\ \A t \in DOMAIN status : status[t].state \in States /\ status[t].cur \in 0 .. 100
  /\ DOMAIN object \subseteq Kinds
  /\ replicas \in [Tags -> {"none", "zero", "one"}]
  /\ pod \in [Tags -> {"none", "plain", "injected"}]
  /\ \A t \in Tags : pod[t] # "none" => replicas[t] = "one" /\ Has("Namespace")
  /\ pc \in {"idle", "writing", "leaving"} /\ events \in 0 .. MaxEvents

\* The pods of the newest revision get their sidecars: when a reconcile gives it
\* replicas, injection is on, although older revisions may still be ambient and the
\* new one had no replica the mode could be seen from (syncNamespace's second case).
NewestInjected ==
  [][\A t \in DOMAIN inc :
       /\ replicas[t] # "one" /\ replicas'[t] = "one"
       /\ t = Newest(inc) /\ ~config[t].ambient /\ ~object["Namespace"].ignored
       => object["Namespace"].content.injection]_vars

\* A reconcile removes the waypoint only when none of the revisions it knows is
\* ambient and has replicas, also when the newest revision has left the mesh.
WaypointKept ==
  [][pc = "writing" /\ Has("Gateway") /\ ~Has("Gateway")' =>
       \A t \in DOMAIN inc : inc[t].rev /\ config[t].ambient => replicas[t] # "one"]_vars

\* A manager that is gone leaves nothing: the namespace takes its objects along, and
\* the ServiceLevel, which is in another one, is deleted before the manager deletes
\* itself.  (A manager that a user removes leaves it behind.)
NothingLeft ==
  manager = "none" => DOMAIN object \subseteq IF orphaned THEN {"ServiceLevel"} ELSE {}

\* The targets agree on their ports: ports of different names have different numbers
\* and share no host, and no target has two of a name.
PortsApart ==
  \A c \in Configs : \A t, u \in Tags : \A p \in c[t].ports, q \in c[u].ports :
    /\ p.name # q.name => p.number # q.number /\ p.hosts \cap q.hosts = {}
    /\ t = u /\ p.name = q.name => p = q

\* What a new VirtualService does to a request is settled by the request: it lands on
\* one port, whatever hosts the ports share with the defaults of the ingress, and one
\* that names a routable tag meets no other revision.
RequestsLand ==
  [][Has("VirtualService")' /\ (Has("VirtualService") => object'["VirtualService"] # object["VirtualService"]) =>
       \A app \in {object'["VirtualService"].content} : \A routes \in {Routes(app)} :
         \A request \in Requests(Tags, app.ports) : \A taking \in {Taking(routes, request)} :
           /\ Cardinality({r.port : r \in taking}) <= 1
           /\ request.header \in app.tagged =>
                \A r \in taking : DOMAIN r.to = {request.header}]_vars

Untouched == manager = "alive" /\ \A kind \in DOMAIN object : ~object[kind].ignored

AmbientServes == \E t \in Present : config[t].ambient /\ replicas[t] = "one"
SidecarServes == \E t \in Present : ~config[t].ambient /\ replicas[t] = "one"

\* All of the waypoint is there, and its budget lets one of its pods be evicted,
\* unless the target asks for a maximum below its minimum.
WaypointComplete ==
  /\ Present # {} /\ WaypointKinds \subseteq DOMAIN object
  /\ LET hpa == config[Max(Present)].hpa
     IN  hpa.max = 0 \/ hpa.min <= hpa.max =>
           object["WaypointPDB"].content.minAvailable < object["WaypointHPA"].content.min

\* The waypoint is there as long as revisions are ambient, and goes with the last one,
\* whatever failed on the way.
WaypointFollows ==
  /\ <>[](Untouched /\ AmbientServes) => <>[]WaypointComplete
  /\ <>[](Untouched /\ SidecarServes /\ ~AmbientServes)
       => <>[](WaypointKinds \cap DOMAIN object = {})

\* t is the only release.
Released(t) ==
  /\ Untouched /\ t \in DOMAIN status /\ status[t].state = "released" /\ t \in Present
  /\ \A u \in DOMAIN status \ {t} : ~IsReleasable(status[u])

Follows(kind, t, wanted) ==
  IF wanted THEN Has(kind) /\ object[kind].content.by = t ELSE ~Has(kind)

\* The routes, the alerts and the monitoring end up with the revision that is
\* released: what an older one had goes when the new one has none, and routes that a
\* failed delete skipped are written.  (ServiceMonitors without the app's label stay.)
ReleaseSettles ==
  \A t \in Tags : <>[]Released(t) =>
    <>[](/\ Has("VirtualService")
         /\ Weighted(object["VirtualService"].content) = {t}
         /\ Follows("AlertRule", t, config[t].alerts)
         /\ Follows("SLORule", t, config[t].slos)
         /\ ServiceLevels => Follows("ServiceLevel", t, config[t].slos)
         /\ config[t].monitors # "none" => Follows("ServiceMonitor", t, TRUE))
=============================================================================
