--------------------------- MODULE ReleaseManager ---------------------------
(***************************************************************************)
(* One ReleaseManager (an app in a target) and the reconcile loop that     *)
(* drives it: controllers/releasemanager_controller.go, syncer.go and      *)
(* incarnation.go, over the handlers of state.go and the traffic split of  *)
(* prepareRevisions.                                                       *)
(*                                                                         *)
(* A reconcile reads the Revisions and the ReplicaSets once (Begin), ticks *)
(* every incarnation in turn (Tick), observes again and writes the routes  *)
(* (RouteSubsets, RouteWeights), and only then persists the status         *)
(* (Persist).  The plans take effect one at a time; an error or a crash    *)
(* between any two loses the in-memory status and nothing else (Abort).    *)
(* In between, users and CI change Revisions and the cluster starts, loses *)
(* and restarts pods.                                                      *)
(*                                                                         *)
(* Tags are numbers, newer revisions have larger ones.  The fleet has one  *)
(* cluster.  Timers are nondeterministic choices, except that a canary's   *)
(* TTL stays elapsed.                                                      *)
(***************************************************************************)
EXTENDS TrafficSplit, Handlers, GarbageCollector

CONSTANTS
  ExtTests,     \* the external-test settings a Revision may be created with
  EligChoices,  \* the Release.Eligible settings a Revision may have
  Timeouts,     \* what the deadlines of the handlers may read
  Schedules,    \* what the release schedule may answer
  Expirations,  \* whether a revision's TTL may be up
  Events,       \* which of the events in EventKinds happen
  CommitTTLs,   \* whether the TTL since a revision's commit may be up
  Headers       \* the tags whose Revision has a TagRoutingHeader

Tags == Incarnations

EventKinds == {"delete", "recreate", "fail", "unfail", "abort", "losePods"}

ASSUME TagsAssumption == Tags \subseteq Nat /\ IsFiniteSet(Tags)
ASSUME EnvironmentAssumption ==
  /\ ExtTests \subseteq ExternalTestStatuses
  /\ EligChoices \subseteq BOOLEAN
  /\ Timeouts \subseteq BOOLEAN /\ Schedules \subseteq BOOLEAN
  /\ Expirations \subseteq BOOLEAN /\ CommitTTLs \subseteq BOOLEAN
  /\ Events \subseteq EventKinds
  /\ Headers \subseteq Tags

VARIABLES
  revision,     \* tag -> Revision object, for the revisions that exist
  manager,      \* the ReleaseManager object: "absent", "alive" or "deleting"
  status,       \* tag -> its persisted ReleaseManagerRevisionStatus
  replicaSet,   \* "none", "zero" replicas, "starting" or "ready"
  canaryRules,  \* the tags whose canary PrometheusRules exist
  subsets,      \* the tags the DestinationRule has a subset for
  mesh,         \* the weight of each tag in the VirtualService
  pc,           \* where the reconcile is
  inc,          \* tag -> Incarnation, in memory, during a reconcile
  ramping,      \* the set holding the incarnation with isRamping, or {}
  todo,         \* the incarnations still to tick
  plan,         \* the weights of the SyncApp plan being applied
  everEligible  \* history: the tags whose Revision was ever Release.Eligible

cluster == <<replicaSet, canaryRules, subsets, mesh>>
memory  == <<pc, inc, ramping, todo, plan>>
vars == <<revision, manager, status, cluster, memory, everEligible>>

Empty == [t \in {} |-> t]

NoWeights == [t \in Tags |-> 0]

RevisionSpec == [elig : BOOLEAN, failed : BOOLEAN, failedAt : BOOLEAN,
                 ext : ExternalTestStatuses, deletable : BOOLEAN]

Status == [state : States, cur : 0 .. 100, peak : 0 .. 100, elig : BOOLEAN,
           canary : {"unset", "running", "over"}]

Up == {"starting", "ready"}

\* IncarnationCollection.deployed
DeployedStates == {"deployed", "pendingtest", "testing", "tested", "pendingrelease",
                   "releasing", "released", "canarying", "canaried"}
-----------------------------------------------------------------------------
(* Revisions, as users, CI and the revision controller change them.        *)

\* "recreate": a tag may come back before the manager has forgotten it.
CreateRevision(t) ==
  /\ t \notin DOMAIN revision
  /\ t \notin DOMAIN status \/ "recreate" \in Events
  /\ \E e \in EligChoices, x \in ExtTests :
       /\ revision' = [u \in DOMAIN revision \cup {t} |->
            IF u = t THEN [elig |-> e, failed |-> FALSE, failedAt |-> FALSE, ext |-> x,
                           deletable |-> FALSE]
            ELSE revision[u]]
       /\ everEligible' = IF e THEN everEligible \cup {t} ELSE everEligible
  /\ UNCHANGED <<manager, status, cluster, memory>>

DeleteRevision(t) ==
  /\ "delete" \in Events
  /\ t \in DOMAIN revision
  /\ revision' = Restrict(revision, DOMAIN revision \ {t})
  /\ UNCHANGED <<manager, status, cluster, memory, everEligible>>

\* RevisionReconciler.deleteIfMarked; the other targets have marked the Revision.
DeleteMarked(t) ==
  /\ t \in DOMAIN revision /\ revision[t].deletable
  /\ revision' = Restrict(revision, DOMAIN revision \ {t})
  /\ UNCHANGED <<manager, status, cluster, memory, everEligible>>

SetEligible(t) ==
  /\ t \in DOMAIN revision
  /\ \E e \in EligChoices :
       /\ e # revision[t].elig
       /\ revision' = [revision EXCEPT ![t].elig = e]
       /\ everEligible' = IF e THEN everEligible \cup {t} ELSE everEligible
  /\ UNCHANGED <<manager, status, cluster, memory>>

\* Revision.Fail sets Spec.Failed and the failed-at annotation.
Fail(t) ==
  /\ "fail" \in Events
  /\ t \in DOMAIN revision /\ ~revision[t].failed
  /\ revision' = [revision EXCEPT ![t].failed = TRUE, ![t].failedAt = TRUE]
  /\ UNCHANGED <<manager, status, cluster, memory, everEligible>>

\* A user clears Spec.Failed; nothing clears the annotation.
Unfail(t) ==
  /\ "unfail" \in Events
  /\ t \in DOMAIN revision /\ revision[t].failed
  /\ revision' = [revision EXCEPT ![t].failed = FALSE]
  /\ UNCHANGED <<manager, status, cluster, memory, everEligible>>

TestProgress(t) ==
  /\ t \in DOMAIN revision
  /\ \E x \in ExternalTestStatuses :
       /\ <<revision[t].ext, x>> \in
            {<<"pending", "started">>, <<"started", "failed">>, <<"started", "succeeded">>}
       /\ revision' = [revision EXCEPT ![t].ext = x]
  /\ UNCHANGED <<manager, status, cluster, memory, everEligible>>

\* RevisionReconciler.getOrCreateReleaseManager
CreateManager ==
  /\ manager = "absent" /\ revision # Empty
  /\ manager' = "alive"
  /\ UNCHANGED <<revision, status, cluster, memory, everEligible>>
-----------------------------------------------------------------------------
(* The cluster and the clock.                                              *)

PodsReady(t) ==
  /\ replicaSet[t] = "starting"
  /\ replicaSet' = [replicaSet EXCEPT ![t] = "ready"]
  /\ UNCHANGED <<revision, manager, status, canaryRules, subsets, mesh, memory, everEligible>>

PodsLost(t) ==
  /\ "losePods" \in Events
  /\ \/ replicaSet[t] = "ready" /\ replicaSet' = [replicaSet EXCEPT ![t] = "starting"]
     \/ replicaSet[t] # "none" /\ replicaSet' = [replicaSet EXCEPT ![t] = "none"]
  /\ UNCHANGED <<revision, manager, status, canaryRules, subsets, mesh, memory, everEligible>>

CanaryTTLPasses(t) ==
  /\ t \in DOMAIN status /\ status[t].canary = "running"
  /\ status' = [status EXCEPT ![t].canary = "over"]
  /\ UNCHANGED <<revision, manager, cluster, memory, everEligible>>
-----------------------------------------------------------------------------
(* The incarnations in memory.                                             *)

NewStatus == [state |-> "created", cur |-> 0, peak |-> 0, elig |-> FALSE,
              canary |-> "unset"]

\* Incarnation.update: what an observation of the ReplicaSet changes.
Update(i, r) ==
  [i EXCEPT !.cur = IF r = "none" THEN 0 ELSE @,
            !.ready = (r = "ready"),
            !.up = (r \in Up)]

\* Mutant: a deploying incarnation keeps the eligibility of its status.
EligibleOnceCreated(t, s) ==
  IF s.state # "created" THEN s.elig ELSE t \in DOMAIN revision /\ revision[t].elig

\* Only created and deploying incarnations take eligibility from the Revision.
Eligible(t, s) ==
  IF s.state \notin {"created", "deploying"} THEN s.elig
  ELSE t \in DOMAIN revision /\ revision[t].elig

NewIncarnation(t) ==
  LET rev == t \in DOMAIN revision
      s   == IF t \in DOMAIN status THEN status[t] ELSE NewStatus
      i == [state |-> s.state, cur |-> s.cur, peak |-> s.peak, elig |-> Eligible(t, s),
            canary |-> s.canary, rev |-> rev,
            failed |-> rev /\ revision[t].failed,
            failedAt |-> rev /\ revision[t].failedAt,
            ext |-> IF rev THEN revision[t].ext ELSE "disabled",
            ready |-> FALSE, up |-> FALSE]
  IN  Update(i, replicaSet[t])

\* The git timestamps tell t from u, and t is the newer.
Newer(c, t, u) == c[t].rev /\ (c[u].rev => t > u)

(***************************************************************************)
(* IncarnationCollection.sorted: newest first.  Incarnations without a     *)
(* Revision have no timestamp: they come last, in any order, which may be  *)
(* another one at every call.                                              *)
(***************************************************************************)
Sorted(c) ==
  {s \in SetToSeqs(DOMAIN c) : \A m, n \in DOMAIN s : m < n => ~Newer(c, s[n], s[m])}

Before(c, t, u) ==
  \/ Group(c[t]) < Group(c[u])
  \/ Group(c[t]) = Group(c[u]) /\ Newer(c, t, u)

\* IncarnationCollection.releasable: the orders its list may have.
Releasable(c) ==
  {order \in SetToSeqs({t \in DOMAIN c : IsReleasable(c[t])}) :
     \A m, n \in DOMAIN order : m < n => ~Before(c, order[n], order[m])}

\* The first releasable incarnation that is not a canary.
Ramping(c, order) ==
  LET mayRamp == {n \in DOMAIN order : c[order[n]].state \notin {"canaried", "canarying"}}
  IN  {order[n] : n \in {n \in mayRamp : \A m \in mayRamp : n <= m}}

Begin ==
  /\ pc = "idle" /\ manager = "alive" /\ revision # Empty
  /\ inc' = [t \in DOMAIN revision \cup DOMAIN status |-> NewIncarnation(t)]
  /\ \E order \in Releasable(inc') : ramping' = Ramping(inc', order)
  /\ todo' = DOMAIN inc'
  /\ pc' = "tick"
  /\ UNCHANGED <<revision, manager, status, cluster, plan, everEligible>>

\* sync: no Revision left, the ReleaseManager deletes itself and drops its status.
DeleteSelf ==
  /\ pc = "idle" /\ manager = "alive" /\ revision = Empty
  /\ manager' = "deleting"
  /\ status' = Empty
  /\ UNCHANGED <<revision, cluster, memory, everEligible>>

\* Reconcile of a deleted ReleaseManager: delete the namespace, then finalize.
Finalize ==
  /\ pc = "idle" /\ manager = "deleting"
  /\ manager' = "absent"
  /\ status' = Empty
  /\ replicaSet' = [t \in Tags |-> "none"]
  /\ mesh' = NoWeights
  /\ canaryRules' = {} /\ subsets' = {}
  /\ UNCHANGED <<revision, memory, everEligible>>
-----------------------------------------------------------------------------
(* Ticks.                                                                  *)

CanaryPending(t, i) == CanaryPercent[t] > 0 /\ i.canary # "over"

Deployment(t, late, testLate, permits, expired) ==
  LET i == inc[t]
  IN  [state |-> i.state, cur |-> i.cur, peak |-> i.peak, elig |-> i.elig, rev |-> i.rev,
       failed |-> i.failed, ext |-> i.ext, ready |-> i.ready,
       canaryPercent |-> CanaryPercent[t], canaryPending |-> CanaryPending(t, i),
       late |-> late, testLate |-> testLate, permits |-> permits, expired |-> expired]

\* Mutant: a canarying incarnation is scaled like one that waits.
RoutableOnceReleased(i) == i.state \notin {"canarying", "canaried", "pendingrelease"}

IsRoutable(i) == i.state \notin {"canaried", "pendingrelease"}

\* plan.CreateOrUpdate of a ReplicaSet: replicas change only from and to zero.
CreateOrUpdate(r, replicas) ==
  IF replicas = 0 THEN "zero" ELSE IF r \in Up THEN r ELSE "starting"

\* The plans that touch the ReplicaSet r of a revision.
SyncRevision(r, replicas) == CreateOrUpdate(r, replicas)
RetireRevision(r) == IF r \in Up THEN "zero" ELSE r
DeleteRevisionPlan(r) == "none"

\* Incarnation.sync; the number of replicas matters as far as it is zero.
Sync(r, i) ==
  IF ~i.rev THEN r ELSE SyncRevision(r, IF IsRoutable(i) THEN 1 ELSE 0)

\* The replica set after the plans `done` of incarnation i, one of which may touch it.
ReplicaSetAfter(r, i, done) ==
  CASE "sync" \in done   -> Sync(r, i)
    [] "retire" \in done -> RetireRevision(r)
    [] "del" \in done    -> DeleteRevisionPlan(r)
    [] OTHER             -> r

SyncCanaryRules(rules, t) == rules \cup {t}
DeleteCanaryRules(rules, t) == rules \ {t}

CanaryRulesAfter(rules, t, done) ==
  CASE "syncCanaryRules" \in done   -> SyncCanaryRules(rules, t)
    [] "deleteCanaryRules" \in done -> DeleteCanaryRules(rules, t)
    [] OTHER                        -> rules

\* The first n plans of a handler are applied.
Apply(t, calls, n) ==
  LET done == {calls[m] : m \in 1 .. n}
  IN  /\ replicaSet' = [replicaSet EXCEPT ![t] = ReplicaSetAfter(@, inc[t], done)]
      /\ canaryRules' = CanaryRulesAfter(canaryRules, t, done)

SetState(i, state) ==
  [i EXCEPT !.state = state,
            !.canary = IF state = "canarying" /\ @ = "unset" /\ i.cur > 0
                       THEN "running" ELSE @]

NextToTick(t) == \A u \in todo : ~Newer(inc, u, t)

Forget ==
  /\ pc' = "idle"
  /\ inc' = Empty /\ ramping' = {} /\ todo' = {} /\ plan' = NoWeights

Tick ==
  /\ pc = "tick"
  /\ \E t \in todo : \E late, testLate \in Timeouts, permits \in Schedules,
                        expired \in Expirations :
       LET h == Handle(Deployment(t, late, testLate, permits, expired))
       IN  /\ NextToTick(t)
           /\ Apply(t, h.calls, Len(h.calls))
           /\ inc' = [inc EXCEPT ![t] = SetState(@, h.next)]
           /\ todo' = todo \ {t}
           /\ pc' = IF todo' = {} THEN "route" ELSE "tick"
  /\ UNCHANGED <<revision, manager, status, subsets, mesh, ramping, plan, everEligible>>

\* A plan of the handler fails after it, or some of its predecessors, took effect.
TickFails ==
  /\ "abort" \in Events /\ pc = "tick"
  /\ \E t \in todo : \E late, testLate \in Timeouts, permits \in Schedules,
                        expired \in Expirations :
       LET h == Handle(Deployment(t, late, testLate, permits, expired))
       IN  /\ NextToTick(t)
           /\ \E n \in 1 .. Len(h.calls) : Apply(t, h.calls, n)
  /\ Forget
  /\ UNCHANGED <<revision, manager, status, subsets, mesh, everEligible>>
-----------------------------------------------------------------------------
(* Routes.                                                                 *)

Observed == [t \in DOMAIN inc |-> Update(inc[t], replicaSet[t])]

\* Incarnations that are no longer releasable get 0%.
Settled(i) == IF IsReleasable(i) THEN i ELSE UpdateCurrentPercent(i, 0)

\* The incarnation at position n comes after the ramping one.
After(order, n) == \E m \in 1 .. n - 1 : order[m] \in ramping

\* open: the incarnations whose ramp gate is open.  The split after n of the list.
Visits(c, order, open) ==
  LET split[n \in 0 .. Len(order)] ==
        IF n = 0
        THEN [inc |-> [t \in DOMAIN c |-> Settled(c[t])], weight |-> NoWeights,
              rem |-> 100, panic |-> FALSE]
        ELSE Visit(split[n - 1], order[n], After(order, n), order[n] \in open)
  IN  split

Receiver(order) ==
  IF ramping \cap ToSet(order) # {} THEN CHOOSE t \in ramping \cap ToSet(order) : TRUE
  ELSE order[1]

PrepareRevisions(c, order, open) ==
  LET split == Visits(c, order, open)[Len(order)]
  IN  IF split.rem > 0 /\ order # <<>> THEN AssignLeftover(split, Receiver(order)) ELSE split

DeployedTags(c) == {t \in DOMAIN c : c[t].state \in DeployedStates}

\* Mutant: incarnations that left the released states are not in the plan.
PlannedDeployedOnly(c) == DeployedTags(c)

\* The revisions of the SyncApp plan.
PlannedTags(c) == DeployedTags(c) \cup {t \in DOMAIN c : IsReleasable(c[t])}

(***************************************************************************)
(* observe and syncApp.  Without a deployed incarnation there is nothing   *)
(* to split, and SyncApp stops before the routes; otherwise it writes the  *)
(* DestinationRule and then the VirtualService.  CanRampTo needs a         *)
(* running replica at least.                                               *)
(***************************************************************************)
RouteSubsets ==
  /\ pc = "route"
  /\ \E order \in Releasable(Observed),
        open \in SUBSET {t \in DOMAIN inc : inc[t].rev /\ replicaSet[t] \in Up} :
       LET c == Observed
           split == PrepareRevisions(c, order, open)
       IN  IF DeployedTags(c) = {}
           THEN /\ inc' = c
                /\ pc' = "collect"
                /\ UNCHANGED <<subsets, plan>>
           ELSE /\ inc' = split.inc
                /\ subsets' = PlannedTags(c)
                /\ plan' = split.weight
                /\ pc' = "weights"
  /\ UNCHANGED <<revision, manager, status, replicaSet, canaryRules, mesh, ramping, todo,
                 everEligible>>

\* Mutant: the routes are merged, a weight of zero does not remove one.
RouteWeightsMerged ==
  /\ pc = "weights"
  /\ mesh' = [t \in Tags |-> IF plan[t] = 0 THEN mesh[t] ELSE plan[t]]
  /\ pc' = "collect"
  /\ UNCHANGED <<revision, manager, status, replicaSet, canaryRules, subsets, inc, ramping,
                 todo, plan, everEligible>>

\* Zero weights have no release route; a tagged route has its own subset and no
\* part in the weights.
ReleaseRoutes == {t \in Tags : plan[t] > 0}
TaggedRoutes  == {t \in PlannedTags(inc) \cap Headers : inc[t].rev /\ IsRoutable(inc[t])}

\* A VirtualService without a route is not written.
RouteWeights ==
  /\ pc = "weights"
  /\ mesh' = IF ReleaseRoutes \cup TaggedRoutes = {} THEN mesh ELSE plan
  /\ pc' = "collect"
  /\ UNCHANGED <<revision, manager, status, replicaSet, canaryRules, subsets, inc, ramping,
                 todo, plan, everEligible>>
-----------------------------------------------------------------------------
(* The end of sync, and the status update.                                 *)

(***************************************************************************)
(* markGarbage labels the Revisions of this target's garbage; nothing ever *)
(* removes the label.  A label that cannot be written is only logged.      *)
(***************************************************************************)
Collect ==
  /\ pc = "collect"
  /\ \E sorted \in Sorted(inc), expired \in SUBSET DOMAIN inc :
       /\ \A t \in DOMAIN inc :
            (t \in expired) \in (IF inc[t].rev THEN CommitTTLs ELSE {TRUE})
       /\ LET garbage == {t \in FindGarbage(inc, expired, sorted) : inc[t].rev}
          IN  \E marked \in IF "abort" \in Events THEN SUBSET garbage ELSE {garbage} :
                revision' = [t \in DOMAIN revision |->
                  [revision[t] EXCEPT !.deletable = @ \/ t \in marked]]
  /\ pc' = "persist"
  /\ UNCHANGED <<manager, status, cluster, inc, ramping, todo, plan, everEligible>>

\* deleted incarnations without a Revision are dropped.
Kept(c) == {t \in DOMAIN c : c[t].rev \/ c[t].state # "deleted"}

GoodRelease(i) ==
  /\ i.state \in {"deploying", "deployed", "pendingrelease", "releasing", "released"}
  /\ ~i.failedAt /\ i.peak > 0

\* Without a good release the newest retired or retiring one is recommissioned.
Recommissioned(c) ==
  LET candidates == {t \in DOMAIN c : c[t].state \in {"retired", "retiring"}}
  IN  {t \in candidates : /\ \A u \in Kept(c) : ~GoodRelease(c[u])
                          /\ \A u \in candidates : ~Newer(c, u, t)}

StatusOf(i) ==
  [state |-> i.state, cur |-> i.cur, peak |-> i.peak, elig |-> i.elig, canary |-> i.canary]

Statuses == [t \in Kept(inc) |-> StatusOf(inc[t])]

Persist ==
  /\ pc = "persist"
  /\ \/ Recommissioned(inc) = {} /\ status' = Statuses
     \/ \E t \in Recommissioned(inc) :
          status' = [Statuses EXCEPT ![t].elig = TRUE, ![t].peak = 100]
  /\ Forget
  /\ UNCHANGED <<revision, manager, cluster, everEligible>>

\* An error or a crash after the ticks, or between two ticks: nothing is persisted.
Abort ==
  /\ "abort" \in Events /\ pc # "idle"
  /\ Forget
  /\ UNCHANGED <<revision, manager, status, cluster, everEligible>>
-----------------------------------------------------------------------------
Init ==
  /\ revision = Empty /\ manager = "absent" /\ status = Empty
  /\ replicaSet = [t \in Tags |-> "none"]
  /\ canaryRules = {} /\ subsets = {}
  /\ mesh = NoWeights
  /\ pc = "idle" /\ inc = Empty /\ ramping = {} /\ todo = {} /\ plan = NoWeights
  /\ everEligible = {}

\* After Begin a reconcile reads nothing of these until Collect, if that writes labels
\* at all: the events between reconciles, and those just before Collect, are enough.
Users(t) ==
  \/ CreateRevision(t) \/ DeleteRevision(t) \/ DeleteMarked(t) \/ SetEligible(t)
  \/ Fail(t) \/ Unfail(t) \/ TestProgress(t)

Environment ==
  \/ pc = "idle" /\ \E t \in Tags : Users(t) \/ CanaryTTLPasses(t)
  \/ pc = "collect" /\ TRUE \in CommitTTLs /\ \E t \in Tags : Users(t)
  \/ \E t \in Tags : PodsReady(t) \/ PodsLost(t)
  \/ CreateManager

Reconcile ==
  \/ Begin \/ DeleteSelf \/ Finalize
  \/ Tick \/ TickFails
  \/ RouteSubsets \/ RouteWeights
  \/ Collect \/ Persist \/ Abort

Next == Environment \/ Reconcile

Spec == Init /\ [][Next]_vars
-----------------------------------------------------------------------------
Incarnation ==
  [state : States, cur : 0 .. 100, peak : 0 .. 100, elig : BOOLEAN,
   canary : {"unset", "running", "over"}, rev : BOOLEAN, failed : BOOLEAN,
   failedAt : BOOLEAN, ext : ExternalTestStatuses, ready : BOOLEAN, up : BOOLEAN]

IsPartial(f, S, T) == DOMAIN f \subseteq S /\ \A x \in DOMAIN f : f[x] \in T

TypeOK ==
  /\ IsPartial(revision, Tags, RevisionSpec)
  /\ manager \in {"absent", "alive", "deleting"}
  /\ IsPartial(status, Tags, Status)
  /\ replicaSet \in [Tags -> {"none", "zero"} \cup Up]
  /\ canaryRules \subseteq Tags /\ subsets \subseteq Tags
  /\ mesh \in [Tags -> 0 .. 100]
  /\ pc \in {"idle", "tick", "route", "weights", "collect", "persist"}
  /\ IsPartial(inc, Tags, Incarnation)
  /\ ramping \subseteq Tags /\ Cardinality(ramping) <= 1
  /\ todo \subseteq Tags
  /\ plan \in [Tags -> 0 .. 100]
  /\ everEligible \subseteq Tags

\* Some status claims a part of the traffic.
Routed == \E u \in DOMAIN status : status[u].cur > 0

(***************************************************************************)
(* A reconcile scales a running ReplicaSet down to zero, or deletes it,    *)
(* only when the VirtualService sends it no traffic: an incarnation drains *)
(* before retire, del or a sync that is not routable touches its pods.     *)
(***************************************************************************)
DrainBeforeScaleDown ==
  [][pc = "tick" =>
       \A t \in Tags : replicaSet[t] \in Up /\ replicaSet'[t] \notin Up => mesh[t] = 0]_vars

(***************************************************************************)
(* Even with a canary, traffic is cut only when nobody is left to take it: *)
(* a reconcile that scales down an incarnation the VirtualService still    *)
(* routes to finds no percentage in any status.                            *)
(***************************************************************************)
DrainUnlessAlone ==
  [][pc = "tick" =>
       \A t \in Tags :
         replicaSet[t] \in Up /\ replicaSet'[t] \notin Up /\ mesh[t] > 0
           => ~Routed]_vars

(***************************************************************************)
(* Once some incarnation is releasing or released, whatever failed before, *)
(* the incarnations that were retired, failed or deleted have no weight.   *)
(***************************************************************************)
RetiredUnserved ==
  pc = "idle" /\ (\E u \in DOMAIN status : status[u].state \in Live) =>
    \A t \in DOMAIN status :
      status[t].state \in {"retired", "failed", "deleted"} => mesh[t] = 0

(***************************************************************************)
(* The routes never point into the void: a tag with a weight in the        *)
(* VirtualService has its subset in the DestinationRule, also between the  *)
(* two writes.                                                             *)
(***************************************************************************)
RouteHasSubset == \A t \in Tags : mesh[t] > 0 => t \in subsets

(***************************************************************************)
(* The weights of the VirtualService add up to 100, or there is no release *)
(* route at all.                                                           *)
(***************************************************************************)
MeshComplete == SumFunction(mesh) \in {0, 100}

(***************************************************************************)
(* After the ticks no incarnation without a Revision is in a state whose   *)
(* code dereferences it (syncApp's latestTarget, revision.Failed() in the  *)
(* search for a good release).                                             *)
(***************************************************************************)
NoNilRevision ==
  pc \in {"route", "weights", "collect", "persist"} =>
    \A t \in DOMAIN inc :
      ~inc[t].rev => inc[t].state \notin DeployedStates \cup {"deploying"}

(***************************************************************************)
(* A revision whose external test is still pending or running has no       *)
(* traffic, whichever way it came through the states.  (With nobody to     *)
(* route to, the last routes stay, and a tag may be used again under them.)*)
(***************************************************************************)
TestedBeforeTraffic ==
  pc = "idle" /\ Routed =>
    \A t \in DOMAIN revision : mesh[t] > 0 => revision[t].ext \notin {"pending", "started"}

(***************************************************************************)
(* A revision that nobody ever made release-eligible gets no traffic, even *)
(* when it expired, was retired and is recommissioned as the latest one.   *)
(***************************************************************************)
NeverEligibleNeverServes ==
  \A t \in DOMAIN revision : t \notin everEligible => mesh[t] = 0

(***************************************************************************)
(* When the status is persisted it tells what the mesh does: an            *)
(* incarnation's CurrentPercent is the weight it has been given, unless    *)
(* its ReplicaSet is gone.                                                 *)
(***************************************************************************)
StatusIsMesh ==
  [][pc = "persist" /\ pc' = "idle" =>
       \A t \in DOMAIN inc : inc[t].cur = mesh[t]]_vars

(***************************************************************************)
(* The canary rules of a revision do not outlive it, nor are they left in  *)
(* place when it is released: they would fail a healthy release.           *)
(***************************************************************************)
CanaryRulesRemoved ==
  pc = "idle" => \A t \in canaryRules :
    t \in DOMAIN status => status[t].state \notin {"releasing", "released", "retired", "failed", "deleted"}

(***************************************************************************)
(* syncer_test.go lists "canaried" and "pendingrelease" with traffic as    *)
(* "illegal state", and says the "canary will end on it's own": between    *)
(* reconciles such an incarnation has no weight in the VirtualService.     *)
(***************************************************************************)
CanaryEnds ==
  pc = "idle" => \A t \in DOMAIN status :
    status[t].state \in {"canaried", "pendingrelease"} => mesh[t] = 0

(***************************************************************************)
(* syncer.go: "only the latest \"releasing\" revision will be incremented,  *)
(* the remaining will either stay the same or be decremented".             *)
(***************************************************************************)
OnlyLatestIncremented ==
  [][pc = "route" =>
       \A t, u \in DOMAIN inc \cap DOMAIN inc' :
         inc[t].state \in Live /\ inc[u].state \in Live /\ t > u
           => inc'[u].cur <= inc[u].cur]_vars

Marks(t) ==
  /\ t \in DOMAIN revision \cap DOMAIN revision'
  /\ ~revision[t].deletable /\ revision'[t].deletable

(***************************************************************************)
(* A target gives a Revision up only when the mesh sends it no traffic in  *)
(* this target.                                                            *)
(***************************************************************************)
MarkedUnserved == [][\A t \in Tags : Marks(t) => mesh[t] = 0]_vars

(***************************************************************************)
(* A retired Revision is given up only when MinimumRetired newer ones are  *)
(* retired in the same status: a rollback finds its candidates.            *)
(***************************************************************************)
RollbackKept ==
  [][\A t \in Tags : Marks(t) /\ inc[t].state = "retired" =>
       MinimumRetired <= Cardinality({u \in DOMAIN inc : u > t /\ inc[u].state = "retired"})]_vars

(***************************************************************************)
(* common.go says of the label: "a releasemanager no longer needs the      *)
(* revision and it can be deleted".  The revision controller never deletes *)
(* a Revision this target is deploying or releasing.                       *)
(***************************************************************************)
NeededNeverDeleted ==
  [][\A t \in DOMAIN revision \cap DOMAIN status :
       t \notin DOMAIN revision' => status[t].state \notin DeployedStates \cup {"deploying"}]_vars

(***************************************************************************)
(* defaultStrategy.go: "Don't delete all the revisions".  Of the Revisions *)
(* that exist at least one is not marked.                                  *)
(***************************************************************************)
OneRevisionKept ==
  pc = "idle" /\ revision # Empty => \E t \in DOMAIN revision : ~revision[t].deletable
=============================================================================
