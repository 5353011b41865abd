# A TLA+ model of picchu

picchu is a set of Kubernetes controllers that release applications. A user
(or CI) creates a `Revision`: an image with, for every *target* (an environment),
how it is scaled, tested, canaried and released. Per application and target a
`ReleaseManager` keeps an *incarnation* of each revision, walks it through a
state machine, and splits the traffic of a service mesh between incarnations.
These modules model that code, TLC checks them on small instances and TLAPS
proves what holds of every instance. Paths are relative to `src/`.

## 1. Inventory

| Component | Code | State it keeps | Operations | What makes it correct |
|---|---|---|---|---|
| Traffic split | `controllers/syncer.go` (`prepareRevisions`), `controllers/scaling/` | the statuses' `CurrentPercent`, `PeakPercent`, `ReleaseEligible`; the weights | one pass over `releasable()` newest first, then the leftover | 100% is out, the assertion holds, only the newest gains, canaries stay small |
| State machine | `controllers/state.go` | `status.State` of an incarnation | 18 handlers, one per state, that apply plans | no traffic untested, drained before pods are touched, canary rules removed |
| ReleaseManager reconcile | `controllers/releasemanager_controller.go`, `syncer.go`, `incarnation.go` | incarnations in memory; `Status.Revisions`; the ReplicaSets, DestinationRule, VirtualService and PrometheusRules of the cluster | read, tick, observe, sync routes, collect garbage, recommission, persist; self-deletion, finalizer | mesh, status and pods agree; a crash or a failing plan is healed |
| Plans | `controllers/plan/`, `plan/` | Kubernetes objects | create, update, delete, in all clusters; `CreateOrUpdate` keeps some of what the cluster has | order of writes; replicas only change from and to zero; one autoscaler; nothing is left behind |
| Ramp readiness | `controllers/scaling.go`, `incarnation.go` | replica counts over clusters | `CanRampTo`, `proactiveRampMinReplicas` | what is asked for is enough to be let through |
| Revision controller | `controllers/revision_controller.go` | labels, `Spec.Failed`, status of a Revision; the mirrors | create managers, fail on alarms or timeouts, delete when marked, mirror | trouble fails it and old alerts do not; managers come back; a mirror is whole |
| Garbage collector | `controllers/garbagecollector*` | the deletable label of a target | mark expired incarnations, keep three retired | a rollback candidate is kept |
| Observers | `controllers/observe/` | none | combine ReplicaSets of live and standby clusters | minimum and sums over the right clusters |
| Schedules | `controllers/schedule/` | none | may a release start now | calendar arithmetic |
| Alert query cache | `prometheus/` | query results with a TTL | query, parse | no answer older than the TTL |
| Revision webhook | `api/v1alpha1/revision_webhook.go`, `source_defaults.go` | none | default and validate | exactly one default ingress port per mode |
| Cluster, ClusterSecrets | `controllers/cluster*_controller.go` | finalizers, copied secrets | reconcile, finalize | no copy outlives its source |
| Namespace mode | `controllers/syncer.go` (`syncNamespace`), `controllers/plan/ensure*.go` | labels of a namespace, its waypoint, autoscaler and disruption budget | sidecar, ambient or transition | new pods come up in the mode of their revision; the waypoint is there while it is needed |
| Routes | `controllers/plan/syncApp.go` | Service, Sidecar, DestinationRule, VirtualService | hosts and matches of ports, tags and developers | a request lands on one port, and on the tag it names |
| Monitoring | `controllers/plan/syncSLORules.go`, `syncServiceMonitors.go`, `syncServiceLevels.go` | PrometheusRules, ServiceMonitors, the ServiceLevel in a shared namespace | write them for one revision, delete them without | they follow the released revision, and go with the app |

**Interactions.** The revision controller and every ReleaseManager share the
`Revision` objects: the manager reads them once per reconcile, the controller
writes `Spec.Failed` and deletes them, garbage collection writes labels. Manager
and controller share `ReleaseManager.Status`: the manager overwrites it at the end
of a reconcile. Manager and mesh share the ReplicaSets, DestinationRule and
VirtualService: the manager is their only writer, the cluster changes the pods.
Nothing is locked; each step is an API call that may fail, and the process may
stop between any two.

**What is hard.** `isRamping` is computed before the ticks and used after them.
The status is persisted last, after every effect. A plan may fail after others took
effect. A Revision may be deleted and recreated while its status lives on. A
retired revision is brought back by writing to its status. The complete list,
line by line, is in `PROJECT.json` under `hazards`, each with the properties
that cover it or the reason none does.

## 2. Modules

    Budget ----(implemented by)----\
    TrafficSplit ----> Traffic ----+--> MCTraffic           also: Handlers
        |
        +--> ReleaseManager ----------> MCReleaseManager    also: Handlers, GarbageCollector
        +--> Autoscaling -------------> MCAutoscaling       also: Handlers, Fleet
        +--> Target ------------------> MCTarget            also: Handlers, Routing
    Revisions ------------------------> MCRevisions

    Sums, TrafficSplitProofs ---------> TrafficProofs                   (of Traffic)
                      |
                      +--> ReleaseManagerTypes -> ReleaseManagerProofs  (of ReleaseManager)
                      +--> AutoscalingProofs                            (of Autoscaling)
                      +--> TargetProofs                                 (of Target)
    RevisionsProofs                                                     (of Revisions)

Three modules look at one manager from three sides: `ReleaseManager` at the
states and the traffic of all revisions, `Autoscaling` at the objects of one
revision, `Target` at the objects all revisions share. They use the same state
machine (`Handlers`) and the same traffic split (`TrafficSplit`). `Revisions` looks at one
Revision and its managers in all targets.

**`TrafficSplit`** holds the operators of the traffic split. `NextIncrement`
and `Scale` are both strategies of `controllers/scaling` (the delay and
`CanRampTo` are one *gate* that is open or closed); `CurrentPercentTarget`,
`UpdateCurrentPercent`, `Visit` (one iteration of `prepareRevisions`) and
`AssignLeftover` are the functions of the same names, `IsReleasable` and `Group`
are `releasable()`. Percentages are `uint32`: the strategies' sums and products
wrap at `Word`, any positive number (65536 in the runs, since TLC's own integers
have 32 bits; nothing in the runs comes near it; the theorems hold for any, `GateNeeded` for one
that fits the steps).
`AssignLeftover` stands for both places the code assigns the rest: after the
last iteration, to the ramping incarnation, or after the loop, to the first one.

**`Traffic`** is `prepareRevisions` as a state machine over `N` releasable
incarnations: one iteration per step (`VisitNext`), then `GiveLeftover`. Its
initial states are what the reconcile can hand it: sorted by group; drained
incarnations still have traffic and only they may have lost their Revision;
`ramping` is any incarnation that is not a canary, or none, because `isRamping`
was set before the ticks; not more than 100% is out. `start` and `passed` record
the percentages before the round and the gates that were open.

**`Budget`** is what a round promises, without states or strategies: 100% is handed out,
each taker is given a part of what is left at most once, nothing is taken back, and
closing the round gives the rest to one taker. `Traffic` implements it with the weights
as what is given, `rem` as what is left, and `pc # "done"` as the round being open: a
visit is `Give`, or a stutter if it gives 0%, and the leftover is `Close`.

**`Handlers`** is `state.go`: one operator per handler, returning the next
state and the plans it applies in order. Deadlines, the schedule and the TTL are
inputs. The hour of `CreatedTimeout` never applies, because a created incarnation has no
`LastUpdated`. Two oddities of the code are kept: `Testing` does not look at
`Spec.Failed`, and `IsTimingOut` has a deadline only while a test is pending or started.

**`GarbageCollector`** is the default strategy of `controllers/garbagecollector`:
which incarnations of a list, newest first, are garbage (`Garbage`, `FindGarbage`),
after the `MinimumRetired` newest retired ones were set aside.

**`ReleaseManager`** is one application in one target.

| Variable | Code |
|---|---|
| `revision` | the Revision objects: eligibility, `Spec.Failed`, the failed-at annotation, the external test, this target's deletable label |
| `manager` | the ReleaseManager object, `deleting` while it waits for its finalizer |
| `status` | `Status.Revisions`: state, percentages, eligibility, whether the canary's clock started or ran out |
| `replicaSet` | none, zero replicas, starting, or all ready |
| `canaryRules` | the canary PrometheusRules |
| `subsets`, `mesh` | the DestinationRule's subsets, the VirtualService's weights |
| `pc`, `inc`, `ramping`, `todo`, `plan` | a reconcile in memory |
| `everEligible` | history: tags some Revision of which was ever eligible |

| Action | Code |
|---|---|
| `Begin` | `Reconcile` up to `newIncarnationCollection`: Revisions, status and ReplicaSets are read, `isRamping` is set |
| `Tick` | one `DeploymentStateManager.tick`, in `sorted()` order, with every plan of its handler, then `setState` |
| `TickFails` | a plan of the handler fails after it, or some before it, took effect; `sync` returns |
| `RouteSubsets` | `observe`, `prepareRevisions` and the DestinationRule |
| `RouteWeights` | the VirtualService: zero weights have no route, without a route it is not written |
| `Collect` | `garbageCollection`: this target's label on the Revisions of its garbage, which the code fetches again before it writes |
| `Persist` | the end of `sync` (dropping deleted incarnations, recommissioning) and the status update |
| `Abort` | any error or crash in between: the memory is lost and nothing else |
| `DeleteSelf`, `Finalize` | `sync` without Revisions; the finalizer deletes the namespace |
| `CreateManager`, `DeleteMarked` | `getOrCreateReleaseManager` and `deleteIfMarked` of the revision controller; the labels of the other targets are taken to be there |
| `CreateRevision`, `DeleteRevision`, `SetEligible`, `Fail`, `Unfail`, `TestProgress` | users, CI, the revision controller |
| `PodsReady`, `PodsLost`, `CanaryTTLPasses` | the cluster and the clock |

Users act between reconciles and before `Collect` only: a reconcile reads the
Revisions at `Begin`, and then only `Collect` fetches them again, so a change
elsewhere in the middle is seen exactly as one just before `Collect` or after the
reconcile. Where no commit's TTL may be up (`CommitTTLs = {FALSE}`), `Collect`
writes nothing, and users act between reconciles only. Pods change at any time. `sorted()` orders by git timestamp;
incarnations without a Revision have none and come out of a map in any order, a
new one at each call, which is a choice in every place that sorts. Two Revisions
with the same git and creation timestamp are not modelled.

**`Fleet`** is the arithmetic of a target's clusters: `DivideReplicas`,
`ExpectedReplicaCount`, `ReplicasRequiredForRamp` and `CanRampTo` (`scaling.go`), and the sums
that `observe` keeps of live and standby clusters. Scaling factors are percentages; the code
computes with floats, and rounds up in the same places.

**`Autoscaling`** is one revision, the newest, in the clusters of its target.

| Variable | Code |
|---|---|
| `revision`, `status` | the Revision with the settings that may change, and its persisted status |
| `object` | cluster -> kind -> the object: ReplicaSet with wanted and ready replicas, HPA, WorkerPodAutoScaler, ScaledObject, TriggerAuthentication, configs, ... |
| `disabled` | `Spec.DisableEventDriven` of a cluster |
| `inc`, `next`, `todo`, `broken`, `pc` | a reconcile: the status in memory, the state its handler decided, the writes each cluster still gets, whether one failed |

| Action | Code |
|---|---|
| `Begin` | observe, `Handle`, and the handler's plans as lists of writes: `SyncRevision`, `ScaleRevision` (`genScalePlan`, HPA, ambient KEDA, KEDA worker, WPA, event-driven scaling disabled), `RetireRevision`, `DeleteRevision` |
| `Write` | one object of one cluster, through `CreateOrUpdate` |
| `WriteFails` | a write fails: the plan ends in its cluster, the other clusters go on, the reconcile ends without a status (`ConcurrentApplier`) |
| `Finish` | `setState`, `observe`, this revision's part of `prepareRevisions` with `CanRampTo` as its gate, the status |
| `Autoscale`, `AutoscaleInto` | an autoscaler chooses replicas, or brings them back within its bounds; an HPA does nothing at zero, a paused ScaledObject keeps zero |
| `PodsStart`, `PodsLost`, `DisableEventDriven`, `CreateRevision`, `DeleteRevision`, `EditRevision` | the cluster, operators, users |

**`Routing`** is the VirtualService of `SyncApp`: which ports take the default hosts of
an ingress, the routes of tags, of developers and of the release, and their order
(`Routes`); `Requests` and `Taking` are how Istio matches a request.

**`Target`** is what a manager keeps in a cluster for all its revisions.

| Variable | Code |
|---|---|
| `config`, `revision`, `manager`, `status` | what the targets of the tags ask for, the Revisions, the manager, its status |
| `object` | kind -> the object: namespace, service account, RBAC, the waypoint's four objects, Service, Sidecar, DestinationRule, rules, VirtualService, ServiceMonitor, ServiceLevel; `ignored` is `LabelIgnore` |
| `replicas`, `pod` | a tag's ReplicaSet, and whether its pod has a sidecar |
| `pc`, `inc`, `todo` | a reconcile: what it computed and the writes that are left |
| `orphaned` | history: a user removed the manager |

| Action | Code |
|---|---|
| `Begin` | everything a reconcile reads and decides, as a list of writes in the order of `sync`: `SyncNamespace`, service account, RBAC, ticks, `SyncApp`, monitors, SLO rules, service levels |
| `Write` | one of them |
| `WriteFails` | one fails and ends the reconcile; a PrometheusRule that cannot be deleted ends `SyncApp` alone, which returns nil |
| `Finish` | recommission, drop, persist |
| `DeleteSelf`, `Finalize` | a manager without Revisions deletes its ServiceLevel, then itself; the finalizer deletes the namespace |
| `StartPod`, `RestartPod` | a pod gets its sidecar from the labels the namespace has when it starts |
| `CreateRevision`, `EditRevision`, `CreateManager`, `RemoveManager`, `Ignore` | users and the revision controller |

**`Revisions`** is the revision controller on one Revision.

| Variable | Code |
|---|---|
| `world` | which events a behaviour has; it does not change |
| `revision`, `manager`, `mirror` | the Revision, its managers with their status of it, what was copied to each mirror |
| `firing`, `quiet` | whether an alert fires, and the ticks since one did |
| `cache`, `call` | the cached answer with its age, and the queries on their way: this reconcile's and the others' |
| `pc`, `seen`, `copying`, `alarmed` | a reconcile: what it read of the targets, which list it copies to which mirror, the answer |

| Action | Code |
|---|---|
| `Begin` | the Revision is read and labelled |
| `Delete` | `deleteIfMarked`, by name |
| `SyncReleaseManager` | one target: `getOrCreateReleaseManager` and its status |
| `MirrorRevision` | one list of configs, or the Revision after the last list; or an error, which leaves some of the list copied and ends the mirror at hand, not the next ones |
| `IsRevisionTriggered`, `Answered` | `queryWithCache`: a hit, or a query outside of the lock, stored when it is answered |
| `Judge`, `Fail` | timeouts, alarms below the acceptance percentage; `Spec.Failed` |
| `StepFails` | any other call fails and the Revision is requeued |
| `Manage`, `Forget`, `DeleteSelf`, `Finalize`, `MarkDeletable` | the managers, which read Revisions by label and work on what they read |
| `CreateRevision`, `DeleteRevision`, `RemoveManager`, `Unfail`, `Alert`, `OtherAsks`, `OtherAnswered`, `Tick` | users, alerts, other reconciles, time |

**`Sums`** proves what the other proofs need of finite sets, of `SumFunction`, the sum of
a function that the models use for weights and replicas, and of lists that are sorted. **`TrafficSplitProofs`** bounds the
operators of `TrafficSplit`. **`TrafficProofs`**, **`ReleaseManagerTypes`**,
**`ReleaseManagerProofs`**, **`AutoscalingProofs`**, **`TargetProofs`** and
**`RevisionsProofs`** hold the theorems. The **`MC...`** modules give the constants that are
functions.

Some definitions are written with the proofs in mind. A list that the code sorts is any member
of a set of orders (`Releasable`, `Sorted`, `Orders`), and its first element, where only that
one is used, is what comes before all others (`First`, `NextToTick`). The plans that a handler
calls take effect as a set (`ReplicaSetAfter`, `CanaryRulesAfter`, `Writes`), since no handler
calls two that touch the same object. A write replaces one entry of the record of objects
(`Replace`, `Written`). The loop of `prepareRevisions` is a function over the positions of its
list (`Split`). The lists of `mirrorRevision` are copied whole or in part, so that no order of
their elements is needed.

## 3. Runs

| Run | Question | Result |
|---|---|---|
| `traffic` | does one round of the split keep its promises, whatever it starts from, and implement the budget? | 61,916 states, holds |
| `rm_rollout` | through every order of create, eligible, fail, unfail, expire, delete, recreate: do mesh, pods and status agree? | 5.9 million states, holds |
| `rm_canary` | with a canary, a test, deadlines and closed schedules: nothing untested is served, canary rules go, pods drain first | 1.9 million states, holds |
| `rm_faults` | with failing plans, crashes and lost pods: the weights stay complete and the next release heals | 1.0 million states, holds |
| `rm_collect` | is a Revision given up only when it is not served, and no rollback needs it? | 2.3 million states, holds |
| `autoscaling` | with every kind of autoscaler, plans that fail and lost pods: one scaler, acceptable bounds, nothing left, retired and disabled pods stay down, the rollout completes | 56,000 states, holds |
| `target` | around the revisions: do pods, routes, waypoint and monitoring follow the revisions, whatever fails? | 115,599 states, holds |
| `revisions` | do alerts, managers and mirrors do what the revision controller promises, whatever the cache and the timing? | 926,339 states, holds |
| `rm_needed` | does the deletable label mean that the manager needs the Revision no longer? | violated, see section 6 |
| `rm_all_deleted` | is one Revision always kept? | violated, see section 6 |
| `rm_canary_ends` | does a canary end on its own? | violated, see section 6 |
| `rm_only_latest` | is only the latest releasing revision incremented? | violated, see section 6 |

**Properties.** `NeverPanics`: the assertion in `prepareRevisions`.
`FullyAssigned`: weights sum to 100 and equal the status. `OlderNeverGain`: behind
the ramping incarnation nobody gains. `CanaryBounded`: the leftover does not
breach `Canary.Percent`. `GainsOnlyThroughGate`: from a healthy split, nobody
gains without `CanRampTo`. `EligibilityLostOnlyWhenDrained`.
`MeshComplete`: 100% or no route at all. `RouteHasSubset`: also between the two
writes. `DrainBeforeScaleDown`: an action property of the reconcile's ticks.
`StatusIsMesh`: an action property of `Persist`. `NoNilRevision`,
`NeverEligibleNeverServes`, `TestedBeforeTraffic`, `CanaryRulesRemoved`,
`RetiredUnserved` and `DrainUnlessAlone` are as named.
`MarkedUnserved` and `RollbackKept` relate a new label to the mesh and to the other
incarnations at that moment.
`OneScaler`, `RetiredStaysDown`, `DeleteLeavesNothing`, `BoundsAccepted` and, under
fairness, `DisabledStaysDown` and `RolloutCompletes` speak of the objects of one revision.
`NothingLeft`: what a dead manager leaves. `NewestInjected`: a sidecar revision does not
start its pods in a namespace that does not inject. `WaypointKept` and `WaypointFollows`: not
removed while it is used, and complete or gone in the end. `RequestsLand`: every new
VirtualService, against every request. `ReleaseSettles`: routes, rules and monitoring end up
with the released revision. `FailedByRecentAlert`: bounds the age of an alert that
fails a revision. `TroubleFails`: a persistent alert, or a timeout, does fail it.
`ManagersReturn`, `MirrorWhole` are as named.

**Bounds.** `traffic`: three incarnations of different strategies, so that one
is newer than the ramping one, one is it and one is older, with six starting
percentages that straddle every threshold of the strategies (below and above
start, at the canary's percentage, above a maximum of 80). The reconcile
runs but `rm_collect` have two revisions: the interplay is between a newer and an older one, and between
one with and one without a Revision. Ramping takes two steps (50, 100), so that both a split
and a complete release occur; `rm_only_latest` starts at 10. Two incarnations
without a Revision at once cannot exist at `Begin` with two tags (without any
Revision the manager deletes itself), so their arbitrary order matters only from
three tags on: `rm_collect` has three, but deletes no Revision before it is
garbage. That run needs three revisions because one is retired only behind another:
with `MinimumRetired` 1 (3 in the code) the second retired one is garbage while the
third serves. `CommitTTLs` says whether the TTL since a commit may be up, a choice at every
`Collect`. `autoscaling`: one live cluster (`Fleet`'s
operators take any number), replicas from 1 to 2 beside 2 pods of the older revision, so that
an increment must ask for a pod before it is let through; `MaxEvents` is 2, since the
interesting failures are one event on top of another (a plan fails, then the Revision
is edited). Sidecar and ambient, HPA, WPA, KEDA and no autoscaler are initial states; `Switches`
has the one change of autoscaler a live revision makes, into the ambient mesh. `target`: two
tags, one sidecar and one ambient, in either order, that differ in all they ask for
(roles, rules, monitors, ports, a minimum above the maximum); one increment, one failure or
event. `revisions`: two targets, of which one accepts, one mirror, one other reconcile; a TTL of
2 and a latency of 1 tick, the least where an answer can be late, cached, and
overtaken. `Worlds` groups the events that interact: alerts with the cache, users with
managers, mirrors, garbage; `MaxEvents` is 1 in each, beside any number of deletions, alerts,
asks and ticks.
The counters of the code are percentages,
so no state is cut off by a constraint. `CHECK_DEADLOCK FALSE` is in
`traffic.cfg` only: the loop ends.

**Events that are off, and why.** The four passing runs of `ReleaseManager` differ in the events
they admit, and some properties hold only without some of them; that is part
of what the runs show.

- With `abort`, `StatusIsMesh` and `DrainBeforeScaleDown` do not hold: after a
  crash between the VirtualService and the status, the status says less than the
  mesh, and a routed ReplicaSet may be scaled down or deleted. `RouteHasSubset` does
  not either: the DestinationRule is replaced first. `rm_faults` checks what
  remains true.
- With `losePods`, `StatusIsMesh` does not hold: a missing ReplicaSet zeroes the status.
- With `unfail`, `CanaryRulesRemoved` does not hold: `Failing` goes to `deploying`
  without deleting the rules.
- With `recreate`, the label of one Revision may be written on the next one of that
  name, which is then deleted; `rm_needed` shows the same with `unfail`.
- With a canary, the last incarnation may stop being releasable while it has
  traffic (`rm_canary_ends`), and then the routes stay as they were until somebody
  is releasable again. `rm_canary` therefore checks `DrainUnlessAlone`
  and `TestedBeforeTraffic`, which speak of the times when
  some status has a percentage; without canaries, `rm_rollout` checks
  `DrainBeforeScaleDown` and `StatusIsMesh` without this condition.
  `Headers = {2}` gives one revision tagged routes, which keep the VirtualService
  being written while it is routable.

**Fairness.** The runs of `Traffic` and `ReleaseManager` are safety only. The others have
liveness properties, and assume:

- *Requeue.* Every path of both reconcilers returns `RequeueAfter` or an error, which
  the work queue retries: weak fairness of `Write`, `Finish`, `Finalize` and so on, and that
  a reconcile begins again and again. In `Target` this is `Requeued`, which is weak
  fairness of `Begin` spelled without ENABLED of a large action. In `Autoscaling` it is strong
  fairness of the `Begin` that finds the schedule open, no deadline passed and no canary
  pending: schedules open again and again, a canary's TTL passes.
- *The cluster.* Pods start (`PodsStart`, `StartPod`), autoscalers bring replicas into
  their bounds (`AutoscaleInto`). Nothing is assumed of what an autoscaler chooses within them.
- *Time and answers.* In `Revisions`, `Tick` is strongly fair: the code has no loop without
  a call in it. Queries of other reconciles are answered.
- Failures are bounded by `MaxEvents`. A call that failed for ever would stop any
  release, and no property claims otherwise.

Managers in `Revisions` need not do anything (`Manage` has no fairness) but finalize:
`TroubleFails` speaks of statuses that stay in trouble.

## 4. Theorems

Each proof rests on an inductive invariant, a conjunction of named parts, which TLC
checked on small instances before it was proved. A theorem has no other assumption than
those of the constants that the modules name, and the hypotheses said here.

### Sums

What is defined by recursion over a set or a sequence is reached in two steps. `LeastNat` and
`NatSetInduction` are induction as a theorem about *sets* of naturals: a property is
given as the set of the numbers that have it. `SumDefined` shows with
`NatSetInduction` that the recursion behind `SumFunction` defines a function
on finite sets, and from it follow `SumEmpty`, `SumStep`, `SubsetInduction`, `SumType`,
`SumMonotone`, `SumZero` and `SumUpdate`: a sum changes by what one entry does.

A model that takes any of the orders of a list says nothing if there is none. `OrderExists` shows
that a relation that is total and transitive on a finite set (`Sorts`) sorts it into a list, by
induction over the set's size, from `LastExists`: one of its elements is the last.

### The traffic split

`TrafficProofs` proves, from the assumptions of `TrafficSplit` and `Traffic` (`N` is
a positive number, `Release` and `CanaryPercent` are functions into the naturals,
`Word` is positive, starting percentages are at most 100), for every such
instance:

- `TypeCorrect`: weights, percentages and remainder stay within 0..100;
- `NoPanic`: the assertion is never violated, although the strategies' arithmetic
  may wrap;
- `OlderOnlyLose`, `CanariesBounded`, `EligibilityKept`: three of the properties above;
- `RoundImplementsBudget`: every round implements `Budget`;
- `BudgetWhole`: at each point of the loop the weights and the rest are 100 together;
- `AllAssigned`: `FullyAssigned`, which follows from it when the loop is done;
- `GateNeeded`: `GainsOnlyThroughGate`, if `SaneStrategies`: the geometric factor is at least 1
  (`SetReleaseDefaults` replaces 0 by 2, `api/v1alpha1/source_defaults.go:73`), and a step
  from 100 fits in the word. A factor of 0 makes an incarnation shrink that has no gate
  to pass, and what it loses would go to another one as the leftover.

The first five follow from `Invariance`, the invariance of `IInv`. None of them is
inductive alone: the type of `split` after the leftover is given needs that what an
incarnation has been given plus what is left is at most 100, which needs that
visited positions fit into what has been taken, and `OlderNeverGain` needs that a
position not visited yet still has what it started with. `IInv` says these things:
every visited position has what its weight says, and this and the remainder are
at most 100; positions from `k` on are as they were and have no weight; positions older than the
ramping one are below their start. The lemmas under it bound each operator
(`NextIncrementBound`, `ScaleBound`, `TargetBound`, `CapBound`), say what a
visit changes (`VisitEffect`) and prove one step each (`VisitStep`,
`LeftoverStep`, `StutterStep`).

`GateNeeded` has an invariant of its own (`GateInv`): a strategy never asks for less than the
incarnation has, unless it is offered less, and then takes all that is left; so whoever loses
leaves nothing over, and if nobody loses nothing is over either, as 100% was out at the start.

The refinement takes two lemmas, `VisitImplements` and `LeftoverImplements`. The
invariant is needed in both: nobody has a weight before its visit, and the percentage
the leftover is added to is the weight.

### The reconcile

`ReleaseManagerTypes` proves the inductive types of `ReleaseManager`, and what all else needs
of `prepareRevisions`, for any finite set of tags:

- `PrepareRevisionsPrepares`: for every order of the incarnations and every set of open gates,
  the weights are the percentages, only what is releasable has one, and they are 100
  together unless nothing is releasable. The loop over the list is taken one
  position at a time, as in `Traffic`, by `NatSetInduction`;
- `AlwaysTyped`, `WellTyped`: types, and what is in memory at each point of the reconcile;
- `AlwaysGoesOn`: the lists of the collection exist in every state, and there is a tick to do
  next while one is left. So no choice of an order in `Tick` or `RouteSubsets` blocks a reconcile,
  and what the theorems say of every step is not said of too few.

`ReleaseManagerProofs` proves the properties of the `rm_` runs. Without any hypothesis on users,
failures or the environment:

| Theorem | Property | Inductive invariant on top of the types |
|---|---|---|
| `NothingNil` | `NoNilRevision` | `NilFree`: what was ticked is not in a state that needs its Revision without one |
| `NeverEligibleNeverServed` | `NeverEligibleNeverServes` | `NeverShipped`: the status, the memory and the plan of a tag that was never eligible |
| `MeshAlwaysComplete` | `MeshComplete` | `WholeMesh`: what is routed, and what is about to be, is 100 or 0 |
| `RetiredNeverServed` | `RetiredUnserved` | `Unserved`: a state that must not serve is entered only after the percentage is gone, and stays so through `observe`, the split and recommissioning |
| `RollbackAlwaysKept` | `RollbackKept` (an action property) | none: of the ranks of the collector's list, by its cardinality |

With hypotheses on which events occur, each of which the code needs:

| Theorem | Property | Hypotheses | Invariant |
|---|---|---|---|
| `CanaryRulesAlwaysRemoved` | `CanaryRulesRemoved` | `NoRecreate`, `NoUnfail` | `GoneForGood`, `RulesFollow` |
| `DrainsUnlessAlone` | `DrainUnlessAlone` | `Quiet` | `Known` (types, `Unserved`, `Fresh`), `InStep` |
| `DrainsBeforeScaleDown` | `DrainBeforeScaleDown` | `Quiet`, `NoCanaries` | the same |
| `StatusAlwaysMesh` | `StatusIsMesh` | `Quiet`, `NoCanaries` | the same |
| `RoutesHaveSubsets` | `RouteHasSubset` | `Quiet`, `NoCanaries` | the same |
| `AlwaysTestedBeforeTraffic` | `TestedBeforeTraffic` | `Quiet`, `NoRecreate` | the same, `GoneForGood`, `ShippedTested` |
| `AlwaysMarkedUnserved` | `MarkedUnserved` | `Quiet`, `NoCanaries`, `NoRecreate` | the same, `GoneForGood` |

`InStep` follows the traffic through a reconcile: between reconciles the mesh is what the
status says, after the observation what the memory says, after the split what the plan says,
and each of the four places where the percentage is copied keeps it. `Fresh` says that
Revisions read at `Begin` are as they were until `Collect`.

The hypotheses are the events of section 3 that are off: `Quiet` is no `abort` and no
`losePods` (either leaves the status and the mesh apart), `NoCanaries` excludes `rm_canary_ends`,
`NoUnfail` the way from `failing` to `deploying` that skips `deleteCanaryRules`
(`controllers/state.go:431`), `NoRecreate` a Revision of a name whose last incarnation is still
being deleted, which takes over its state. Every run that checks a property satisfies
the hypotheses of its theorem, and shows on its instance that they leave all the interleavings
of a release.

### The objects of a revision

`AutoscalingProofs` proves the properties of `autoscaling` for any number of live and standby
clusters, each written to at its own pace, any scaling factors, scale, strategies and
failures (the run has one cluster and a factor of 100):

- `AlwaysTyped`, `WellTyped`: types. `Structure` says which orders a plan is made of, that none is
  left between reconciles, and that replicas are set to zero last;
- `NothingLeftBehind`: `DeleteLeavesNothing`, from `Forgotten`: while a revision is
  deleted, each object it still has is among the deletes that are left, unless a write
  failed, and then the status is not dropped;
- `StaysDown`: `RetiredStaysDown`, from `Stopped`: while a revision is retired, each WPA and
  ScaledObject is still to be deleted and the replicas are to be zero afterwards (`Down`);
  then neither is there, and an HPA does nothing at zero;
- `AlwaysOneScaler`: `OneScaler`, from `Alone`, if `TakesOver`: an autoscaler is changed
  only for one whose plan deletes or overwrites what the old plan wrote, such as an HPA for the ambient
  mesh. Where it is not so, the code leaves two (section 6);
- `BoundsAlwaysAccepted`: `BoundsAccepted`, from `Accepts`, if `PositiveFactors` (a factor of 0
  makes an HPA with a minimum of 0, see section 6) and `NotFromKeda` (a KEDA worker's
  ScaledObject may have a maximum of 0, which the property excludes while it is one).

The lemmas in front bound the arithmetic (`ScaledBound`, `DivideReplicasBound`, `MinBound`,
`MaxBound`, `BoundsAreAccepted`), and say what each handler answers (`HandlerAnswers`), what
each plan writes (`WrittenPlan`) and what one write leaves (`EffectIs`). The run satisfies
the hypotheses of the last two: its only change is from HPA to ambient, its factor 100.

### The revision controller

`RevisionsProofs` proves, from `RevisionsAssumption` alone (TTL and latency are positive, targets,
mirrors and lists of configs are sequences, no config is a Revision, this reconcile is not one of
the others), for every TTL, latency and number of targets, mirrors, configs and other reconciles:

- `TypesOfRevisions`: `TypeOK`. `Placed` adds where a reconcile is: outside of the mirror
  loop `copying` is at the beginning, inside it at a mirror and a list that exist;
- `OnlyRecentAlertsFail`: `FailedByRecentAlert`. Its invariant (`AgesBounded`) follows a
  positive answer from place to place: on its way it is as old as its call (`AnswerAge`), in the
  cache it may be older by one latency (`CacheAge`), and a verdict adds the TTL, when it came
  from the cache, and one more latency (`VerdictAge`). An answer that overtakes another one does
  not matter, since each is bounded by itself;
- `MirrorsWhole`: `MirrorWhole`. It is not inductive: that the Revision comes last says nothing
  unless the lists before it are in the mirror. `CopiedSoFar` adds that the mirror at hand
  has every list before the one that is copied. An error moves to the next mirror, which
  starts with its first list.

### The objects of a target

`TargetProofs` proves the properties of `target` for every finite set of revisions, whatever their
targets ask for, in whatever order writes fail, and with service levels and without. The
only other hypothesis is that of `RequestsAlwaysLand`.

| Theorem | Property | Inductive invariant |
|---|---|---|
| `TypesOfTarget` | `TypeOK` | `TypeInv`: also the types of `status`, of `inc` and of what is left to write |
| `WaypointOutlivesAmbient` | `WaypointKept` | `MeshInv`: `MeshFirst`, `WaypointGuarded` |
| `NewestIsInjected` | `NewestInjected` | `MeshInv`: `MeshFirst`, `NamespaceFirst`; `LeavesLevels` |
| `RequestsAlwaysLand` | `RequestsLand` | `RoutesOK` |
| `GoneLeavesNothing` | `NothingLeft` | `IInv`; where no service levels are synced, `NoLevel` |
| `AlwaysBeginFinds` | `BeginFinds` | none but `TypeInv` |

- *Types.* What a reconcile writes is decided in one step and written in many, so the type of
  an object is the type of what is left to write (`WritesOK`), and nothing of `TypeOK` is
  inductive without it. The percentages are those of `prepareRevisions`, which is
  bounded as in `ReleaseManagerTypes` (`Divided`: what each visited incarnation has leaves room for what
  remains), here for any set of releasable incarnations and open gates.
- *Mesh mode.* The mode is decided from the replicas observed when the reconcile began, and
  applied later. `MeshFirst` says that no ReplicaSet is written before the namespace and the
  Gateway, so what was observed is still true when they are; that the waypoint is deleted
  only in a sidecar mode, and then no ambient revision known has replicas, is `WaypointGuarded`.
  `NamespaceFirst` follows the labels: the namespace is the first write, it fits the newest revision,
  and once it is written it stays so until the reconcile ends. `BeginMesh` shows what `Begin`
  has to offer for this, `Mode` by `Mode`, and `WriteMesh` that the rest of a list keeps it.
- *Requests.* `RoutesOK`: the ports of every VirtualService, there or about to be written,
  differ in name and number and share no host, and the tags it names are tags. The union over the
  incarnations has one port of each name because `Before` is a total order and the first that has the
  name defines it. The hypothesis is `PortsApart`: over the tags of a configuration, ports of
  different names have different numbers and no host in common, and no target has a name
  twice. The code checks neither; without it a request may match two ports, or two ports of
  one Service may have one number, which the API rejects. `MCTarget` asserts it of its
  configurations.
- *Leaving.* A manager that leaves has one write, deleting the ServiceLevel (`LeaveDeletes`:
  without a Revision no SLO is observed); it can only succeed before `DeleteSelf`, or end the attempt
  (`LevelLeavesFirst`), and a manager that is not alive writes nothing
  (`WritesInReconciles`). Without service levels there never is one, as nothing writes one.
- *Progress.* `BeginFinds`: a reconcile finds its sorted and releasable lists, and the newest
  incarnation is one. This is what `Requeued` rests on, which reads the guard of `Begin` for
  its being enabled.

### Only model-checked

Every invariant and every action property that a passing run checks is the property of a theorem.
Liveness (`RolloutCompletes`, `DisabledStaysDown`, `WaypointFollows`, `ReleaseSettles`,
`TroubleFails`, `ManagersReturn`) is not: it rests on ENABLED, which is out of the prover's
reach. Nor are the four runs that violate what a comment says, and the events that
section 3 switches off for a property are off in its theorem as well. The theorems
of the library that take a property as a parameter cannot be used, which is why
`Sums` states induction about sets.

## 5. What is not modelled

Abstracted: deadlines, delays and schedules are choices. In `ReleaseManager` the ramp gate is
open or closed, except that an incarnation without a Revision or without running replicas never
passes it, a fleet has one cluster, and the objects around the revisions have no state: their
errors are `Abort`. `Autoscaling` and `Target` have what is missing there, each for a part:
`Autoscaling` sees one revision (the older one is a number of pods that shrinks with its
traffic), `Target` has one replica, one increment in its run, and no canary or test; it sorts
incarnations without a Revision by their tags, where `ReleaseManager` takes any order of them (two
of them at once need three tags, and are both on their way out). `autoscaling` and
`target` run one cluster; with several, `Autoscaling` writes to each at its own pace, and only
the arithmetic of `Fleet` relates them. A namespace is deleted at once. An `IsExpired` TTL may
be read differently by two reconciles, which allows more than a clock does.

Left out, and why:

- *Release schedule*: time zones and calendars; its answer is an input (`Schedules`).
- *Revision webhook*: defaulting and validating one object at admission, without state.
- *Cluster and ClusterSecrets controllers*: one create, update or delete per event, apart from
  releases; whether a cluster is live is an input.
- *Manifests*: pod templates, probes, resources, expressions of rules, traffic policies, gauges.
- *Remote client cache*: it looks up an empty key and never hits, which costs time only.
- *Notifications, generated code.*
- *`Revision.Status` and the alarms saved in a manager's status*, which no code reads back: a
  manager's status update may overwrite the alarms (`controllers/releasemanager_controller.go:256`).
- *Long tags*: tags are model values; see the last list of section 6.

## 6. Where code and its comments differ

- `rm_canary_ends`: a canary that is the only releasable incarnation is handed
  the leftover, all 100%. When its TTL passes it becomes canaried, is no longer
  releasable, every weight is 0, and a VirtualService without routes is not
  written: the mesh keeps all traffic on it, its status says 0, and its next `sync`
  scales it to zero replicas. `controllers/syncer_test.go:227` says the canary "will end
  on it's own", line 284 calls canaried with traffic an "illegal state".
- `rm_only_latest`: two incarnations that become releasing in the same reconcile
  are both incremented in it, as `isRamping` was set before the ticks.
  `controllers/syncer.go:692` says that only the latest will be.

- `rm_needed`: nothing removes a target's deletable label. When a failed and
  marked Revision has `Spec.Failed` cleared, its incarnation deploys again and the
  revision controller deletes the Revision all the same. `api/v1alpha1/common.go:57`
  says the label means that the manager no longer needs it.
- `rm_all_deleted`: "Don't delete all the revisions"
  (`controllers/garbagecollector/defaultStrategy.go:30`) spares the oldest of a list
  that is all garbage. If the oldest was marked in an earlier reconcile, when the
  newer one was not garbage yet, all are marked.

Found while reading, and outside of what the runs check:

- A KEDA worker that is not routable has a maximum of 0 (`controllers/incarnation.go:541`);
  `controllers/plan/scaleRevision.go:120` says KEDA rejects that. `BoundsAccepted` excludes it.
- A revision that moves from the ambient mesh, or from KEDA, back to an HPA keeps its
  ScaledObject, and one that stops being a worker its WPA: `ScaleRevision` deletes only HPAs
  (`controllers/plan/scaleRevision.go:93`). `TakesOver` excludes such changes.
- A cluster with a scaling factor of 0 is given an HPA with a minimum of 0
  (`controllers/plan/scaleRevision.go:78`), which the API rejects; factors are not validated.
- The ScaledObject and the HPA of a tag longer than 54 characters are named by `hpaName`, and
  retired under the whole tag (`controllers/plan/retireRevision.go:103`): they stay.
- A namespace in transition drops the waypoint's label, though the comment at
  `controllers/syncer.go:154` says that both are kept.
- ServiceMonitors never carry the label that `DeleteServiceMonitors` selects by, so none is
  deleted; `ReleaseSettles` says nothing of a target that has no monitors any more.
- `EnsureWaypoint` and `patchServiceAccount` do not honour `LabelIgnore`.
- `mirrorRevision` disables external tests in its copy
  (`controllers/revision_controller.go:541`), and then overwrites the copy's spec.
- An error from Prometheus ends a reconcile before timeouts are judged
  (`controllers/revision_controller.go:216`): nothing times out while Prometheus is down.
- A Revision without targets counts as marked by all of them, and is deleted at once.
- `Scale.Min` is dereferenced without a check (`controllers/incarnation.go:535`).

## 7. Plan

Done: the traffic split with its abstract specification and refinement; the state machine;
the reconcile with crashes and failing plans; the garbage collector; autoscaling and ramp
readiness; the namespace, routes and monitoring of a target; the revision controller and the
alert cache; theorems about every safety property of the passing runs, and about the orders
that the models choose from.

Left:

1. An `autoscaling` run with a live and a standby cluster and different scaling factors; the
   theorems have any number of both.
2. That `Target` and `Autoscaling` are views of `ReleaseManager`: the states and percentages of
   each, as a refinement. They differ in what is an input and in how much is one step.
