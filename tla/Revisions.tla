----------------------------- MODULE Revisions -----------------------------
(***************************************************************************)
(* The revision controller (controllers/revision_controller.go) at work on *)
(* one Revision: it labels it, deletes it once every target has marked it, *)
(* creates its ReleaseManagers, copies it to the mirrors, asks Prometheus  *)
(* for its alerts through a cache (prometheus/api.go), and fails it.       *)
(*                                                                         *)
(* Around it: the managers, which work at their own pace on what they read *)
(* earlier and delete themselves when they saw no Revision; users; and the *)
(* Others, reconciles of other Revisions that ask the cache the same query *)
(* (the SLO query names neither app nor tag).  Time passes in ticks; no    *)
(* call to Prometheus, with the steps that use its answer, takes more than *)
(* Latency of them.                                                        *)
(*                                                                         *)
(* An Update of an object that changed since it was read is refused, and   *)
(* the reconcile tried again: a read with the Update that follows is one   *)
(* step.  Revision.Status and the alarms in a manager's status are written *)
(* for users only and left out.                                            *)
(***************************************************************************)
EXTENDS Integers, FiniteSets, Sequences, SequencesExt

CONSTANTS
  Targets,     \* the names of Revision.Spec.Targets, in order
  Accepting,   \* those that are an AcceptanceTarget or named for production
  IgnoreSLOs,  \* Revision.Spec
  Sources,     \* what the mirror lists of configs, one list after the other: each target's
               \* ConfigMaps, Secrets and ExternalSecrets, then the additional configs
  Mirrors,     \* the mirrors, in order
  Others,      \* reconciles of other Revisions
  Worlds,      \* which of the events in EventKinds happen in a behaviour
  TTL,         \* of the cache, in ticks
  Latency,     \* bound: the ticks of a call
  MaxEvents    \* bound: the calls that fail, managers removed, Revisions unfailed or
               \* created again

EventKinds == {"alert", "create", "delete", "mark", "remove", "unfail", "mirror"}

ASSUME RevisionsAssumption ==
  /\ Worlds \subseteq SUBSET EventKinds
  /\ Targets \in Seq(Range(Targets)) \ {<<>>} /\ IgnoreSLOs \in BOOLEAN
  /\ TTL \in Nat \ {0} /\ Latency \in Nat \ {0} /\ MaxEvents \in Nat
  /\ "this" \notin Others
  /\ Mirrors \in Seq(Range(Mirrors))
  /\ Sources \in Seq(Range(Sources)) /\ "Revision" \notin UNION Range(Sources)

VARIABLES
  world,     \* the events of this behaviour, fixed; without "mirror", the Revision has
             \* Spec.DisableMirroring
  revision,  \* the Revision: whether it exists, is labelled, Spec.Failed, and the
             \* targets that marked it deletable
  manager,   \* target -> its ReleaseManager, with its status of the revision
  mirror,    \* mirror -> what was copied there
  firing,    \* an alert fires for the revision
  quiet,     \* ticks since one did
  cache,     \* the cached answer and its age; expired at TTL
  call,      \* caller -> a query on its way, its answer, and how long it takes
  pc,        \* where the reconcile is
  seen,      \* what this reconcile read of the first targets
  copying,   \* the list it copies, and to which mirror
  alarmed,   \* the answer it was given
  events     \* bounds the events

vars == <<world, revision, manager, mirror, firing, quiet, cache, call, pc, seen, copying,
          alarmed, events>>
local == <<seen, copying, alarmed>>

Event == events < MaxEvents /\ events' = events + 1

Names   == Range(Targets)
Callers == Others \cup {"this"}

\* An alarm that fired this long ago may fail a revision: the answer was on its way,
\* waited in the cache, and was used.
MaxAge == TTL + 2 * Latency

AcceptancePercentage == 50

Status == [state : {"created", "releasing", "timingout", "failed"}, peak : {0, 100},
           up : BOOLEAN]
NewStatus == [state |-> "created", peak |-> 0, up |-> FALSE]

NoManager == [phase |-> "none", sawNone |-> FALSE, status |-> NewStatus]

\* What counts of the statuses read: how many targets, whether one timed out, has
\* pods, and whether the first one that accepts releases is below the percentage.
Seen == [targets : 0 .. Len(Targets), timingOut : BOOLEAN, up : BOOLEAN,
         unaccepted : BOOLEAN]
NothingSeen == [targets |-> 0, timingOut |-> FALSE, up |-> FALSE, unaccepted |-> FALSE]

NoRevision == [present |-> FALSE, labelled |-> FALSE, failed |-> FALSE, marks |-> {}]

Steps == {"idle", "delete", "sync", "mirror", "ask", "asked", "judge", "fail"}
-----------------------------------------------------------------------------
(* Mirroring: one list of configs after the other, then the Revision.      *)

Configs == UNION Range(Sources)

Listed(k) == IF k <= Len(Sources) THEN Sources[k] ELSE {"Revision"}

FirstCopy == [mirror |-> 1, list |-> 1]

\* Mutant: a list that cannot be copied is skipped.
SkipList(at) ==
  IF at.list <= Len(Sources) THEN [at EXCEPT !.list = @ + 1]
  ELSE IF at.mirror < Len(Mirrors) THEN [mirror |-> at.mirror + 1, list |-> 1] ELSE FirstCopy

\* An error ends the mirror at hand, not the next ones; after the last, FirstCopy again.
SkipMirror(at) ==
  IF at.mirror < Len(Mirrors) THEN [mirror |-> at.mirror + 1, list |-> 1] ELSE FirstCopy

NextCopy(at) ==
  IF at.list <= Len(Sources) THEN [at EXCEPT !.list = @ + 1] ELSE SkipMirror(at)
-----------------------------------------------------------------------------
(* The cache.                                                              *)

\* Mutant: an entry does not expire.
FreshForever(entry) == entry.known

Fresh(entry) == entry.known /\ entry.age < TTL

\* Mutant: a hit keeps the entry alive.
HitRefreshes(entry) == [entry EXCEPT !.age = 0]

Hit(entry) == entry

\* Mutant: an entry is stamped with the time its query may have taken.
StoredAhead(value) == [known |-> TRUE, value |-> value, age |-> -Latency]

Stored(value) == [known |-> TRUE, value |-> value, age |-> 0]

NoCall == [on |-> FALSE, value |-> FALSE, wait |-> 0]

\* queryWithCache: checked under the lock, asked without it.
Ask(c) ==
  IF Fresh(cache)
  THEN cache' = Hit(cache) /\ call' = [call EXCEPT ![c] = NoCall]
  ELSE cache' = cache /\ call' = [call EXCEPT ![c] = [on |-> TRUE, value |-> firing, wait |-> 0]]

\* Stored in the order in which the answers come.
Answer(c) ==
  /\ call[c].on
  /\ cache' = Stored(call[c].value)
  /\ call' = [call EXCEPT ![c] = [@ EXCEPT !.on = FALSE, !.value = FALSE]]
-----------------------------------------------------------------------------
(* The reconcile.                                                          *)

Marked == revision.marks = Names

\* Nothing of a reconcile outlives it.
Done == pc' = "idle" /\ seen' = NothingSeen /\ copying' = FirstCopy /\ alarmed' = FALSE

Begin ==
  /\ pc = "idle" /\ revision.present
  /\ revision' = [revision EXCEPT !.labelled = TRUE]
  /\ pc' = IF Marked THEN "delete" ELSE "sync"
  /\ UNCHANGED <<world, manager, mirror, firing, quiet, cache, call, local, events>>

\* By name: whatever Revision has it by now.
Delete ==
  /\ pc = "delete"
  /\ revision' = NoRevision
  /\ Done
  /\ UNCHANGED <<world, manager, mirror, firing, quiet, cache, call, events>>

\* Mutant: no manager is created for a Revision that failed.
CreatedOnce(g) ==
  IF manager[g].phase = "none" /\ ~revision.failed
  THEN [NoManager EXCEPT !.phase = "alive"] ELSE manager[g]

\* A manager that waits for its finalizer is taken for one.
GetOrCreateReleaseManager(g) ==
  IF manager[g].phase = "none" THEN [NoManager EXCEPT !.phase = "alive"] ELSE manager[g]

\* The first target that accepts releases decides, whatever the others say.
Decides(g) ==
  \E n \in DOMAIN Targets : /\ Targets[n] = g /\ g \in Accepting
                            /\ \A k \in 1 .. n - 1 : Targets[k] \notin Accepting

Unaccepted(g, status) == Decides(g) /\ status.peak < AcceptancePercentage

AddTarget(s, g, status) ==
  [targets |-> s.targets + 1,
   timingOut |-> s.timingOut \/ status.state = "timingout",
   up |-> s.up \/ status.up,
   unaccepted |-> s.unaccepted \/ Unaccepted(g, status)]

\* One target after the other; then the mirrors, if the revision is deployed anywhere.
SyncReleaseManager ==
  /\ pc = "sync"
  /\ \E g \in {Targets[seen.targets + 1]} :
       /\ manager' = [manager EXCEPT ![g] = GetOrCreateReleaseManager(g)]
       /\ seen' = AddTarget(seen, g, manager'[g].status)
  /\ pc' = IF seen'.targets < Len(Targets) THEN "sync"
           ELSE IF seen'.up /\ "mirror" \in world /\ Mirrors # <<>> THEN "mirror" ELSE "ask"
  /\ UNCHANGED <<world, revision, mirror, firing, quiet, cache, call, copying, alarmed, events>>

\* A list is copied one config after the other, so that an error leaves some of it.
MirrorRevision ==
  /\ pc = "mirror"
  /\ \E m \in {Mirrors[copying.mirror]} :
       \/ /\ mirror' = [mirror EXCEPT ![m] = @ \cup Listed(copying.list)]
          /\ copying' = NextCopy(copying)
       \/ /\ \E some \in SUBSET Listed(copying.list) :
               mirror' = [mirror EXCEPT ![m] = @ \cup some]
          /\ copying' = SkipMirror(copying)
  /\ pc' = IF copying' = FirstCopy THEN "ask" ELSE "mirror"
  /\ UNCHANGED <<world, revision, manager, firing, quiet, cache, call, seen, alarmed, events>>

IsRevisionTriggered ==
  /\ pc = "ask"
  /\ Ask("this")
  /\ IF Fresh(cache) THEN alarmed' = cache.value /\ pc' = "judge"
     ELSE pc' = "asked" /\ UNCHANGED alarmed
  /\ UNCHANGED <<world, revision, manager, mirror, firing, quiet, seen, copying, events>>

Answered ==
  /\ pc = "asked"
  /\ Answer("this")
  /\ alarmed' = call["this"].value
  /\ pc' = "judge"
  /\ UNCHANGED <<world, revision, manager, mirror, firing, quiet, seen, copying, events>>

Judge ==
  /\ pc = "judge"
  /\ IF seen.timingOut \/ (alarmed /\ ~IgnoreSLOs /\ seen.unaccepted)
     THEN pc' = "fail" /\ UNCHANGED local ELSE Done
  /\ UNCHANGED <<world, revision, manager, mirror, firing, quiet, cache, call, events>>

\* The Revision is read again, and must still be there.
Fail ==
  /\ pc = "fail"
  /\ revision' = IF revision.present THEN [revision EXCEPT !.failed = TRUE] ELSE revision
  /\ Done
  /\ UNCHANGED <<world, manager, mirror, firing, quiet, cache, call, events>>

\* Any call to the API or to Prometheus fails: the reconcile is tried again.
StepFails ==
  /\ pc \notin {"idle", "mirror", "judge"}
  /\ Done
  /\ call' = [call EXCEPT !["this"] = NoCall]
  /\ Event
  /\ UNCHANGED <<world, revision, manager, mirror, firing, quiet, cache>>

Reconcile ==
  \/ Delete \/ SyncReleaseManager \/ MirrorRevision \/ IsRevisionTriggered \/ Answered
  \/ Judge \/ Fail
-----------------------------------------------------------------------------
(* The managers.  They find the Revision by its labels.                    *)

Visible == revision.present /\ revision.labelled

StatusAfter(s) ==
  IF revision.failed THEN {[s EXCEPT !.state = "failed", !.up = FALSE]}
  ELSE CASE s.state \in {"created", "failed"} ->
              {[s EXCEPT !.state = "releasing", !.up = TRUE]}
         [] s.state = "releasing" /\ s.peak = 0 ->
              {[s EXCEPT !.peak = 100], [s EXCEPT !.state = "timingout"]}
         [] OTHER -> {s}

Manage(g) ==
  /\ manager[g].phase = "alive"
  /\ IF Visible
     THEN \E s \in StatusAfter(manager[g].status) :
            manager' = [manager EXCEPT ![g].status = s, ![g].sawNone = FALSE]
     ELSE manager' = [manager EXCEPT ![g].sawNone = TRUE]
  /\ UNCHANGED <<world, revision, mirror, firing, quiet, cache, call, pc, local, events>>

\* A manager that other Revisions keep drops the status of one that is gone.
Forget(g) ==
  /\ manager[g].phase = "alive" /\ ~revision.present
  /\ manager' = [manager EXCEPT ![g].status = NewStatus]
  /\ UNCHANGED <<world, revision, mirror, firing, quiet, cache, call, pc, local, events>>

DeleteSelf(g) ==
  /\ manager[g].phase = "alive" /\ manager[g].sawNone
  /\ manager' = [manager EXCEPT ![g].phase = "dying"]
  /\ UNCHANGED <<world, revision, mirror, firing, quiet, cache, call, pc, local, events>>

Finalize(g) ==
  /\ manager[g].phase = "dying"
  /\ manager' = [manager EXCEPT ![g] = NoManager]
  /\ UNCHANGED <<world, revision, mirror, firing, quiet, cache, call, pc, local, events>>

\* Garbage: a failed revision whose TTL is up.
MarkDeletable(g) ==
  /\ "mark" \in world
  /\ manager[g].phase = "alive" /\ manager[g].status.state = "failed" /\ revision.present
  /\ revision' = [revision EXCEPT !.marks = @ \cup {g}]
  /\ UNCHANGED <<world, manager, mirror, firing, quiet, cache, call, pc, local, events>>

RemoveManager(g) ==
  /\ "remove" \in world /\ manager[g].phase = "alive"
  /\ manager' = [manager EXCEPT ![g].phase = "dying"]
  /\ Event
  /\ UNCHANGED <<world, revision, mirror, firing, quiet, cache, call, pc, local>>
-----------------------------------------------------------------------------
(* Users, alerts and time.                                                 *)

CreateRevision ==
  /\ "create" \in world /\ ~revision.present
  /\ revision' = [NoRevision EXCEPT !.present = TRUE]
  /\ Event
  /\ UNCHANGED <<world, manager, mirror, firing, quiet, cache, call, pc, local>>

DeleteRevision ==
  /\ "delete" \in world /\ revision.present
  /\ revision' = NoRevision
  /\ UNCHANGED <<world, manager, mirror, firing, quiet, cache, call, pc, local, events>>

Unfail ==
  /\ "unfail" \in world /\ revision.failed
  /\ revision' = [revision EXCEPT !.failed = FALSE]
  /\ Event
  /\ UNCHANGED <<world, manager, mirror, firing, quiet, cache, call, pc, local>>

Alert ==
  /\ "alert" \in world
  /\ firing' = ~firing
  /\ quiet' = 0
  /\ UNCHANGED <<world, revision, manager, mirror, cache, call, pc, local, events>>

\* Another reconcile asks the same query.
OtherAsks(c) ==
  /\ "alert" \in world /\ ~call[c].on
  /\ Ask(c)
  /\ UNCHANGED <<world, revision, manager, mirror, firing, quiet, pc, local, events>>

OtherAnswered(c) ==
  /\ Answer(c)
  /\ UNCHANGED <<world, revision, manager, mirror, firing, quiet, pc, local, events>>

\* The reconcile is between its question and its verdict.
Waiting(c) == IF c = "this" THEN pc \in {"asked", "judge", "fail"} ELSE call[c].on

Older(n, bound) == IF n < bound THEN n + 1 ELSE bound

Tick ==
  /\ \A c \in Callers : Waiting(c) => call[c].wait < Latency
  /\ quiet' = IF firing THEN 0 ELSE Older(quiet, MaxAge)
  /\ cache' = [cache EXCEPT !.age = Older(@, TTL)]
  /\ call' = [c \in Callers |->
                IF Waiting(c) THEN [call[c] EXCEPT !.wait = @ + 1] ELSE NoCall]
  /\ UNCHANGED <<world, revision, manager, mirror, firing, pc, local, events>>
-----------------------------------------------------------------------------
Init ==
  /\ world \in Worlds
  /\ revision = [NoRevision EXCEPT !.present = TRUE]
  /\ manager = [g \in Names |-> NoManager]
  /\ mirror = [m \in Range(Mirrors) |-> {}]
  /\ firing \in BOOLEAN /\ quiet = IF firing THEN 0 ELSE MaxAge
  /\ cache = [known |-> FALSE, value |-> FALSE, age |-> TTL]
  /\ call = [c \in Callers |-> NoCall]
  /\ pc = "idle" /\ seen = NothingSeen /\ copying = FirstCopy /\ alarmed = FALSE
  /\ events = 0

Next ==
  \/ Begin \/ Reconcile \/ StepFails
  \/ \E g \in Names : \/ Manage(g) \/ Forget(g) \/ DeleteSelf(g) \/ Finalize(g)
                      \/ MarkDeletable(g) \/ RemoveManager(g)
  \/ CreateRevision \/ DeleteRevision \/ Unfail \/ Alert
  \/ \E c \in Others : OtherAsks(c) \/ OtherAnswered(c)
  \/ Tick

Spec == Init /\ [][Next]_vars

(***************************************************************************)
(* A Revision is requeued after every reconcile, and a manager until it is *)
(* finalized; queries are answered; time passes.                           *)
(***************************************************************************)
Fairness ==
  /\ WF_vars(Begin) /\ WF_vars(Reconcile)
  /\ \A g \in Names : WF_vars(Finalize(g))
  /\ \A c \in Others : WF_vars(OtherAnswered(c))
  /\ SF_vars(Tick)

FairSpec == Spec /\ Fairness
-----------------------------------------------------------------------------
\* Types; no query is older than the bound on its latency.
TypeOK ==
  /\ world \in Worlds
  /\ revision \in [present : BOOLEAN, labelled : BOOLEAN, failed : BOOLEAN,
                   marks : SUBSET Names]
  /\ manager \in [Names -> [phase : {"none", "alive", "dying"}, sawNone : BOOLEAN,
                            status : Status]]
  /\ mirror \in [Range(Mirrors) -> SUBSET (Configs \cup {"Revision"})]
  /\ firing \in BOOLEAN /\ quiet \in 0 .. MaxAge
  /\ cache \in [known : BOOLEAN, value : BOOLEAN, age : 0 .. TTL]
  /\ call \in [Callers -> [on : BOOLEAN, value : BOOLEAN, wait : 0 .. Latency]]
  /\ pc \in Steps /\ seen \in Seen /\ alarmed \in BOOLEAN
  /\ copying \in [mirror : 1 .. Len(Mirrors) + 1, list : 1 .. Len(Sources) + 1]
  /\ events \in 0 .. MaxEvents

\* An alert fails a revision only when it fired a moment ago: within the cache's TTL
\* and the time of two queries, whatever older answers overtook newer ones
\* (queryWithCache); otherwise a target timed out.
FailedByRecentAlert ==
  [][pc = "fail" /\ revision.failed' /\ ~revision.failed =>
       seen.timingOut \/ quiet < MaxAge]_vars

\* Below the acceptance percentage an alert that keeps firing fails the revision, and
\* so does a target that timed out, however many reconciles share the cache, and
\* although mirrors may never be reached (Reconcile).
TroubleFails ==
  /\ <>[](/\ revision.present /\ firing /\ ~IgnoreSLOs
          /\ \E g \in Names : manager[g].phase = "alive" /\ Unaccepted(g, manager[g].status))
       => <>[]revision.failed
  /\ <>[](/\ revision.present
          /\ \E g \in Names : /\ manager[g].phase = "alive"
                              /\ manager[g].status.state = "timingout")
       => <>[]revision.failed

\* A Revision that stays has managers in the end, also when it was created while the
\* managers of its predecessors deleted themselves (getOrCreateReleaseManager).
ManagersReturn ==
  <>[]revision.present => <>[](\A g \in Names : manager[g].phase = "alive")

\* A mirror that has the Revision has all of its configs (mirrorRevision).
MirrorWhole ==
  \A m \in Range(Mirrors) : "Revision" \in mirror[m] => Configs \subseteq mirror[m]
=============================================================================
