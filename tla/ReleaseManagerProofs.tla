------------------------ MODULE ReleaseManagerProofs ------------------------
(***************************************************************************)
(* The safety of a reconcile, for every number of revisions and every      *)
(* target.                                                                 *)
(*                                                                         *)
(* Each part starts with an inductive invariant, shows that every step     *)
(* keeps it, and ends in the theorem on the property that follows.  The    *)
(* later ones build on the earlier ones:                                   *)
(*                                                                         *)
(*   Typed        (ReleaseManagerTypes)                                    *)
(*   NilFree      => NoNilRevision                                         *)
(*   NeverShipped => NeverEligibleNeverServes                              *)
(*   WholeMesh    => MeshComplete                                          *)
(*   Unserved     => RetiredUnserved                                       *)
(*   Fresh           what is in memory is what was read, hence Known ==    *)
(*                   Typed, Unserved and Fresh                             *)
(*   GoneForGood, RulesFollow   => CanaryRulesRemoved                      *)
(*   ShippedTested              => TestedBeforeTraffic                     *)
(*   InStep       => DrainUnlessAlone, DrainBeforeScaleDown, StatusIsMesh, *)
(*                   RouteHasSubset, MarkedUnserved                        *)
(*                                                                         *)
(* Some hold only when the environment does not do everything it may: each *)
(* of these theorems names what it assumes (NoRecreate, NoUnfail, Quiet,   *)
(* NoCanaries).                                                            *)
(***************************************************************************)
EXTENDS ReleaseManagerTypes

\* The records that a handler answers with.
USE DEF Then, To
-----------------------------------------------------------------------------
(* What the environment leaves alone.                                      *)

\* The users and the cluster write no memory of the reconcile, no routes, and neither a
\* state nor a percentage of the status.
LeavesAlone ==
  /\ UNCHANGED <<canaryRules, subsets, mesh, memory>>
  /\ DOMAIN status' = DOMAIN status
  /\ \A t \in DOMAIN status :
       /\ status'[t].state = status[t].state /\ status'[t].cur = status[t].cur
       /\ status'[t].elig = status[t].elig
  /\ pc \notin {"idle", "collect"} => revision' = revision
  /\ everEligible \subseteq everEligible'

\* The reconcile reads the Revisions again only between two reconciles: no step of a user
\* reaches it in between.
LEMMA EnvironmentKeeps ==
  ASSUME TypeOK, Environment
  PROVE  LeavesAlone
<1>1. ASSUME NEW t \in Tags, Users(t), pc \in {"idle", "collect"} PROVE LeavesAlone
  BY <1>1, UsersType DEF cluster, LeavesAlone
<1>2. ASSUME NEW t \in Tags, CanaryTTLPasses(t), pc = "idle" PROVE LeavesAlone
  <2> DEFINE s == [status[t] EXCEPT !.canary = "over"]
  <2>1. t \in DOMAIN status /\ status' = [status EXCEPT ![t] = s]
    BY <1>2 DEF CanaryTTLPasses
  <2>2. s.state = status[t].state /\ s.cur = status[t].cur /\ s.elig = status[t].elig
    BY <2>1 DEF TypeOK, IsPartial, Status
  <2>3. UNCHANGED <<revision, manager, cluster, memory, everEligible>>
    BY <1>2 DEF CanaryTTLPasses
  <2>. HIDE DEF s
  <2>. QED BY <2>1, <2>2, <2>3 DEF cluster, LeavesAlone
<1>3. ASSUME NEW t \in Tags, PodsReady(t) \/ PodsLost(t) PROVE LeavesAlone
  BY <1>3 DEF PodsReady, PodsLost, LeavesAlone
<1>4. CASE CreateManager
  BY <1>4 DEF CreateManager, cluster, LeavesAlone
<1>. QED BY <1>1, <1>2, <1>3, <1>4 DEF Environment
-----------------------------------------------------------------------------
(* Nothing is dereferenced that is not there.                              *)

\* What has been ticked is not in a state that needs its Revision without one.
NilFree ==
  \A t \in DOMAIN inc \ todo :
    ~inc[t].rev => inc[t].state \notin DeployedStates \cup {"deploying"}

\* Every handler of a state that dereferences its Revision tests for it first.
LEMMA HandlerLetsGo ==
  ASSUME NEW d, d.state \in States, ~d.rev
  PROVE  Handle(d).next \notin DeployedStates \cup {"deploying"}
BY DEF Handle, States, DeployedStates, ToRelease, Created, Deploying, Deployed, PendingTest,
   Testing, Tested, PendingRelease, Releasing, Retiring, Retired, Deleting, Deleted, Failing,
   Failed, Canarying, Canaried, Timingout

\* After its tick an incarnation without a Revision is on its way out.
LEMMA NextNilFree ==
  ASSUME Typed, NilFree, [Next]_vars
  PROVE  NilFree'
<1>0. TypeOK /\ Structure
  BY DEF Typed
<1>1. ASSUME UNCHANGED <<inc, todo>> PROVE NilFree'
  BY <1>1 DEF NilFree
<1>2. ASSUME Forget PROVE NilFree'
  BY <1>2 DEF NilFree, Forget, Empty
<1>3. CASE Begin
  BY <1>3 DEF NilFree, Begin
<1>4. CASE Tick
  <2>1. PICK t, d : Ticks(t, d)
    BY <1>0, <1>4, TickTicks DEF Typed
  <2>2. /\ DOMAIN inc' = DOMAIN inc /\ inc'[t].state = Handle(d).next
        /\ inc'[t].rev = inc[t].rev /\ todo' = todo \ {t}
        /\ \A u \in DOMAIN inc \ {t} : inc'[u] = inc[u]
    BY <1>0, <2>1, TicksIncarnations DEF Structure, Ticks
  <2>3. d.rev = inc[t].rev /\ d.state \in States
    BY <1>0, <2>1 DEF Ticks, Shows, Structure, TypeOK, IsPartial, Incarnation
  <2>4. ~inc'[t].rev => inc'[t].state \notin DeployedStates \cup {"deploying"}
    BY <2>2, <2>3, HandlerLetsGo
  <2>. QED BY <2>2, <2>4 DEF NilFree
<1>5. CASE RouteSubsets
  <2>1. /\ DOMAIN Observed = DOMAIN inc /\ todo' = todo
        /\ \A t \in DOMAIN inc : SameBut(inc[t], Observed[t])
        /\ NoRoutes \/ \E s : Routes(s)
    BY <1>0, <1>5, ObservedType, RouteRoutes DEF Typed
  <2>. HIDE DEF Observed
  <2>2. DOMAIN inc' = DOMAIN inc /\ \A t \in DOMAIN inc : SameBut(Observed[t], inc'[t])
    BY <2>1 DEF NoRoutes, Routes, Prepared, SplitsOf, SameBut
  <2>. QED BY <2>1, <2>2 DEF NilFree, SameBut
<1>. QED
  BY <1>0, <1>1, <1>2, <1>3, <1>4, <1>5, EnvironmentKeeps
  DEF LeavesAlone, Next, Reconcile, TickFails, DeleteSelf, Finalize, RouteWeights, Collect, Persist, Abort,
      memory, vars

(***************************************************************************)
(* prepareRevisions and the routes dereference the Revision of what is     *)
(* deployed or deploying: after the ticks each of these has one, though    *)
(* any Revision may be deleted before any reconcile.                       *)
(***************************************************************************)
THEOREM NothingNil == Spec => []NoNilRevision
<1>1. Init => NilFree
  BY DEF Init, NilFree, Empty
<1>2. Typed /\ NilFree => NoNilRevision
  BY DEF Typed, Structure, NilFree, NoNilRevision
<1>. QED BY <1>1, <1>2, NextNilFree, AlwaysTyped, PTL DEF Spec
-----------------------------------------------------------------------------
\* What the second observation leaves of the percentage of t.
Left(t) == IF replicaSet[t] = "none" THEN 0 ELSE inc[t].cur

\* The second observation finds t releasable.
Takes(t) ==
  \/ inc[t].state \in Canaries \cup Live
  \/ inc[t].state \in Draining /\ Left(t) > 0

\* The percentage of t in f, if it is there.
Part(f, t) == IF t \in DOMAIN f THEN f[t].cur ELSE 0

\* The step from the ticks to the routes, in terms of the incarnations.
Splits ==
  /\ DOMAIN inc' = DOMAIN inc
  /\ \A t \in DOMAIN inc : SameBut(inc[t], inc'[t])
  /\ pc' \in {"collect", "weights"}
  /\ pc' = "collect" =>
       /\ UNCHANGED <<subsets, plan>>
       /\ \A t \in DOMAIN inc : inc'[t].cur = Left(t) /\ inc'[t].state \notin DeployedStates
  /\ pc' = "weights" =>
       /\ \A t \in Tags : plan'[t] = Part(inc', t)
       /\ SumFunction(plan') \in {0, 100}
       /\ (\E t \in DOMAIN inc : Takes(t)) => SumFunction(plan') = 100
       /\ \A t \in DOMAIN inc : inc'[t].cur > 0 => Takes(t)
       /\ subsets' = {t \in DOMAIN inc : inc[t].state \in DeployedStates \/ Takes(t)}

\* syncApp, by the incarnations alone: the split of prepareRevisions is not in sight any
\* more.
LEMMA RouteSplits ==
  ASSUME Typed, RouteSubsets
  PROVE  /\ pc = "route" /\ Splits
         /\ UNCHANGED <<revision, manager, status, replicaSet, canaryRules, mesh, ramping,
                        todo, everEligible>>
<1>1. /\ pc = "route"
      /\ UNCHANGED <<revision, manager, status, replicaSet, canaryRules, mesh, ramping, todo,
                     everEligible>>
      /\ \/ DeployedTags(Observed) = {} /\ NoRoutes
         \/ DeployedTags(Observed) # {} /\ \E s : Routes(s)
  BY RouteRoutes
<1>2. /\ IsPartial(Observed, Tags, Incarnation) /\ DOMAIN Observed = DOMAIN inc
      /\ DOMAIN inc \subseteq Tags
      /\ \A t \in DOMAIN inc : SameBut(inc[t], Observed[t]) /\ Observed[t].cur = Left(t)
  BY ObservedType DEF Typed, TypeOK, IsPartial, Left
<1>. HIDE DEF Observed
<1>3. CASE DeployedTags(Observed) = {} /\ NoRoutes
  BY <1>1, <1>2, <1>3 DEF Splits, NoRoutes, DeployedTags, SameBut
<1>4. ASSUME NEW s, Routes(s) PROVE Splits
  <2>1. /\ DOMAIN inc' = DOMAIN inc /\ pc' = "weights"
        /\ \A t \in DOMAIN inc : SameBut(inc[t], inc'[t])
        /\ \A t \in Tags : plan'[t] = Part(inc', t)
    BY <1>2, <1>4 DEF Routes, Prepared, SplitsOf, SameBut, Part
  <2>2. /\ SumFunction(plan') \in {0, 100}
        /\ ReleasableTags(Observed) # {} => SumFunction(plan') = 100
    BY <1>4 DEF Routes, Prepared
  <2>3. \A t \in DOMAIN inc : IsReleasable(Observed[t]) <=> Takes(t)
    BY <1>2 DEF IsReleasable, SameBut, Takes
  <2>4. \A t \in DOMAIN inc : inc'[t].cur > 0 => Takes(t)
    BY <1>2, <1>4, <2>3 DEF Routes, Prepared
  <2>5. subsets' = {t \in DOMAIN inc : inc[t].state \in DeployedStates \/ Takes(t)}
    BY <1>2, <1>4, <2>3 DEF Routes, PlannedTags, DeployedTags, SameBut
  <2>6. (\E t \in DOMAIN inc : Takes(t)) => ReleasableTags(Observed) # {}
    BY <1>2, <2>3 DEF ReleasableTags
  <2>. QED BY <2>1, <2>2, <2>4, <2>5, <2>6 DEF Splits
<1>. QED BY <1>1, <1>3, <1>4
-----------------------------------------------------------------------------
(* Who was never eligible has no part in the traffic.                      *)

\* The states on the way to traffic, and those on the way out of it.
Shipped == {"canarying", "canaried", "pendingrelease"} \cup Live
Out == {"retiring", "retired", "deleting", "deleted", "failing", "failed"}

\* An incarnation that has no part in the traffic, nor is about to have one.
Barred(i) == i.cur = 0 /\ i.state \notin Shipped

(***************************************************************************)
(* An incarnation that may be eligible by its status, because it expired   *)
(* and was recommissioned, has to come back through "deploying", and takes *)
(* its eligibility from the Revision again when it starts from there.      *)
(***************************************************************************)
NeverShipped ==
  \A t \in Tags \ everEligible :
    /\ mesh[t] = 0 /\ plan[t] = 0
    /\ t \in DOMAIN revision => ~revision[t].elig
    /\ t \in DOMAIN status =>
         /\ Barred(status[t])
         /\ status[t].elig => status[t].state \in Out \cup {"deploying"}
    /\ t \in DOMAIN inc =>
         /\ Barred(inc[t])
         /\ inc[t].elig => inc[t].state \in IF t \in todo THEN Out ELSE Out \cup {"deploying"}

\* Without being eligible no handler leads to a state that ships.
LEMMA HandlerHoldsBack ==
  ASSUME NEW d, d.state \in States, d.state \notin Shipped, d.elig => d.state \in Out
  PROVE  /\ Handle(d).next \notin Shipped
         /\ d.elig => Handle(d).next \in Out \cup {"deploying"}
<1>. USE DEF Handle, ToRelease, Created, Deploying, Deployed, PendingTest, Testing, Tested,
             PendingRelease, Releasing, Retiring, Retired, Deleting, Deleted, Failing, Failed,
             Canarying, Canaried, Timingout
<1>1. CASE d.state \in Out
  <2>1. Handle(d).next \in Out \cup {"deploying"}
    BY <1>1 DEF Out
  <2>. QED BY <2>1 DEF Out, Shipped, Live
<1>2. CASE ~d.elig /\ d.state \notin Out
  BY <1>2 DEF Shipped, Out, Live, States
<1>. QED BY <1>1, <1>2

\* Who becomes eligible is in everEligible from then on.
LEMMA EnvironmentNeverShips ==
  ASSUME TypeOK, NeverShipped, Environment
  PROVE  NeverShipped'
<1>1. LeavesAlone
  BY EnvironmentKeeps
<1>2. ASSUME NEW t \in DOMAIN revision', t \notin everEligible'
      PROVE  ~revision'[t].elig
  <2>1. ASSUME NEW u \in Tags, Users(u) PROVE ~revision'[t].elig
    <3>1. CASE CreateRevision(u)
      <4>1. PICK e \in EligChoices, x \in ExtTests :
              /\ revision' = [v \in DOMAIN revision \cup {u} |->
                   IF v = u THEN [elig |-> e, failed |-> FALSE, failedAt |-> FALSE, ext |-> x,
                                  deletable |-> FALSE]
                   ELSE revision[v]]
              /\ everEligible' = IF e THEN everEligible \cup {u} ELSE everEligible
        BY <3>1 DEF CreateRevision
      <4>2. CASE t = u
        BY <1>2, <4>1, <4>2
      <4>3. CASE t # u
        BY <1>1, <1>2, <4>1, <4>3 DEF NeverShipped, LeavesAlone, TypeOK, IsPartial
      <4>. QED BY <4>2, <4>3
    <3>2. CASE DeleteRevision(u) \/ DeleteMarked(u)
      BY <1>2, <3>2 DEF DeleteRevision, DeleteMarked, NeverShipped, TypeOK, IsPartial, Restrict
    <3>3. CASE SetEligible(u)
      <4>1. PICK e \in EligChoices :
              /\ revision' = [revision EXCEPT ![u].elig = e]
              /\ everEligible' = IF e THEN everEligible \cup {u} ELSE everEligible
        BY <3>3 DEF SetEligible
      <4>2. u \in DOMAIN revision /\ \A v \in DOMAIN revision : revision[v] \in RevisionSpec
        BY <3>3 DEF SetEligible, TypeOK, IsPartial
      <4>3. CASE t = u
        BY <1>2, <4>1, <4>2, <4>3 DEF RevisionSpec
      <4>4. CASE t # u
        BY <1>1, <1>2, <4>1, <4>4 DEF NeverShipped, LeavesAlone, TypeOK, IsPartial
      <4>. QED BY <4>3, <4>4
    <3>4. CASE Fail(u) \/ Unfail(u) \/ TestProgress(u)
      <4>1. /\ DOMAIN revision' = DOMAIN revision /\ everEligible' = everEligible
            /\ revision'[t].elig = revision[t].elig
        BY <1>2, <3>4 DEF Fail, Unfail, TestProgress, TypeOK, IsPartial, RevisionSpec
      <4>. QED BY <1>2, <4>1 DEF NeverShipped, TypeOK, IsPartial
    <3>. QED BY <2>1, <3>1, <3>2, <3>3, <3>4 DEF Users
  <2>2. ASSUME UNCHANGED <<revision, everEligible>> PROVE ~revision'[t].elig
    BY <1>2, <2>2 DEF NeverShipped, TypeOK, IsPartial
  <2>. QED
    BY <2>1, <2>2
    DEF Environment, CanaryTTLPasses, PodsReady, PodsLost, CreateManager
<1>. QED BY <1>1, <1>2 DEF NeverShipped, LeavesAlone, Barred, memory

\* No step ships what was never eligible.
LEMMA NextNeverShipped ==
  ASSUME Typed, NeverShipped, [Next]_vars
  PROVE  NeverShipped'
<1>0. TypeOK /\ Structure
  BY DEF Typed
<1>1. CASE Begin
  <2>1. /\ inc' = [t \in DOMAIN revision \cup DOMAIN status |-> NewIncarnation(t)]
        /\ todo' = DOMAIN inc'
        /\ UNCHANGED <<revision, status, mesh, plan, everEligible>>
    BY <1>1 DEF Begin, cluster
  <2>2. ASSUME NEW t \in Tags \ everEligible, t \in DOMAIN inc'
        PROVE  Barred(inc'[t]) /\ (inc'[t].elig => inc'[t].state \in Out)
    <3> DEFINE s == IF t \in DOMAIN status THEN status[t] ELSE NewStatus
    <3>1. inc'[t] = NewIncarnation(t)
      BY <2>1, <2>2
    <3>2. /\ inc'[t].state = s.state
          /\ inc'[t].cur = IF replicaSet[t] = "none" THEN 0 ELSE s.cur
          /\ inc'[t].elig = Eligible(t, s)
      BY <1>0, <3>1, NewIncarnationType
    <3>3. Barred(s) /\ (s.elig => s.state \in Out \cup {"deploying"})
      BY <2>2 DEF NeverShipped, NewStatus, Barred, Shipped, Live
    <3>4. t \in DOMAIN revision => ~revision[t].elig
      BY <2>2 DEF NeverShipped
    <3>. HIDE DEF s
    <3>. QED BY <3>2, <3>3, <3>4 DEF Barred, Eligible, Out
  <2>. QED BY <2>1, <2>2 DEF NeverShipped
<1>2. CASE Tick
  <2>1. PICK t, d : Ticks(t, d)
    BY <1>0, <1>2, TickTicks DEF Typed
  <2>2. /\ DOMAIN inc' = DOMAIN inc /\ inc'[t].state = Handle(d).next
        /\ inc'[t].cur = inc[t].cur /\ inc'[t].elig = inc[t].elig
        /\ todo' = todo \ {t} /\ t \in todo /\ t \in DOMAIN inc
        /\ \A u \in DOMAIN inc \ {t} : inc'[u] = inc[u]
    BY <1>0, <2>1, TicksIncarnations DEF Structure, Ticks
  <2>3. UNCHANGED <<revision, status, mesh, plan, everEligible>>
    BY <1>0, <1>2, TickTicks DEF Typed
  <2>4. ASSUME t \notin everEligible
        PROVE  Barred(inc'[t]) /\ (inc'[t].elig => inc'[t].state \in Out \cup {"deploying"})
    <3>1. /\ d.state = inc[t].state /\ d.elig = inc[t].elig /\ d.state \in States
          /\ t \in Tags
      BY <1>0, <2>1, <2>2, TicksShows DEF TypeOK, IsPartial
    <3>2. Barred(inc[t]) /\ (inc[t].elig => inc[t].state \in Out)
      BY <2>2, <2>4, <3>1 DEF NeverShipped
    <3>. QED BY <2>2, <3>1, <3>2, HandlerHoldsBack DEF Barred
  <2>. QED BY <2>2, <2>3, <2>4 DEF NeverShipped
<1>3. CASE RouteSubsets
  <2>1. /\ pc = "route" /\ Splits
        /\ UNCHANGED <<revision, status, mesh, todo, everEligible>>
    BY <1>0, <1>3, RouteSplits DEF Typed
  <2>2. todo = {}
    BY <1>0, <2>1 DEF Structure
  <2>3. ASSUME NEW t \in Tags \ everEligible, t \in DOMAIN inc'
        PROVE  /\ Barred(inc'[t])
               /\ inc'[t].elig => inc'[t].state \in Out \cup {"deploying"}
    <3>1. t \in DOMAIN inc /\ SameBut(inc[t], inc'[t])
      BY <2>1, <2>3 DEF Splits
    <3>2. Barred(inc[t]) /\ (inc[t].elig => inc[t].state \in Out \cup {"deploying"})
      BY <2>2, <2>3, <3>1 DEF NeverShipped
    <3>3. inc'[t].cur \in Nat /\ Left(t) = 0
      <4>1. TypeOK'
        BY <1>0, <1>3, RouteSubsetsType DEF Typed
      <4>. QED BY <2>3, <3>2, <4>1 DEF TypeOK, IsPartial, Incarnation, Left, Barred
    <3>4. inc'[t].cur = 0
      BY <2>1, <3>1, <3>2, <3>3 DEF Splits, Takes, Barred, Shipped, Canaries, Draining
    <3>. QED BY <3>1, <3>2, <3>4 DEF Barred, SameBut
  <2>4. ASSUME NEW t \in Tags \ everEligible PROVE plan'[t] = 0
    <3>1. CASE pc' = "collect"
      BY <2>1, <3>1 DEF Splits, NeverShipped
    <3>2. CASE pc' = "weights"
      BY <2>1, <2>3, <3>2 DEF Splits, Part, Barred
    <3>. QED BY <2>1, <3>1, <3>2 DEF Splits
  <2>. QED BY <2>1, <2>2, <2>3, <2>4 DEF NeverShipped
<1>4. CASE RouteWeights
  BY <1>4 DEF RouteWeights, NeverShipped
<1>5. CASE Collect
  <2>1. /\ UNCHANGED <<status, mesh, inc, todo, plan, everEligible>>
        /\ DOMAIN revision' = DOMAIN revision
        /\ \A t \in DOMAIN revision : revision'[t].elig = revision[t].elig
    BY <1>0, <1>5, CollectMarks DEF cluster
  <2>. QED BY <2>1 DEF NeverShipped
<1>6. CASE Persist
  <2>1. /\ pc = "persist" /\ Forget /\ UNCHANGED <<revision, mesh, everEligible>>
        /\ DOMAIN status' = Kept(inc)
        /\ \A t \in Kept(inc) :
             /\ status'[t].state = inc[t].state /\ status'[t].cur = inc[t].cur
             /\ status'[t].elig = inc[t].elig \/ t \in Recommissioned(inc)
    BY <1>0, <1>6, PersistKeeps DEF cluster
  <2>2. todo = {}
    BY <1>0, <2>1 DEF Structure
  <2>3. ASSUME NEW t \in Tags \ everEligible, t \in DOMAIN status'
        PROVE  /\ Barred(status'[t])
               /\ status'[t].elig => status'[t].state \in Out \cup {"deploying"}
    <3>1. t \in DOMAIN inc /\ t \in Kept(inc)
      BY <2>1, <2>3 DEF Kept
    <3>2. Barred(inc[t]) /\ (inc[t].elig => inc[t].state \in Out \cup {"deploying"})
      BY <2>2, <2>3, <3>1 DEF NeverShipped
    <3>3. t \in Recommissioned(inc) => inc[t].state \in Out
      BY DEF Recommissioned, Out
    <3>. QED BY <2>1, <3>1, <3>2, <3>3 DEF Barred
  <2>. QED BY <2>1, <2>3 DEF NeverShipped, Forget, NoWeights, Empty
<1>7. CASE TickFails \/ Abort
  BY <1>7 DEF TickFails, Abort, Forget, NeverShipped, NoWeights, Empty, cluster
<1>8. CASE DeleteSelf \/ Finalize
  BY <1>8 DEF DeleteSelf, Finalize, NeverShipped, NoWeights, Empty, cluster, memory
<1>9. CASE UNCHANGED vars
  BY <1>9 DEF NeverShipped, vars, cluster, memory
<1>. QED
  BY <1>0, <1>1, <1>2, <1>3, <1>4, <1>5, <1>6, <1>7, <1>8, <1>9, EnvironmentNeverShips
  DEF Next, Reconcile

(***************************************************************************)
(* A revision that nobody made eligible gets no traffic: not through the   *)
(* leftover of prepareRevisions, nor when its status made it eligible      *)
(* because it expired and was recommissioned.                              *)
(***************************************************************************)
THEOREM NeverEligibleNeverServed == Spec => []NeverEligibleNeverServes
<1>1. Init => NeverShipped
  BY DEF Init, NeverShipped, NoWeights, Empty
<1>2. Typed /\ NeverShipped => NeverEligibleNeverServes
  BY DEF Typed, TypeOK, IsPartial, NeverShipped, NeverEligibleNeverServes
<1>. QED BY <1>1, <1>2, NextNeverShipped, AlwaysTyped, PTL DEF Spec
-----------------------------------------------------------------------------
(* The weights are complete.                                               *)

\* What is routed, and what is about to be, is everything or nothing.
WholeMesh == SumFunction(mesh) \in {0, 100} /\ SumFunction(plan) \in {0, 100}

\* A VirtualService without routes.
LEMMA NoWeightsSum == SumFunction(NoWeights) = 0
<1>1. NoWeights \in [Tags -> Int] /\ (\A t \in Tags : NoWeights[t] = 0) /\ IsFiniteSet(Tags)
  BY TagsAssumption DEF NoWeights
<1>. QED BY <1>1, SumZero

\* Only a split of prepareRevisions is ever written as routes.
LEMMA NextWholeMesh ==
  ASSUME Typed, WholeMesh, [Next]_vars
  PROVE  WholeMesh'
<1>0. TypeOK /\ Structure
  BY DEF Typed
<1>1. CASE UNCHANGED <<mesh, plan>>
  BY <1>1 DEF WholeMesh
<1>2. CASE Forget /\ mesh' = mesh
  BY <1>2, NoWeightsSum DEF WholeMesh, Forget
<1>3. CASE RouteSubsets
  <2>1. Splits /\ mesh' = mesh
    BY <1>0, <1>3, RouteSplits DEF Typed
  <2>. QED BY <2>1 DEF Splits, WholeMesh
<1>4. CASE RouteWeights
  BY <1>4 DEF RouteWeights, WholeMesh
<1>5. CASE Finalize
  BY <1>5, NoWeightsSum DEF Finalize, WholeMesh, memory
<1>. QED
  BY <1>0, <1>1, <1>2, <1>3, <1>4, <1>5, EnvironmentKeeps
  DEF Next, Reconcile, LeavesAlone, Begin, Tick, TickFails, DeleteSelf, Collect, Persist, Abort,
      memory, cluster, vars

(***************************************************************************)
(* The weights of the VirtualService add up to 100, or there are none,     *)
(* however many revisions share the traffic and whatever step of the       *)
(* reconcile was the last.                                                 *)
(***************************************************************************)
THEOREM MeshAlwaysComplete == Spec => []MeshComplete
<1>1. Init => WholeMesh
  BY NoWeightsSum DEF Init, WholeMesh
<1>2. WholeMesh => MeshComplete
  BY DEF WholeMesh, MeshComplete
<1>. QED BY <1>1, <1>2, NextWholeMesh, AlwaysTyped, PTL DEF Spec
-----------------------------------------------------------------------------
(* What is retired, failed or deleted stays without traffic.               *)

\* The states in which a revision has nothing to serve.
Off == {"retired", "failed", "deleted"}

\* A release serves.
SomeLive(f) == \E u \in DOMAIN f : f[u].state \in Live

\* What waits for its tick is in the state that was persisted.
Waits == \A t \in todo : t \in DOMAIN status => inc[t].state = status[t].state

\* What is off has no percentage.
OffDry ==
  /\ \A t \in DOMAIN status : status[t].state \in Off => status[t].cur = 0
  /\ \A t \in DOMAIN inc : inc[t].state \in Off => inc[t].cur = 0

\* What was off when the reconcile began is given nothing by it.
StaysOff ==
  \A t \in DOMAIN status \cap DOMAIN inc : status[t].state \in Off =>
    inc[t].cur = 0 /\ inc[t].state \notin Canaries \cup Live /\ plan[t] = 0

\* What is off has no weight either, where a release takes all of it.
OffUnserved ==
  /\ SomeLive(status) => \A t \in DOMAIN status : status[t].state \in Off => mesh[t] = 0
  /\ pc = "weights" =>
       /\ SomeLive(inc) => SumFunction(plan) = 100
       /\ \A t \in DOMAIN inc : inc[t].state \in Off => plan[t] = 0
  /\ pc \in {"collect", "persist"} /\ SomeLive(inc) =>
       \A t \in DOMAIN inc : inc[t].state \in Off => mesh[t] = 0

\* The inductive invariant: from the observation over the ticks and the split to the
\* routes and the status that is persisted.
Unserved == Waits /\ OffDry /\ StaysOff /\ OffUnserved

\* A handler drains before it retires, fails or deletes.
LEMMA HandlerDrains ==
  ASSUME NEW d, d.state \in States, d.cur \in Nat, d.state \in Off => d.cur = 0
  PROVE  /\ Handle(d).next \in Off => d.cur = 0
         /\ d.state \in Off => Handle(d).next \notin Canaries \cup Live
BY DEF Handle, States, Off, Canaries, Live, ToRelease, Created, Deploying, Deployed, PendingTest,
   Testing, Tested, PendingRelease, Releasing, Retiring, Retired, Deleting, Deleted, Failing,
   Failed, Canarying, Canaried, Timingout

\* The cluster and the Revisions are no part of the invariant.
LEMMA UnservedFrame ==
  ASSUME Unserved, UNCHANGED <<mesh, memory>>, DOMAIN status' = DOMAIN status,
         \A t \in DOMAIN status : status'[t].state = status[t].state /\ status'[t].cur = status[t].cur
  PROVE  Unserved'
<1>. USE DEF memory
<1>1. Waits' /\ OffDry'
  BY DEF Unserved, Waits, OffDry
<1>2. StaysOff'
  BY DEF Unserved, StaysOff
<1>3. OffUnserved'
  BY DEF Unserved, OffUnserved, SomeLive
<1>. QED BY <1>1, <1>2, <1>3 DEF Unserved

\* A reconcile that ends early leaves the status, and the routes, as they are.
LEMMA UnservedForget ==
  ASSUME Unserved, Forget, UNCHANGED mesh, status' = status \/ status' = Empty
  PROVE  Unserved'
BY DEF Unserved, Waits, OffDry, StaysOff, OffUnserved, SomeLive, Forget, Empty, Off

\* The observation of a reconcile starts from the status.
LEMMA BeginUnserved ==
  ASSUME Typed, Unserved, Begin
  PROVE  Unserved'
<1>0. TypeOK /\ Structure
  BY DEF Typed
<1>1. /\ inc' = [t \in DOMAIN revision \cup DOMAIN status |-> NewIncarnation(t)]
      /\ todo' = DOMAIN inc' /\ pc = "idle" /\ pc' = "tick"
      /\ UNCHANGED <<revision, status, mesh, plan>>
  BY DEF Begin, cluster
<1>2. DOMAIN inc' = DOMAIN revision \cup DOMAIN status /\ DOMAIN inc' \subseteq Tags
  BY <1>0, <1>1 DEF TypeOK, IsPartial
<1>3. ASSUME NEW t \in DOMAIN inc'
      PROVE  /\ t \in DOMAIN status => inc'[t].state = status[t].state
             /\ t \notin DOMAIN status => inc'[t].state = "created"
             /\ inc'[t].state \in Off => inc'[t].cur = 0
  <2> DEFINE s == IF t \in DOMAIN status THEN status[t] ELSE NewStatus
  <2>1. inc'[t] = NewIncarnation(t) /\ t \in Tags
    BY <1>1, <1>2, <1>3
  <2>2. /\ inc'[t].state = s.state
        /\ inc'[t].cur = IF replicaSet[t] = "none" THEN 0 ELSE s.cur
    BY <1>0, <2>1, NewIncarnationType
  <2>3. s.state \in Off => s.cur = 0
    BY DEF Unserved, OffDry, NewStatus
  <2>. QED BY <2>2, <2>3 DEF NewStatus
<1>4. \A t \in Tags : plan'[t] = 0
  BY <1>0, <1>1 DEF Structure, NoWeights
<1>5. Waits'
  BY <1>1, <1>3 DEF Waits
<1>6. OffDry'
  BY <1>1, <1>3 DEF Unserved, OffDry
<1>7. StaysOff'
  BY <1>1, <1>2, <1>3, <1>4 DEF StaysOff, Off, Canaries, Live
<1>8. OffUnserved'
  BY <1>1 DEF Unserved, OffUnserved, SomeLive
<1>. QED BY <1>5, <1>6, <1>7, <1>8 DEF Unserved

\* A tick turns off only what has no percentage.
LEMMA TickUnserved ==
  ASSUME Typed, Unserved, Tick
  PROVE  Unserved'
<1>0. TypeOK /\ Structure
  BY DEF Typed
<1>1. PICK t, d : Ticks(t, d)
  BY <1>0, TickTicks DEF Typed
<1>2. /\ DOMAIN inc' = DOMAIN inc /\ inc'[t].state = Handle(d).next
      /\ inc'[t].cur = inc[t].cur
      /\ todo' = todo \ {t} /\ t \in todo /\ t \in DOMAIN inc
      /\ \A u \in DOMAIN inc \ {t} : inc'[u] = inc[u]
      /\ pc' \in {"tick", "route"}
  BY <1>0, <1>1, TicksIncarnations DEF Structure, Ticks
<1>3. UNCHANGED <<status, mesh, plan>>
  BY <1>0, TickTicks DEF Typed
<1>4. d.state = inc[t].state /\ d.cur = inc[t].cur /\ d.state \in States /\ d.cur \in Nat
  BY <1>0, <1>1, <1>2, TicksShows
<1>5. /\ inc'[t].state \in Off => inc'[t].cur = 0
      /\ inc[t].state \in Off => inc'[t].state \notin Canaries \cup Live
  BY <1>2, <1>4, HandlerDrains DEF Unserved, OffDry
<1>6. Waits'
  <2>1. \A u \in todo' : u \in DOMAIN inc \ {t} /\ u \in todo
    BY <1>0, <1>2 DEF Structure
  <2>. QED BY <1>2, <1>3, <2>1 DEF Unserved, Waits
<1>7. OffDry'
  BY <1>2, <1>3, <1>5 DEF Unserved, OffDry
<1>8. StaysOff'
  BY <1>2, <1>3, <1>5 DEF Unserved, Waits, StaysOff
<1>9. OffUnserved'
  BY <1>2, <1>3 DEF Unserved, OffUnserved, SomeLive
<1>. QED BY <1>6, <1>7, <1>8, <1>9 DEF Unserved

\* prepareRevisions gives nothing to what is off, and all of it to others when one serves.
LEMMA SplitUnserved ==
  ASSUME Typed, Unserved, RouteSubsets
  PROVE  Unserved'
<1>0. TypeOK /\ Structure
  BY DEF Typed
<1>1. pc = "route" /\ Splits /\ UNCHANGED <<status, mesh, todo>>
  BY <1>0, RouteSplits DEF Typed
<1>2. /\ DOMAIN inc' = DOMAIN inc /\ DOMAIN inc \subseteq Tags
      /\ \A t \in DOMAIN inc : inc'[t].state = inc[t].state
      /\ pc' \in {"collect", "weights"} /\ todo = {}
  BY <1>0, <1>1 DEF Splits, SameBut, Structure, TypeOK, IsPartial
<1>3. ASSUME NEW t \in DOMAIN inc, inc[t].cur = 0, inc[t].state \notin Canaries \cup Live
      PROVE  inc'[t].cur = 0 /\ (pc' = "weights" => plan'[t] = 0)
  <2>1. inc'[t].cur \in Nat
    <3>1. TypeOK'
      BY <1>0, RouteSubsetsType DEF Typed
    <3>. QED BY <1>2, <3>1 DEF TypeOK, IsPartial, Incarnation
  <2>2. Left(t) = 0
    BY <1>3 DEF Left
  <2>3. inc'[t].cur = 0
    BY <1>1, <1>3, <2>1, <2>2 DEF Splits, Takes
  <2>. QED BY <1>1, <1>2, <2>3 DEF Splits, Part
<1>4. ASSUME NEW t \in DOMAIN inc, inc[t].state \in Off
      PROVE  inc'[t].cur = 0 /\ (pc' = "weights" => plan'[t] = 0)
  BY <1>3, <1>4 DEF Unserved, OffDry, Off, Canaries, Live
<1>5. Waits'
  BY <1>1, <1>2 DEF Waits
<1>6. OffDry'
  BY <1>1, <1>2, <1>4 DEF Unserved, OffDry
<1>7. StaysOff'
  BY <1>1, <1>2, <1>3 DEF Unserved, StaysOff, Splits
<1>8. OffUnserved'
  <2>1. pc' = "collect" => ~SomeLive(inc)'
    BY <1>1, <1>2 DEF Splits, SomeLive, Live, DeployedStates
  <2>2. pc' = "weights" /\ SomeLive(inc)' => SumFunction(plan') = 100
    BY <1>1, <1>2 DEF Splits, SomeLive, Takes
  <2>3. SomeLive(status) => \A t \in DOMAIN status : status[t].state \in Off => mesh[t] = 0
    BY DEF Unserved, OffUnserved
  <2>4. UNCHANGED <<mesh, status>>
    BY <1>1
  <2>. QED BY <1>2, <1>4, <2>1, <2>2, <2>3, <2>4 DEF OffUnserved, SomeLive
<1>. QED BY <1>5, <1>6, <1>7, <1>8 DEF Unserved

\* A plan with weights is written.
LEMMA WeightsWritten ==
  ASSUME TypeOK, RouteWeights, SumFunction(plan) = 100
  PROVE  mesh' = plan
<1> SUFFICES ASSUME ReleaseRoutes = {} PROVE FALSE
  BY DEF RouteWeights
<1>1. plan \in [Tags -> Int] /\ (\A t \in Tags : plan[t] = 0) /\ IsFiniteSet(Tags)
  BY TagsAssumption DEF TypeOK, ReleaseRoutes
<1>. QED BY <1>1, SumZero

\* The routes that are written are those that were prepared.
LEMMA WeightsUnserved ==
  ASSUME Typed, Unserved, RouteWeights
  PROVE  Unserved'
<1>0. TypeOK /\ Structure
  BY DEF Typed
<1>1. /\ pc = "weights" /\ pc' = "collect" /\ mesh' \in {mesh, plan}
      /\ UNCHANGED <<status, inc, todo, plan>>
  BY DEF RouteWeights
<1>2. SomeLive(inc) => mesh' = plan
  BY <1>0, <1>1, WeightsWritten DEF Unserved, OffUnserved
<1>3. Waits' /\ OffDry' /\ StaysOff'
  BY <1>1 DEF Unserved, Waits, OffDry, StaysOff
<1>4. OffUnserved'
  <2>1. DOMAIN status \subseteq DOMAIN inc
    BY <1>0, <1>1 DEF Structure
  <2>2. \A t \in DOMAIN status : status[t].state \in Off => plan[t] = 0
    BY <2>1 DEF Unserved, StaysOff
  <2>3. \A t \in DOMAIN inc : inc[t].state \in Off => plan[t] = 0
    BY <1>1 DEF Unserved, OffUnserved
  <2>4. SomeLive(status) => \A t \in DOMAIN status : status[t].state \in Off => mesh[t] = 0
    BY DEF Unserved, OffUnserved
  <2>5. SomeLive(status)' <=> SomeLive(status)
    BY <1>1
  <2>6. SomeLive(inc)' <=> SomeLive(inc)
    BY <1>1
  <2>. HIDE DEF SomeLive
  <2>. QED BY <1>1, <1>2, <2>2, <2>3, <2>4, <2>5, <2>6 DEF OffUnserved
<1>. QED BY <1>3, <1>4 DEF Unserved

\* The status that is persisted is what was routed.
LEMMA PersistUnserved ==
  ASSUME Typed, Unserved, Persist
  PROVE  Unserved'
<1>1. /\ pc = "persist" /\ Forget /\ mesh' = mesh
      /\ DOMAIN status' = Kept(inc) /\ Kept(inc) \subseteq DOMAIN inc
      /\ \A t \in Kept(inc) : status'[t].state = inc[t].state /\ status'[t].cur = inc[t].cur
  BY PersistKeeps DEF cluster, Kept, Typed
<1>2. SomeLive(inc) => \A t \in DOMAIN inc : inc[t].state \in Off => mesh[t] = 0
  BY <1>1 DEF Unserved, OffUnserved
<1>3. SomeLive(status)' => SomeLive(inc)
  BY <1>1 DEF SomeLive
<1>4. OffDry /\ pc' = "idle" /\ inc' = Empty /\ todo' = {}
  BY <1>1 DEF Unserved, Forget
<1>5. Waits' /\ OffDry' /\ StaysOff'
  BY <1>1, <1>4 DEF Waits, OffDry, StaysOff, Empty
<1>6. OffUnserved'
  <2>. HIDE DEF SomeLive
  <2>. QED BY <1>1, <1>2, <1>3, <1>4 DEF OffUnserved
<1>. QED BY <1>5, <1>6 DEF Unserved

\* No step serves what is retired, failed or deleted.
LEMMA NextUnserved ==
  ASSUME Typed, Unserved, [Next]_vars
  PROVE  Unserved'
<1>0. TypeOK /\ Structure
  BY DEF Typed
<1>1. CASE Environment
  BY <1>0, <1>1, EnvironmentKeeps, UnservedFrame DEF LeavesAlone
<1>2. CASE Collect
  BY <1>0, <1>2, CollectMarks DEF cluster, Unserved, Waits, OffDry, StaysOff, OffUnserved, SomeLive
<1>3. CASE TickFails \/ Abort
  BY <1>3, UnservedForget DEF TickFails, Abort, cluster
<1>4. CASE DeleteSelf \/ Finalize
  <2>1. pc = "idle" /\ status' = Empty /\ UNCHANGED memory /\ inc = Empty
    BY <1>0, <1>4 DEF DeleteSelf, Finalize, Structure
  <2>. QED
    BY <2>1 DEF Unserved, Waits, OffDry, StaysOff, OffUnserved, SomeLive, memory, Empty
<1>5. CASE UNCHANGED vars
  BY <1>5, UnservedFrame DEF vars, cluster
<1>. QED
  BY <1>1, <1>2, <1>3, <1>4, <1>5, BeginUnserved, TickUnserved, SplitUnserved, WeightsUnserved,
     PersistUnserved
  DEF Next, Reconcile

(***************************************************************************)
(* What is retired, failed or deleted has no weight while a release        *)
(* serves.  No assumption on the environment: a reconcile that fails after *)
(* writing the routes is made up for by the next one.                      *)
(***************************************************************************)
THEOREM RetiredNeverServed == Spec => []RetiredUnserved
<1>1. Init => Unserved
  BY DEF Init, Unserved, Waits, OffDry, StaysOff, OffUnserved, SomeLive, Empty
<1>2. Unserved => RetiredUnserved
  BY DEF Unserved, OffUnserved, SomeLive, Off, RetiredUnserved
<1>. QED BY <1>1, <1>2, NextUnserved, AlwaysTyped, PTL DEF Spec
-----------------------------------------------------------------------------
(* What is kept for a rollback.                                            *)

\* What a list of different elements has at the positions R is as large as R.
LEMMA PickedFromList ==
  ASSUME NEW S, IsFiniteSet(S), NEW len \in Nat, NEW list \in [1 .. len -> S],
         \A m, n \in 1 .. len : m # n => list[m] # list[n],
         NEW R \in SUBSET (1 .. len), NEW U \in SUBSET S, \A n \in R : list[n] \in U
  PROVE  Cardinality(R) <= Cardinality(U) /\ Cardinality(R) \in Nat /\ Cardinality(U) \in Nat
<1> DEFINE f == [n \in R |-> list[n]]
<1>1. f \in Injection(R, U)
  BY DEF Injection, IsInjective
<1>2. IsFiniteSet(U)
  BY FS_Subset
<1>3. IsFiniteSet(R) /\ Cardinality(R) <= Cardinality(U)
  BY <1>1, <1>2, FS_Injection
<1>. QED BY <1>2, <1>3, FS_CardinalityType

\* Garbage that is retired comes after MinimumRetired others of the list.
LEMMA RetiredGarbage ==
  ASSUME TypeOK, NEW sorted \in Sorted(inc), NEW expired, NEW t,
         t \in FindGarbage(inc, expired, sorted), inc[t].rev, inc[t].state = "retired"
  PROVE  MinimumRetired <= Cardinality({u \in DOMAIN inc : u > t /\ inc[u].state = "retired"})
<1> DEFINE U == {u \in DOMAIN inc : u > t /\ inc[u].state = "retired"}
<1>1. DOMAIN inc \subseteq Tags /\ IsFiniteSet(DOMAIN inc) /\ DOMAIN inc \subseteq Nat
  BY TagsAssumption, FS_Subset DEF TypeOK, IsPartial
<1>2. /\ Len(sorted) \in Nat /\ sorted \in [1 .. Len(sorted) -> DOMAIN inc]
      /\ \A m, n \in 1 .. Len(sorted) : m # n => sorted[m] # sorted[n]
      /\ \A m, n \in 1 .. Len(sorted) : m < n => ~Newer(inc, sorted[n], sorted[m])
  <2>1. sorted \in SetToSeqs(DOMAIN inc)
    BY DEF Sorted
  <2>2. /\ Len(sorted) \in Nat /\ sorted \in [1 .. Len(sorted) -> DOMAIN inc]
        /\ \A m, n \in 1 .. Len(sorted) : m # n => sorted[m] # sorted[n]
    BY <1>1, <2>1, OrderOf
  <2>. QED BY <2>2 DEF Sorted
<1>3. t \in ToSet(sorted) /\ t \notin KeptForRollback(inc, sorted)
  BY DEF FindGarbage, Garbage
<1>4. PICK n \in 1 .. Len(sorted) : sorted[n] = t
  BY <1>2, <1>3 DEF ToSet
<1> DEFINE R == RetiredAmong(inc, sorted, n - 1)
<1>5. ~(Cardinality(R) < MinimumRetired)
  <2>1. n \in RetiredAmong(inc, sorted, Len(sorted))
    BY <1>4 DEF RetiredAmong
  <2>. QED BY <1>3, <1>4, <2>1 DEF KeptForRollback
<1>6. R \in SUBSET (1 .. Len(sorted)) /\ U \in SUBSET DOMAIN inc
  BY <1>2, <1>4 DEF RetiredAmong
<1>7. ASSUME NEW m \in R PROVE sorted[m] \in U
  <2>1. m \in 1 .. Len(sorted) /\ m < n /\ inc[sorted[m]].state = "retired"
    BY <1>2, <1>4, <1>7 DEF RetiredAmong
  <2>2. ~Newer(inc, t, sorted[m]) /\ sorted[m] # t /\ sorted[m] \in DOMAIN inc /\ t \in DOMAIN inc
    BY <1>2, <1>4, <2>1
  <2>3. sorted[m] > t
    BY <1>1, <2>2 DEF Newer
  <2>. QED BY <2>1, <2>2, <2>3
<1>. HIDE DEF U, R
<1>8. Cardinality(R) <= Cardinality(U) /\ Cardinality(R) \in Nat /\ Cardinality(U) \in Nat
  BY <1>1, <1>2, <1>6, <1>7, PickedFromList
<1>. QED BY <1>5, <1>8, MinimumRetiredAssumption DEF U

\* Only markGarbage labels a Revision.
LEMMA OnlyCollectMarks ==
  ASSUME TypeOK, [Next]_vars, NEW t \in Tags, Marks(t)
  PROVE  Collect
<1>1. t \in DOMAIN revision /\ t \in DOMAIN revision' /\ ~revision[t].deletable /\ revision'[t].deletable
  BY DEF Marks
<1>2. revision[t] \in RevisionSpec
  BY <1>1 DEF TypeOK, IsPartial
<1>3. ASSUME NEW u \in Tags, Users(u) PROVE FALSE
  <2>1. CASE CreateRevision(u)
    BY <1>1, <2>1 DEF CreateRevision
  <2>2. CASE DeleteRevision(u) \/ DeleteMarked(u)
    BY <1>1, <2>2 DEF DeleteRevision, DeleteMarked, Restrict
  <2>3. CASE SetEligible(u)
    BY <1>1, <1>2, <2>3 DEF SetEligible, RevisionSpec
  <2>4. CASE Fail(u) \/ Unfail(u) \/ TestProgress(u)
    BY <1>1, <1>2, <2>4 DEF Fail, Unfail, TestProgress, RevisionSpec
  <2>. QED BY <1>3, <2>1, <2>2, <2>3, <2>4 DEF Users
<1>4. revision' # revision
  BY <1>1
<1>. QED
  BY <1>3, <1>4
  DEF Next, Environment, Reconcile, CanaryTTLPasses, PodsReady, PodsLost, CreateManager, Begin,
      DeleteSelf, Finalize, Tick, TickFails, RouteSubsets, RouteWeights, Persist, Abort, vars

(***************************************************************************)
(* markGarbage labels a retired Revision only when MinimumRetired newer    *)
(* ones are retired too, whatever strategy chose the garbage and in which  *)
(* order it found the others.                                              *)
(***************************************************************************)
THEOREM RollbackAlwaysKept == Spec => RollbackKept
<1>1. ASSUME TypeOK, [Next]_vars, NEW t \in Tags, Marks(t), inc[t].state = "retired"
      PROVE  MinimumRetired <= Cardinality({u \in DOMAIN inc : u > t /\ inc[u].state = "retired"})
  <2>1. Collect
    BY <1>1, OnlyCollectMarks
  <2>2. PICK sorted \in Sorted(inc), expired \in SUBSET DOMAIN inc : \A u \in DOMAIN revision :
          revision'[u].deletable =>
            revision[u].deletable \/ (u \in FindGarbage(inc, expired, sorted) /\ inc[u].rev)
    BY <1>1, <2>1, CollectMarks
  <2>3. t \in FindGarbage(inc, expired, sorted) /\ inc[t].rev
    BY <1>1, <2>2 DEF Marks
  <2>. QED BY <1>1, <2>3, RetiredGarbage
<1>2. ASSUME TypeOK, [Next]_vars
      PROVE  [\A t \in Tags : Marks(t) /\ inc[t].state = "retired" =>
                MinimumRetired <=
                  Cardinality({u \in DOMAIN inc : u > t /\ inc[u].state = "retired"})]_vars
  BY <1>1, <1>2
<1>3. Typed => TypeOK
  BY DEF Typed
<1>. QED BY <1>2, <1>3, AlwaysTyped, PTL DEF Spec, RollbackKept
-----------------------------------------------------------------------------
(* What the handlers call.                                                 *)

\* The plans of a tick.
Done(d) == {Handle(d).calls[m] : m \in 1 .. Len(Handle(d).calls)}

\* The calls of a handler are two at most.
LEMMA DoneIs ==
  ASSUME NEW c, NEW a, NEW b
  PROVE  /\ c = <<>> => {c[m] : m \in 1 .. Len(c)} = {}
         /\ c = <<a>> => {c[m] : m \in 1 .. Len(c)} = {a}
         /\ c = <<a, b>> => {c[m] : m \in 1 .. Len(c)} = {a, b}
<1>1. ASSUME c = <<>> PROVE {c[m] : m \in 1 .. Len(c)} = {}
  BY <1>1
<1>2. ASSUME c = <<a>> PROVE {c[m] : m \in 1 .. Len(c)} = {a}
  BY <1>2
<1>3. ASSUME c = <<a, b>> PROVE {c[m] : m \in 1 .. Len(c)} = {a, b}
  <2>1. Len(c) = 2 /\ c[1] = a /\ c[2] = b
    BY <1>3
  <2>2. 1 .. 2 = {1, 2}
    OBVIOUS
  <2>. QED BY <2>1, <2>2
<1>. QED BY <1>1, <1>2, <1>3

\* What a handler calls, and what it answers then.
LEMMA HandlerCalls ==
  ASSUME NEW d, d.state \in States
  PROVE  \/ Done(d) = {}
         \/ Done(d) = {"sync"} /\ d.rev /\ d.state \notin {"retiring", "deleting", "failing"}
         \/ /\ Done(d) = {"syncCanaryRules", "sync"} /\ d.rev /\ d.state = "canarying"
            /\ Handle(d).next \in {"canarying", "canaried"}
         \/ Done(d) = {"deleteCanaryRules", "sync"} /\ d.rev /\ d.state = "canaried"
         \/ /\ Done(d) = {"retire"} /\ d.state \in {"retiring", "retired", "failed"}
            /\ d.state = "retiring" => ~(d.cur > 0)
            /\ Handle(d).next = IF d.state = "failed" THEN "failed" ELSE "retired"
         \/ /\ Done(d) = {"deleteCanaryRules", "retire"} /\ d.state = "failing" /\ ~(d.cur > 0)
            /\ Handle(d).next = "failed"
         \/ /\ Done(d) = {"deleteCanaryRules", "del"} /\ d.state = "deleting" /\ ~(d.cur > 0)
            /\ Handle(d).next = "deleted"
<1> DEFINE c == Handle(d).calls
<1>1. \/ c = <<>>
      \/ c = <<"sync">> /\ d.rev /\ d.state \notin {"retiring", "deleting", "failing"}
      \/ /\ c = <<"syncCanaryRules", "sync">> /\ d.rev /\ d.state = "canarying"
         /\ Handle(d).next \in {"canarying", "canaried"}
      \/ c = <<"deleteCanaryRules", "sync">> /\ d.rev /\ d.state = "canaried"
      \/ /\ c = <<"retire">> /\ d.state \in {"retiring", "retired", "failed"}
         /\ d.state = "retiring" => ~(d.cur > 0)
         /\ Handle(d).next = IF d.state = "failed" THEN "failed" ELSE "retired"
      \/ /\ c = <<"deleteCanaryRules", "retire">> /\ d.state = "failing" /\ ~(d.cur > 0)
         /\ Handle(d).next = "failed"
      \/ /\ c = <<"deleteCanaryRules", "del">> /\ d.state = "deleting" /\ ~(d.cur > 0)
         /\ Handle(d).next = "deleted"
  BY DEF Handle, States, ToRelease, Created, Deploying, Deployed, PendingTest, Testing, Tested,
     PendingRelease, Releasing, Retiring, Retired, Deleting, Deleted, Failing, Failed, Canarying,
     Canaried, Timingout
<1>2. Done(d) = {c[m] : m \in 1 .. Len(c)}
  BY DEF Done
<1>. HIDE DEF c
<1>3. /\ c = <<>> => Done(d) = {}
      /\ \A a : c = <<a>> => Done(d) = {a}
      /\ \A a, b : c = <<a, b>> => Done(d) = {a, b}
  BY <1>2, DoneIs
<1>4. /\ c = <<"sync">> => Done(d) = {"sync"}
      /\ c = <<"retire">> => Done(d) = {"retire"}
      /\ c = <<"syncCanaryRules", "sync">> => Done(d) = {"syncCanaryRules", "sync"}
      /\ c = <<"deleteCanaryRules", "sync">> => Done(d) = {"deleteCanaryRules", "sync"}
      /\ c = <<"deleteCanaryRules", "retire">> => Done(d) = {"deleteCanaryRules", "retire"}
      /\ c = <<"deleteCanaryRules", "del">> => Done(d) = {"deleteCanaryRules", "del"}
  BY <1>3
<1>. QED BY <1>1, <1>3, <1>4, Zenon
-----------------------------------------------------------------------------
(* What is in memory is as the Revisions and the status were at Begin.     *)

\* The handler of an incarnation without a status, and what the ticks were told.
Fresh ==
  /\ \A t \in DOMAIN inc \ DOMAIN status :
       /\ inc[t].rev /\ inc[t].cur = 0
       /\ inc[t].state = IF t \in todo THEN "created" ELSE "deploying"
  /\ pc \in {"tick", "route", "weights"} =>
       \A t \in DOMAIN inc :
         /\ inc[t].rev => t \in DOMAIN revision
         /\ t \in DOMAIN revision =>
              /\ inc[t].rev
              /\ inc[t].ext = revision[t].ext /\ inc[t].failed = revision[t].failed

\* What all proofs below start from.
Known == Typed /\ Unserved /\ Fresh

\* A reconcile keeps the Revisions it began with, and they keep still until it collects.
LEMMA NextFresh ==
  ASSUME Typed, Fresh, [Next]_vars
  PROVE  Fresh'
<1>0. TypeOK /\ Structure
  BY DEF Typed
<1>1. CASE Environment
  <2>1. LeavesAlone
    BY <1>0, <1>1, EnvironmentKeeps
  <2>. QED BY <2>1 DEF LeavesAlone, Fresh, memory
<1>2. CASE Begin
  <2>1. /\ inc' = [t \in DOMAIN revision \cup DOMAIN status |-> NewIncarnation(t)]
        /\ todo' = DOMAIN inc' /\ UNCHANGED <<revision, status>>
    BY <1>2 DEF Begin
  <2>2. ASSUME NEW t \in DOMAIN inc'
        PROVE  /\ inc'[t] = NewIncarnation(t) /\ t \in Tags
               /\ t \in DOMAIN revision \/ t \in DOMAIN status
    BY <1>0, <2>1, <2>2 DEF TypeOK, IsPartial
  <2>3. ASSUME NEW t \in DOMAIN inc', t \notin DOMAIN status
        PROVE  inc'[t].rev /\ inc'[t].cur = 0 /\ inc'[t].state = "created"
    <3>1. t \in DOMAIN revision
      BY <2>2, <2>3
    <3>2. /\ inc'[t].rev = (t \in DOMAIN revision)
          /\ inc'[t].state = NewStatus.state
          /\ inc'[t].cur = IF replicaSet[t] = "none" THEN 0 ELSE NewStatus.cur
      BY <1>0, <2>2, <2>3, NewIncarnationType
    <3>. QED BY <3>1, <3>2 DEF NewStatus
  <2>4. ASSUME NEW t \in DOMAIN inc'
        PROVE  /\ inc'[t].rev => t \in DOMAIN revision
               /\ t \in DOMAIN revision =>
                    /\ inc'[t].rev
                    /\ inc'[t].ext = revision[t].ext /\ inc'[t].failed = revision[t].failed
    BY <1>0, <2>2, NewIncarnationType
  <2>. QED BY <2>1, <2>3, <2>4 DEF Fresh
<1>3. CASE Tick
  <2>1. PICK t, d : Ticks(t, d)
    BY <1>0, <1>3, TickTicks DEF Typed
  <2>2. /\ DOMAIN inc' = DOMAIN inc /\ inc'[t].state = Handle(d).next
        /\ inc'[t].cur = inc[t].cur /\ inc'[t].rev = inc[t].rev
        /\ inc'[t].ext = inc[t].ext /\ inc'[t].failed = inc[t].failed
        /\ todo' = todo \ {t} /\ t \in todo /\ t \in DOMAIN inc
        /\ \A u \in DOMAIN inc \ {t} : inc'[u] = inc[u]
    BY <1>0, <2>1, TicksIncarnations DEF Structure, Ticks
  <2>3. pc = "tick" /\ UNCHANGED <<revision, status>>
    BY <1>0, <1>3, TickTicks DEF Typed
  <2>4. t \notin DOMAIN status => inc'[t].state = "deploying"
    <3>1. d.state = inc[t].state /\ d.rev = inc[t].rev
      BY <2>1 DEF Ticks, Shows
    <3>. QED BY <2>2, <3>1 DEF Fresh, Handle, Created
  <2>. QED BY <2>2, <2>3, <2>4 DEF Fresh
<1>4. CASE RouteSubsets
  <2>1. /\ pc = "route" /\ Splits /\ UNCHANGED <<revision, status, todo>>
    BY <1>0, <1>4, RouteSplits DEF Typed
  <2>2. DOMAIN inc' = DOMAIN inc /\ \A t \in DOMAIN inc : SameBut(inc[t], inc'[t])
    BY <2>1 DEF Splits
  <2>3. ASSUME NEW t \in DOMAIN inc, t \notin DOMAIN status
        PROVE  inc'[t].cur = 0
    <3>1. inc[t].cur = 0 /\ inc[t].state \in {"created", "deploying"}
      BY <2>3 DEF Fresh
    <3>2. ~Takes(t) /\ Left(t) = 0
      BY <3>1 DEF Takes, Left, Canaries, Live, Draining
    <3>3. inc'[t].cur \in Nat
      <4>1. TypeOK'
        BY <1>0, <1>4, RouteSubsetsType DEF Typed
      <4>. QED BY <2>2, <4>1 DEF TypeOK, IsPartial, Incarnation
    <3>. QED BY <2>1, <3>2, <3>3 DEF Splits
  <2>. QED BY <2>1, <2>2, <2>3 DEF Fresh, SameBut
<1>5. CASE RouteWeights
  BY <1>5 DEF RouteWeights, Fresh
<1>6. CASE Collect
  BY <1>0, <1>6, CollectMarks DEF Fresh
<1>7. CASE TickFails \/ Persist \/ Abort
  BY <1>7 DEF TickFails, Persist, Abort, Forget, Fresh, Empty
<1>8. CASE DeleteSelf \/ Finalize
  BY <1>0, <1>8 DEF DeleteSelf, Finalize, Fresh, Structure, memory, Empty
<1>9. CASE UNCHANGED vars
  BY <1>9 DEF Fresh, vars, memory
<1>. QED BY <1>1, <1>2, <1>3, <1>4, <1>5, <1>6, <1>7, <1>8, <1>9 DEF Next, Reconcile

\* The invariant on which the others build.
LEMMA AlwaysKnown == Spec => []Known
<1>1. Init => Known
  BY InitTyped
  DEF Init, Known, Fresh, Unserved, Waits, OffDry, StaysOff, OffUnserved, SomeLive, Empty
<1>2. Known /\ [Next]_vars => Known'
  BY NextTyped, NextUnserved, NextFresh DEF Known
<1>. QED BY <1>1, <1>2, PTL DEF Spec
-----------------------------------------------------------------------------
(* Revisions that do not come back.                                        *)

\* A tag is not used again before the manager has forgotten it.
NoRecreate == "recreate" \notin Events

\* What the environment may do to the Revision of t.
LEMMA RevisionsChange ==
  ASSUME TypeOK, Environment, NEW t \in DOMAIN revision'
  PROVE  \/ t \notin DOMAIN revision /\ (NoRecreate => t \notin DOMAIN status)
         \/ /\ t \in DOMAIN revision
            /\ revision[t].ext \notin {"pending", "started"} => revision'[t].ext = revision[t].ext
            /\ revision[t].failed => revision'[t].failed \/ "unfail" \in Events
<1>1. ASSUME t \in DOMAIN revision PROVE revision[t] \in RevisionSpec
  BY <1>1 DEF TypeOK, IsPartial
<1>2. CASE UNCHANGED revision
  BY <1>2
<1>3. ASSUME NEW u \in Tags, CreateRevision(u)
      PROVE  \/ t \notin DOMAIN revision /\ (NoRecreate => t \notin DOMAIN status)
             \/ t \in DOMAIN revision /\ revision'[t] = revision[t]
  BY <1>3 DEF CreateRevision, NoRecreate
<1>4. ASSUME NEW u \in Tags, DeleteRevision(u) \/ DeleteMarked(u)
      PROVE  t \in DOMAIN revision /\ revision'[t] = revision[t]
  BY <1>4 DEF DeleteRevision, DeleteMarked, Restrict
<1>5. ASSUME NEW u \in Tags, SetEligible(u)
      PROVE  /\ t \in DOMAIN revision
             /\ revision'[t].ext = revision[t].ext /\ revision'[t].failed = revision[t].failed
  BY <1>1, <1>5 DEF SetEligible, RevisionSpec
<1>6. ASSUME NEW u \in Tags, Fail(u) \/ Unfail(u)
      PROVE  /\ t \in DOMAIN revision /\ revision'[t].ext = revision[t].ext
             /\ revision'[t].failed = revision[t].failed \/ revision'[t].failed \/ "unfail" \in Events
  BY <1>1, <1>6 DEF Fail, Unfail, RevisionSpec
<1>7. ASSUME NEW u \in Tags, TestProgress(u)
      PROVE  /\ t \in DOMAIN revision /\ revision'[t].failed = revision[t].failed
             /\ \/ revision'[t].ext = revision[t].ext
                \/ revision[t].ext \in {"pending", "started"}
  BY <1>1, <1>7 DEF TestProgress, RevisionSpec
<1>. QED
  BY <1>2, <1>3, <1>4, <1>5, <1>6, <1>7
  DEF Environment, Users, CanaryTTLPasses, PodsReady, PodsLost, CreateManager

\* The states of a tag whose Revision was deleted.
Gone == {"deleting", "deleted"}

\* What is being deleted has no Revision any more.
GoneForGood ==
  /\ \A t \in DOMAIN status : status[t].state \in Gone => t \notin DOMAIN revision
  /\ \A t \in DOMAIN inc : inc[t].state \in Gone => t \notin DOMAIN revision
  /\ \A t \in DOMAIN inc \ todo : inc[t].state \in Gone => ~inc[t].rev

\* A handler starts to delete only what has no Revision.
LEMMA HandlerDeletes ==
  ASSUME NEW d, d.state \in States, Handle(d).next \in Gone
  PROVE  d.state \in Gone \/ ~d.rev
BY DEF Handle, States, Gone, ToRelease, Created, Deploying, Deployed, PendingTest, Testing,
   Tested, PendingRelease, Releasing, Retiring, Retired, Deleting, Deleted, Failing, Failed,
   Canarying, Canaried, Timingout

\* Unless a tag is used again, what is being deleted has no Revision.
LEMMA NextGone ==
  ASSUME NoRecreate, Known, GoneForGood, [Next]_vars
  PROVE  GoneForGood'
<1>0. TypeOK /\ Structure /\ Typed /\ Fresh
  BY DEF Known, Typed
<1>1. CASE Environment
  <2>1. LeavesAlone
    BY <1>0, <1>1, EnvironmentKeeps
  <2>2. ASSUME NEW t \in DOMAIN revision', t \notin DOMAIN revision
        PROVE  /\ t \notin DOMAIN status
               /\ t \in DOMAIN inc => inc[t].state \notin Gone
    <3>1. t \notin DOMAIN status
      BY <1>0, <1>1, <2>2, RevisionsChange
    <3>. QED BY <1>0, <3>1 DEF Fresh, Gone
  <2>. QED BY <2>1, <2>2 DEF LeavesAlone, GoneForGood, memory
<1>2. CASE Begin
  <2>1. /\ inc' = [t \in DOMAIN revision \cup DOMAIN status |-> NewIncarnation(t)]
        /\ todo' = DOMAIN inc' /\ UNCHANGED <<revision, status>>
    BY <1>2 DEF Begin
  <2>2. ASSUME NEW t \in DOMAIN inc'
        PROVE  inc'[t].state = IF t \in DOMAIN status THEN status[t].state ELSE "created"
    <3>1. inc'[t] = NewIncarnation(t) /\ t \in Tags
      BY <1>0, <2>1, <2>2 DEF TypeOK, IsPartial
    <3>. QED BY <1>0, <3>1, NewIncarnationType DEF NewStatus
  <2>. QED BY <2>1, <2>2 DEF GoneForGood, Gone
<1>3. CASE Tick
  <2>1. PICK t, d : Ticks(t, d)
    BY <1>0, <1>3, TickTicks
  <2>2. /\ DOMAIN inc' = DOMAIN inc /\ inc'[t].state = Handle(d).next
        /\ inc'[t].rev = inc[t].rev
        /\ todo' = todo \ {t} /\ t \in todo /\ t \in DOMAIN inc
        /\ \A u \in DOMAIN inc \ {t} : inc'[u] = inc[u]
    BY <1>0, <2>1, TicksIncarnations DEF Structure, Ticks
  <2>3. pc = "tick" /\ UNCHANGED <<revision, status>>
    BY <1>0, <1>3, TickTicks
  <2>4. inc'[t].state \in Gone => ~inc[t].rev /\ t \notin DOMAIN revision
    <3>1. d.state = inc[t].state /\ d.rev = inc[t].rev /\ d.state \in States
      BY <1>0, <2>1, <2>2, TicksShows
    <3>. QED BY <1>0, <2>2, <2>3, <3>1, HandlerDeletes DEF GoneForGood, Fresh
  <2>. QED BY <2>2, <2>3, <2>4 DEF GoneForGood
<1>4. CASE RouteSubsets
  <2>1. /\ pc = "route" /\ Splits /\ UNCHANGED <<revision, status, todo>>
    BY <1>0, <1>4, RouteSplits
  <2>. QED BY <2>1 DEF Splits, SameBut, GoneForGood
<1>5. CASE RouteWeights
  BY <1>5 DEF RouteWeights, GoneForGood
<1>6. CASE Collect
  BY <1>0, <1>6, CollectMarks DEF GoneForGood
<1>7. CASE Persist
  BY <1>0, <1>7, PersistKeeps DEF GoneForGood, Forget, Empty, Kept
<1>8. CASE TickFails \/ Abort
  BY <1>8 DEF TickFails, Abort, Forget, GoneForGood, Empty
<1>9. CASE DeleteSelf \/ Finalize \/ UNCHANGED vars
  BY <1>9 DEF DeleteSelf, Finalize, GoneForGood, vars, memory, Empty
<1>. QED BY <1>1, <1>2, <1>3, <1>4, <1>5, <1>6, <1>7, <1>8, <1>9 DEF Next, Reconcile
-----------------------------------------------------------------------------
(* What ships has passed its test.                                         *)

\* The external test of t is over, or there is none.
NotTesting(t) == t \in DOMAIN revision => revision[t].ext \notin {"pending", "started"}

\* What ships or serves has passed its test.
ShippedTested ==
  /\ \A t \in DOMAIN status : status[t].cur > 0 \/ status[t].state \in Shipped => NotTesting(t)
  /\ \A t \in DOMAIN inc : inc[t].cur > 0 \/ inc[t].state \in Shipped => NotTesting(t)

\* No handler lets a revision ship while its external test is pending or started.
LEMMA HandlerTests ==
  ASSUME NEW d, d.state \in States, Handle(d).next \in Shipped
  PROVE  \/ d.state \in Shipped
         \/ d.rev /\ d.ext \notin {"pending", "started"}
BY DEF Handle, States, Shipped, Live, ToRelease, Created, Deploying, Deployed, PendingTest,
   Testing, Tested, PendingRelease, Releasing, Retiring, Retired, Deleting, Deleted, Failing,
   Failed, Canarying, Canaried, Timingout

\* No step ships what is being tested.
LEMMA NextTested ==
  ASSUME NoRecreate, Known, ShippedTested, [Next]_vars
  PROVE  ShippedTested'
<1>0. TypeOK /\ Structure /\ Typed /\ Fresh
  BY DEF Known, Typed
<1>1. CASE Environment
  <2>1. LeavesAlone
    BY <1>0, <1>1, EnvironmentKeeps
  <2>2. ASSUME NEW t \in DOMAIN revision', NotTesting(t),
               t \in DOMAIN status \/ t \in DOMAIN revision
        PROVE  revision'[t].ext \notin {"pending", "started"}
    BY <1>0, <1>1, <2>2, RevisionsChange DEF NotTesting
  <2>3. ASSUME NEW t \in DOMAIN inc, inc[t].cur > 0 \/ inc[t].state \in Shipped
        PROVE  t \in DOMAIN status
    BY <1>0, <2>3 DEF Fresh, Shipped, Live
  <2>. QED BY <2>1, <2>2, <2>3 DEF LeavesAlone, ShippedTested, NotTesting, memory
<1>2. CASE Begin
  <2>1. /\ inc' = [t \in DOMAIN revision \cup DOMAIN status |-> NewIncarnation(t)]
        /\ UNCHANGED <<revision, status>>
    BY <1>2 DEF Begin
  <2>2. ASSUME NEW t \in DOMAIN inc'
        PROVE  /\ t \in DOMAIN status =>
                    /\ inc'[t].state = status[t].state
                    /\ inc'[t].cur > 0 => status[t].cur > 0
               /\ t \notin DOMAIN status => inc'[t].state = "created" /\ inc'[t].cur = 0
    <3>1. inc'[t] = NewIncarnation(t) /\ t \in Tags
      BY <1>0, <2>1, <2>2 DEF TypeOK, IsPartial
    <3>. QED BY <1>0, <3>1, NewIncarnationType DEF NewStatus
  <2>3. ASSUME NEW t \in DOMAIN inc', inc'[t].cur > 0 \/ inc'[t].state \in Shipped
        PROVE  t \in DOMAIN status /\ (status[t].cur > 0 \/ status[t].state \in Shipped)
    <3>1. t \in DOMAIN status
      BY <2>2, <2>3 DEF Shipped, Live
    <3>. QED BY <2>2, <2>3, <3>1
  <2>. HIDE DEF NotTesting
  <2>4. \A t : NotTesting(t)' <=> NotTesting(t)
    BY <2>1 DEF NotTesting
  <2>5. \A t \in DOMAIN inc' : inc'[t].cur > 0 \/ inc'[t].state \in Shipped => NotTesting(t)
    BY <2>3 DEF ShippedTested
  <2>. QED BY <2>1, <2>4, <2>5 DEF ShippedTested
<1>3. CASE Tick
  <2>1. PICK t, d : Ticks(t, d)
    BY <1>0, <1>3, TickTicks
  <2>2. /\ DOMAIN inc' = DOMAIN inc /\ inc'[t].state = Handle(d).next
        /\ inc'[t].cur = inc[t].cur /\ t \in DOMAIN inc
        /\ \A u \in DOMAIN inc \ {t} : inc'[u] = inc[u]
    BY <1>0, <2>1, TicksIncarnations DEF Structure, Ticks
  <2>3. pc = "tick" /\ UNCHANGED <<revision, status>>
    BY <1>0, <1>3, TickTicks
  <2>4. inc'[t].state \in Shipped => NotTesting(t)
    <3>1. /\ d.state = inc[t].state /\ d.rev = inc[t].rev /\ d.ext = inc[t].ext
          /\ d.state \in States
      BY <1>0, <2>1, <2>2, TicksShows
    <3>. QED BY <1>0, <2>2, <2>3, <3>1, HandlerTests DEF ShippedTested, Fresh, NotTesting
  <2>. QED BY <2>2, <2>3, <2>4 DEF ShippedTested, NotTesting
<1>4. CASE RouteSubsets
  <2>1. /\ pc = "route" /\ Splits /\ UNCHANGED <<revision, status>>
    BY <1>0, <1>4, RouteSplits
  <2>2. ASSUME NEW t \in DOMAIN inc, inc'[t].cur > 0
        PROVE  inc[t].cur > 0 \/ inc[t].state \in Shipped
    BY <2>1, <2>2 DEF Splits, Takes, Left, Shipped, Canaries
  <2>. QED BY <2>1, <2>2 DEF Splits, SameBut, ShippedTested, NotTesting
<1>5. CASE RouteWeights
  BY <1>5 DEF RouteWeights, ShippedTested, NotTesting
<1>6. CASE Collect
  BY <1>0, <1>6, CollectMarks DEF ShippedTested, NotTesting
<1>7. CASE Persist
  BY <1>0, <1>7, PersistKeeps DEF ShippedTested, NotTesting, Forget, Empty, Kept
<1>8. CASE TickFails \/ Abort
  BY <1>8 DEF TickFails, Abort, Forget, ShippedTested, NotTesting, Empty
<1>9. CASE DeleteSelf \/ Finalize \/ UNCHANGED vars
  BY <1>9 DEF DeleteSelf, Finalize, ShippedTested, NotTesting, vars, memory, Empty
<1>. QED BY <1>1, <1>2, <1>3, <1>4, <1>5, <1>6, <1>7, <1>8, <1>9 DEF Next, Reconcile
-----------------------------------------------------------------------------
(* The canary rules go with the canary.                                    *)

\* A failed Revision stays so.
NoUnfail == "unfail" \notin Events

\* hasFailed, read from the Revision, if there is one.
HasFailedFor(t) == t \in DOMAIN revision => revision[t].failed \/ revision[t].ext = "failed"

\* The states in which a tag may have canary rules.
RuleStates == {"canarying", "canaried", "failing", "deleting"}

\* The tags with canary rules are in a state whose handler deletes them, and failing ones
\* have no way back.
RulesFollow ==
  /\ \A t \in DOMAIN status : status[t].state = "failing" => HasFailedFor(t)
  /\ \A t \in DOMAIN inc : inc[t].state = "failing" => HasFailedFor(t)
  /\ manager = "alive" => \A t \in canaryRules :
       /\ t \in DOMAIN status /\ status[t].state \in RuleStates
       /\ t \in DOMAIN inc => inc[t].state \in RuleStates

\* A handler starts to fail only what has failed.
LEMMA HandlerFails ==
  ASSUME NEW d, d.state \in States, Handle(d).next = "failing"
  PROVE  \/ d.state = "failing"
         \/ d.rev /\ (d.failed \/ d.ext = "failed")
BY DEF Handle, States, ToRelease, Created, Deploying, Deployed, PendingTest, Testing, Tested,
   PendingRelease, Releasing, Retiring, Retired, Deleting, Deleted, Failing, Failed, Canarying,
   Canaried, Timingout, HasFailed, MarkedAsFailed

\* From a state with rules a handler goes to another one, or deletes them.
LEMMA HandlerDeletesRules ==
  ASSUME NEW d, d.state \in RuleStates, d.state = "deleting" => ~d.rev,
         d.state = "failing" /\ d.rev => d.failed \/ d.ext = "failed"
  PROVE  Handle(d).next \in RuleStates \/ "deleteCanaryRules" \in Done(d)
<1>1. \/ Handle(d).next \in RuleStates
      \/ /\ Handle(d).calls \in {<<"deleteCanaryRules", "sync">>, <<"deleteCanaryRules", "retire">>,
                                 <<"deleteCanaryRules", "del">>}
  BY DEF Handle, RuleStates, Deleting, Failing, Canarying, Canaried, HasFailed, MarkedAsFailed
<1>. QED BY <1>1, DoneIs DEF Done

\* The rules after a tick.
LEMMA TicksRules ==
  ASSUME TypeOK, NEW t \in DOMAIN inc, NEW d, Ticks(t, d)
  PROVE  /\ canaryRules' \subseteq canaryRules \cup {t}
         /\ t \in canaryRules' \ canaryRules =>
              inc[t].state = "canarying" /\ Handle(d).next \in {"canarying", "canaried"}
         /\ "deleteCanaryRules" \in Done(d) => t \notin canaryRules'
<1>1. canaryRules' = CanaryRulesAfter(canaryRules, t, Done(d))
  BY DEF Ticks, Apply, Done
<1>2. d.state = inc[t].state /\ d.state \in States
  BY TicksShows
<1>3. /\ "syncCanaryRules" \in Done(d) =>
           d.state = "canarying" /\ Handle(d).next \in {"canarying", "canaried"}
      /\ "deleteCanaryRules" \in Done(d) => "syncCanaryRules" \notin Done(d)
  BY <1>2, HandlerCalls
<1>. QED
  BY <1>1, <1>2, <1>3 DEF CanaryRulesAfter, SyncCanaryRules, DeleteCanaryRules

\* No step leaves canary rules behind.
LEMMA NextRules ==
  ASSUME NoRecreate, NoUnfail, Known, GoneForGood, RulesFollow, [Next]_vars
  PROVE  RulesFollow'
<1>0. TypeOK /\ Structure /\ Typed /\ Fresh /\ Waits
  BY DEF Known, Typed, Unserved
<1>1. CASE Environment
  <2>1. LeavesAlone
    BY <1>0, <1>1, EnvironmentKeeps
  <2>2. ASSUME NEW t, HasFailedFor(t), t \in DOMAIN status
        PROVE  HasFailedFor(t)'
    BY <1>0, <1>1, <2>2, RevisionsChange DEF HasFailedFor, NoUnfail
  <2>3. ASSUME NEW t \in DOMAIN inc, inc[t].state = "failing"
        PROVE  t \in DOMAIN status
    BY <1>0, <2>3 DEF Fresh
  <2>4. manager' = "alive" => manager = "alive" \/ canaryRules' = {}
    <3>1. CASE CreateManager
      BY <1>0, <2>1, <3>1 DEF CreateManager, Structure, LeavesAlone
    <3>2. ASSUME NEW t \in Tags, Users(t) PROVE manager' = manager
      BY <1>0, <3>2, UsersType
    <3>. QED
      BY <1>1, <3>1, <3>2 DEF Environment, CanaryTTLPasses, PodsReady, PodsLost
  <2>. HIDE DEF HasFailedFor
  <2>. QED BY <2>1, <2>2, <2>3, <2>4 DEF LeavesAlone, RulesFollow, memory
<1>2. CASE Begin
  <2>1. /\ inc' = [t \in DOMAIN revision \cup DOMAIN status |-> NewIncarnation(t)]
        /\ UNCHANGED <<revision, status, manager, canaryRules>>
    BY <1>2 DEF Begin, cluster
  <2>2. ASSUME NEW t \in DOMAIN inc'
        PROVE  inc'[t].state = IF t \in DOMAIN status THEN status[t].state ELSE "created"
    <3>1. inc'[t] = NewIncarnation(t) /\ t \in Tags
      BY <1>0, <2>1, <2>2 DEF TypeOK, IsPartial
    <3>. QED BY <1>0, <3>1, NewIncarnationType DEF NewStatus
  <2>. QED BY <2>1, <2>2 DEF RulesFollow, HasFailedFor
<1>3. CASE Tick
  <2>1. PICK t, d : Ticks(t, d)
    BY <1>0, <1>3, TickTicks
  <2>2. /\ DOMAIN inc' = DOMAIN inc /\ inc'[t].state = Handle(d).next
        /\ t \in todo /\ t \in DOMAIN inc
        /\ \A u \in DOMAIN inc \ {t} : inc'[u] = inc[u]
    BY <1>0, <2>1, TicksIncarnations DEF Structure, Ticks
  <2>3. pc = "tick" /\ UNCHANGED <<revision, status, manager>>
    BY <1>0, <1>3, TickTicks
  <2>4. /\ d.state = inc[t].state /\ d.rev = inc[t].rev /\ d.ext = inc[t].ext
        /\ d.failed = inc[t].failed /\ d.state \in States
    BY <1>0, <2>1, <2>2, TicksShows
  <2>5. inc'[t].state = "failing" => HasFailedFor(t)
    <3>1. d.state = "failing" => HasFailedFor(t)
      BY <2>2, <2>4 DEF RulesFollow
    <3>2. d.rev /\ (d.failed \/ d.ext = "failed") => HasFailedFor(t)
      BY <1>0, <2>2, <2>3, <2>4 DEF Fresh, HasFailedFor
    <3>. QED BY <2>2, <2>4, <3>1, <3>2, HandlerFails
  <2>6. ASSUME manager' = "alive", NEW u \in canaryRules'
        PROVE  /\ u \in DOMAIN status /\ status[u].state \in RuleStates
               /\ u \in DOMAIN inc => inc'[u].state \in RuleStates
    <3>1. CASE u # t
      <4>1. u \in canaryRules
        BY <1>0, <2>1, <2>2, <2>6, <3>1, TicksRules
      <4>. QED BY <2>2, <2>3, <2>6, <3>1, <4>1 DEF RulesFollow
    <3>2. CASE u = t /\ t \in canaryRules
      <4>1. status[t].state \in RuleStates /\ t \in DOMAIN status /\ d.state \in RuleStates
        BY <2>2, <2>3, <2>4, <2>6, <3>2 DEF RulesFollow
      <4>2. d.state = "deleting" => ~d.rev
        BY <1>0, <2>2, <2>3, <2>4 DEF GoneForGood, Gone, Fresh
      <4>3. d.state = "failing" /\ d.rev => d.failed \/ d.ext = "failed"
        BY <1>0, <2>2, <2>3, <2>4 DEF RulesFollow, Fresh, HasFailedFor
      <4>4. "deleteCanaryRules" \notin Done(d)
        BY <1>0, <2>1, <2>2, <2>6, <3>2, TicksRules
      <4>. QED BY <2>2, <3>2, <4>1, <4>2, <4>3, <4>4, HandlerDeletesRules
    <3>3. CASE u = t /\ t \notin canaryRules
      <4>1. inc[t].state = "canarying" /\ inc'[t].state \in {"canarying", "canaried"}
        BY <1>0, <2>1, <2>2, <2>6, <3>3, TicksRules
      <4>2. t \in DOMAIN status
        BY <1>0, <2>2, <4>1 DEF Fresh
      <4>. QED BY <1>0, <2>2, <3>3, <4>1, <4>2 DEF Waits, RuleStates
    <3>. QED BY <3>1, <3>2, <3>3
  <2>. QED BY <2>2, <2>3, <2>5, <2>6 DEF RulesFollow, HasFailedFor
<1>4. CASE RouteSubsets
  <2>1. /\ pc = "route" /\ Splits /\ UNCHANGED <<revision, status, manager, canaryRules>>
    BY <1>0, <1>4, RouteSplits
  <2>. QED BY <2>1 DEF Splits, SameBut, RulesFollow, HasFailedFor
<1>5. CASE RouteWeights
  BY <1>5 DEF RouteWeights, RulesFollow, HasFailedFor
<1>6. CASE Collect
  BY <1>0, <1>6, CollectMarks DEF RulesFollow, HasFailedFor, cluster
<1>7. CASE Persist
  <2>1. /\ pc = "persist" /\ Forget /\ UNCHANGED <<revision, manager, canaryRules>>
        /\ DOMAIN status' = Kept(inc)
        /\ \A t \in Kept(inc) : status'[t].state = inc[t].state
    BY <1>0, <1>7, PersistKeeps DEF cluster
  <2>2. DOMAIN status \subseteq DOMAIN inc
    BY <1>0, <2>1 DEF Structure
  <2>3. ASSUME manager = "alive", NEW t \in canaryRules
        PROVE  t \in Kept(inc) /\ inc[t].state \in RuleStates
    BY <2>2, <2>3 DEF RulesFollow, Kept, RuleStates
  <2>4. \A t \in Kept(inc) : t \in DOMAIN inc
    BY DEF Kept
  <2>. QED BY <2>1, <2>3, <2>4 DEF RulesFollow, HasFailedFor, Forget, Empty
<1>8. CASE TickFails
  <2>1. PICK t \in todo : \E late, testLate \in Timeouts, permits \in Schedules,
                             expired \in Expirations :
          LET h == Handle(Deployment(t, late, testLate, permits, expired))
          IN  \E n \in 1 .. Len(h.calls) : Apply(t, h.calls, n)
    BY <1>8 DEF TickFails
  <2>2. PICK late, testLate, permits, expired, n :
          LET h == Handle(Deployment(t, late, testLate, permits, expired))
          IN  n \in 1 .. Len(h.calls) /\ Apply(t, h.calls, n)
    BY <2>1
  <2> DEFINE d == Deployment(t, late, testLate, permits, expired)
             done == {Handle(d).calls[m] : m \in 1 .. n}
  <2>3. d.state = inc[t].state /\ d.state \in States /\ t \in DOMAIN inc
    BY <1>0 DEF Deployment, TypeOK, IsPartial, Incarnation, Structure
  <2>. HIDE DEF d
  <2>4. canaryRules' = CanaryRulesAfter(canaryRules, t, done)
    BY <2>2 DEF Apply, d
  <2>5. "syncCanaryRules" \in done => "syncCanaryRules" \in Done(d)
    <3>1. n \in 1 .. Len(Handle(d).calls)
      BY <2>2 DEF d
    <3>. QED BY <3>1 DEF Done
  <2>6. "syncCanaryRules" \in done => inc[t].state = "canarying"
    BY <2>3, <2>5, HandlerCalls
  <2>. HIDE DEF done
  <2>7. \A u \in canaryRules' : u \in canaryRules \/ (u = t /\ inc[t].state = "canarying")
    BY <2>4, <2>6 DEF CanaryRulesAfter, SyncCanaryRules, DeleteCanaryRules
  <2>8. inc[t].state = "canarying" => t \in DOMAIN status /\ status[t].state = "canarying"
    BY <1>0, <2>3 DEF Fresh, Waits
  <2>9. Forget /\ UNCHANGED <<revision, manager, status>>
    BY <1>8 DEF TickFails
  <2>. QED BY <2>7, <2>8, <2>9 DEF RulesFollow, HasFailedFor, Forget, Empty, RuleStates
<1>9. CASE Abort
  BY <1>9 DEF Abort, Forget, RulesFollow, HasFailedFor, Empty, cluster
<1>10. CASE DeleteSelf \/ Finalize \/ UNCHANGED vars
  BY <1>10 DEF DeleteSelf, Finalize, RulesFollow, HasFailedFor, vars, memory, cluster, Empty
<1>. QED
  BY <1>1, <1>2, <1>3, <1>4, <1>5, <1>6, <1>7, <1>8, <1>9, <1>10 DEF Next, Reconcile

(***************************************************************************)
(* A revision that is released, retired, failed or deleted has no canary   *)
(* rules: whichever way it left "canarying", a handler deleted them.  Not  *)
(* when it is unfailed on the way (failing to deploying), nor when its tag *)
(* is used again before it is gone.                                        *)
(***************************************************************************)
THEOREM CanaryRulesAlwaysRemoved ==
  ASSUME NoRecreate, NoUnfail PROVE Spec => []CanaryRulesRemoved
<1> DEFINE Inv == Known /\ GoneForGood /\ RulesFollow
<1>1. Init => GoneForGood /\ RulesFollow
  BY DEF Init, GoneForGood, RulesFollow, Empty
<1>2. Known /\ GoneForGood /\ RulesFollow /\ [Next]_vars => GoneForGood' /\ RulesFollow'
  BY NextGone, NextRules
<1>3. Known /\ RulesFollow => CanaryRulesRemoved
  <2> SUFFICES ASSUME Known, RulesFollow, NEW t \in canaryRules, t \in DOMAIN status
               PROVE  status[t].state \notin {"releasing", "released", "retired", "failed", "deleted"}
    BY DEF CanaryRulesRemoved
  <2>1. manager = "alive"
    BY DEF Known, Typed, Structure, Empty
  <2>. QED BY <2>1 DEF RulesFollow, RuleStates
<1>. QED BY <1>1, <1>2, <1>3, AlwaysKnown, PTL DEF Spec
-----------------------------------------------------------------------------
(* The status and the mesh, when no reconcile is cut short and no pods are *)
(* lost.                                                                   *)

\* No reconcile is cut short between the routes and the status, and no ReplicaSet is lost.
Quiet == "abort" \notin Events /\ "losePods" \notin Events

\* No target has a canary.
NoCanaries == \A t \in Incarnations : CanaryPercent[t] = 0

\* Somebody has a percentage.
Serving(f) == \E u \in DOMAIN f : f[u].cur > 0

\* The mesh is what the percentages say: while a canary ends and nobody else
\* serves, the last routes stay.
Tracks(f) == Serving(f) \/ NoCanaries => \A t \in Tags : mesh[t] = Part(f, t)

\* The states without a ReplicaSet.
Undeployed == {"created", "deploying", "deleting", "deleted", "failing", "failed"}

\* Without a ReplicaSet there is no percentage.
Deployless(f) ==
  \A t \in DOMAIN f : replicaSet[t] = "none" => f[t].cur = 0 /\ f[t].state \in Undeployed

\* Without canaries only what is released, or on its way out, has a percentage.
NoShare(f) ==
  NoCanaries => \A t \in DOMAIN f :
    /\ f[t].state \notin {"canarying", "canaried"}
    /\ f[t].cur > 0 => f[t].state \in Live \cup Draining

\* The states in which an incarnation's pods are scaled down by sync.
Waiting == {"canaried", "pendingrelease"}

\* What sync scales down has no percentage.
Dry(f, S) == \A t \in S : f[t].state \in Waiting => f[t].cur = 0

\* The inductive invariant: at each point of the reconcile the mesh is what the status, the
\* incarnations in memory or the plan say.
InStep ==
  /\ pc = "idle" /\ manager = "alive" => Tracks(status)
  /\ pc \in {"tick", "route", "collect", "persist"} => Tracks(inc)
  /\ pc = "tick" => \A t \in DOMAIN status : inc[t].cur = status[t].cur
  /\ pc = "weights" =>
       /\ \A t \in Tags : plan[t] = Part(inc, t)
       /\ \A t \in Tags : plan[t] > 0 => t \in subsets
       /\ NoCanaries /\ (\A t \in Tags : plan[t] = 0) => \A t \in Tags : mesh[t] = 0
  /\ Deployless(status) /\ Deployless(inc)
  /\ NoShare(status) /\ NoShare(inc)
  /\ Dry(status, DOMAIN status) /\ Dry(inc, todo)
  /\ pc \in {"weights", "collect", "persist"} => Dry(inc, DOMAIN inc)

\* Only the percentages matter.
LEMMA SameTracks ==
  ASSUME NEW f, NEW g, DOMAIN f \subseteq Tags, DOMAIN g \subseteq Tags,
         \A t \in Tags : Part(g, t) = Part(f, t), Tracks(f)
  PROVE  Tracks(g)
<1>1. ASSUME NEW u \in DOMAIN g, g[u].cur > 0 PROVE u \in DOMAIN f /\ f[u].cur > 0
  <2>1. Part(f, u) > 0
    BY <1>1 DEF Part
  <2>2. u \in DOMAIN f
    <3> SUFFICES ASSUME u \notin DOMAIN f PROVE FALSE
      OBVIOUS
    <3>1. Part(f, u) = 0
      BY DEF Part
    <3>. QED BY <2>1, <3>1
  <2>. QED BY <2>1, <2>2 DEF Part
<1>2. Serving(g) => Serving(f)
  BY <1>1 DEF Serving
<1>. QED BY <1>2 DEF Tracks

\* What the environment does when it loses no pods.
LEMMA EnvironmentInStep ==
  ASSUME Quiet, Known, InStep, Environment
  PROVE  InStep'
<1>0. TypeOK /\ Structure /\ Typed
  BY DEF Known, Typed
<1>1. LeavesAlone
  BY <1>0, EnvironmentKeeps
<1>2. /\ UNCHANGED <<subsets, mesh, pc, inc, todo, plan>>
      /\ DOMAIN status' = DOMAIN status /\ DOMAIN status \subseteq Tags
      /\ \A t \in DOMAIN status : status'[t].state = status[t].state /\ status'[t].cur = status[t].cur
  BY <1>0, <1>1 DEF LeavesAlone, memory, TypeOK, IsPartial
<1>3. \A t \in Tags : replicaSet'[t] = "none" => replicaSet[t] = "none"
  <2>1. ASSUME NEW u \in Tags, PodsReady(u)
        PROVE  \A t \in Tags : replicaSet'[t] = "none" => replicaSet[t] = "none"
    BY <1>0, <2>1 DEF PodsReady, TypeOK
  <2>2. ASSUME NEW u \in Tags, Users(u) PROVE replicaSet' = replicaSet
    BY <1>0, <2>2, UsersType DEF cluster
  <2>. QED
    BY <2>1, <2>2 DEF Environment, CanaryTTLPasses, PodsLost, CreateManager, Quiet, cluster
<1>4. pc = "idle" /\ manager' = "alive" => Tracks(status)
  <2>1. CASE CreateManager
    <3>1. status = Empty /\ mesh = NoWeights
      BY <1>0, <2>1 DEF CreateManager, Structure
    <3>. QED BY <3>1 DEF Tracks, Part, Empty, NoWeights
  <2>2. ASSUME NEW u \in Tags, Users(u) PROVE manager' = manager
    BY <1>0, <2>2, UsersType
  <2>3. manager' = manager => (pc = "idle" /\ manager' = "alive" => Tracks(status))
    BY DEF InStep
  <2>. HIDE DEF Tracks
  <2>. QED BY <2>1, <2>2, <2>3 DEF Environment, CanaryTTLPasses, PodsReady, PodsLost
<1>5. pc' = "idle" /\ manager' = "alive" => Tracks(status)'
  <2>1. \A t \in Tags : Part(status', t) = Part(status, t)
    BY <1>2 DEF Part
  <2>2. Tracks(status) => Tracks(status')
    BY <1>2, <2>1, SameTracks
  <2>3. Tracks(status') <=> Tracks(status)'
    BY <1>2 DEF Tracks, Serving, Part
  <2>. HIDE DEF Tracks
  <2>. QED BY <1>2, <1>4, <2>2, <2>3
<1>6. Deployless(status)' /\ Deployless(inc)'
  BY <1>0, <1>2, <1>3 DEF InStep, Deployless, TypeOK, IsPartial
<1>7. NoShare(status)' /\ NoShare(inc)'
  BY <1>2 DEF InStep, NoShare
<1>8. Dry(status, DOMAIN status)' /\ Dry(inc, todo)'
  BY <1>2 DEF InStep, Dry
<1>9. pc' \in {"weights", "collect", "persist"} => Dry(inc, DOMAIN inc)'
  BY <1>2 DEF InStep, Dry
<1>10. pc' \in {"tick", "route", "collect", "persist"} => Tracks(inc)'
  BY <1>2 DEF InStep, Tracks, Serving, Part
<1>11. pc' = "tick" => \A t \in DOMAIN status' : inc'[t].cur = status'[t].cur
  BY <1>2 DEF InStep
<1>12. pc' = "weights" =>
         /\ \A t \in Tags : plan'[t] = Part(inc', t)
         /\ \A t \in Tags : plan'[t] > 0 => t \in subsets'
         /\ NoCanaries /\ (\A t \in Tags : plan'[t] = 0) => \A t \in Tags : mesh'[t] = 0
  BY <1>2 DEF InStep, Part
<1>. QED
  BY <1>5, <1>6, <1>7, <1>8, <1>9, <1>10, <1>11, <1>12 DEF InStep, Part

\* The percentages are read as they were persisted.
LEMMA BeginInStep ==
  ASSUME Known, InStep, Begin
  PROVE  InStep'
<1>0. TypeOK /\ Structure /\ Typed
  BY DEF Known, Typed
<1>1. /\ pc = "idle" /\ manager = "alive" /\ pc' = "tick"
      /\ inc' = [t \in DOMAIN revision \cup DOMAIN status |-> NewIncarnation(t)]
      /\ todo' = DOMAIN inc'
      /\ UNCHANGED <<revision, status, mesh, replicaSet, manager>>
  BY DEF Begin, cluster
<1>2. /\ DOMAIN inc' \subseteq Tags /\ DOMAIN status \subseteq DOMAIN inc'
      /\ DOMAIN status \subseteq Tags
  BY <1>0, <1>1 DEF TypeOK, IsPartial
<1>3. ASSUME NEW t \in DOMAIN inc'
      PROVE  /\ t \in DOMAIN status =>
                  inc'[t].state = status[t].state /\ inc'[t].cur = status[t].cur
             /\ t \notin DOMAIN status => inc'[t].state = "created" /\ inc'[t].cur = 0
  <2>1. inc'[t] = NewIncarnation(t) /\ t \in Tags
    BY <1>1, <1>2, <1>3
  <2>2. t \in DOMAIN status /\ replicaSet[t] = "none" => status[t].cur = 0
    BY DEF InStep, Deployless
  <2>. QED BY <1>0, <2>1, <2>2, NewIncarnationType DEF NewStatus
<1>4. Tracks(inc)'
  <2>1. \A t \in Tags : Part(inc', t) = Part(status, t)
    BY <1>2, <1>3 DEF Part
  <2>2. Tracks(status)
    BY <1>1 DEF InStep
  <2>3. Tracks(inc')
    BY <1>2, <2>1, <2>2, SameTracks
  <2>. QED BY <1>1, <2>3 DEF Tracks, Serving, Part
<1>5. Deployless(status)' /\ Deployless(inc)'
  <2>1. Deployless(status)
    BY DEF InStep
  <2>. QED BY <1>1, <1>3, <2>1 DEF Deployless, Undeployed
<1>6. NoShare(status)' /\ NoShare(inc)'
  <2>1. NoShare(status)
    BY DEF InStep
  <2>2. ASSUME NEW t \in DOMAIN inc', t \notin DOMAIN status
        PROVE  inc'[t].state \notin {"canarying", "canaried"} /\ ~(inc'[t].cur > 0)
    BY <1>3, <2>2
  <2>. QED BY <1>1, <1>3, <2>1, <2>2 DEF NoShare
<1>7. Dry(status, DOMAIN status)' /\ Dry(inc, todo)'
  <2>1. Dry(status, DOMAIN status)
    BY DEF InStep
  <2>. QED BY <1>1, <1>3, <2>1 DEF Dry
<1>8. \A t \in DOMAIN status' : inc'[t].cur = status'[t].cur
  BY <1>1, <1>2, <1>3
<1>. QED BY <1>1, <1>4, <1>5, <1>6, <1>7, <1>8 DEF InStep

\* Without canaries no handler goes to one.
LEMMA HandlerShares ==
  ASSUME NEW d, d.state \in States, d.state \notin {"canarying", "canaried"}, ~d.canaryPending,
         d.cur \in Nat, d.cur > 0 => d.state \in Live \cup Draining
  PROVE  /\ Handle(d).next \notin {"canarying", "canaried"}
         /\ d.cur > 0 => Handle(d).next \in Live \cup Draining
BY DEF Handle, States, Live, Draining, ToRelease, Created, Deploying, Deployed, PendingTest,
   Testing, Tested, PendingRelease, Releasing, Retiring, Retired, Deleting, Deleted, Failing,
   Failed, Timingout

\* Without a ReplicaSet a handler goes on from "deploying" by way of sync.
LEMMA HandlerDeploys ==
  ASSUME NEW d, d.state \in Undeployed, "sync" \notin Done(d)
  PROVE  Handle(d).next \in Undeployed
<1>1. Handle(d).next \in Undeployed \/ Handle(d).calls = <<"sync">>
  BY DEF Handle, Undeployed, Created, Deploying, Deleting, Deleted, Failing, Failed
<1>. QED BY <1>1, DoneIs DEF Done

\* What a tick does to the ReplicaSet.
LEMMA TicksPods ==
  ASSUME TypeOK, NEW t \in DOMAIN inc, NEW d, Ticks(t, d)
  PROVE  /\ \A u \in Tags \ {t} : replicaSet'[u] = replicaSet[u]
         /\ replicaSet'[t] = "none" =>
              \/ replicaSet[t] = "none" /\ "sync" \notin Done(d)
              \/ inc[t].state = "deleting" /\ inc[t].cur = 0 /\ Handle(d).next = "deleted"
         /\ replicaSet[t] \in Up /\ replicaSet'[t] \notin Up =>
              \/ inc[t].state \in Waiting \cup {"retired", "failed"}
              \/ inc[t].cur = 0
<1>0. t \in Tags
  BY DEF TypeOK, IsPartial
<1>1. replicaSet' = [replicaSet EXCEPT ![t] = ReplicaSetAfter(@, inc[t], Done(d))]
  BY DEF Ticks, Apply, Done
<1>2. replicaSet'[t] = ReplicaSetAfter(replicaSet[t], inc[t], Done(d))
  BY <1>0, <1>1 DEF TypeOK
<1>3. /\ d.state = inc[t].state /\ d.state \in States /\ d.rev = inc[t].rev
      /\ d.cur = inc[t].cur /\ d.cur \in Nat /\ (d.cur > 0 \/ d.cur = 0)
  BY TicksShows
<1>a. /\ "sync" \in Done(d) => "retire" \notin Done(d) /\ "del" \notin Done(d)
      /\ "retire" \in Done(d) => "del" \notin Done(d)
  BY <1>3, HandlerCalls
<1>4. CASE "sync" \in Done(d)
  <2>1. d.rev
    BY <1>3, <1>4, HandlerCalls
  <2>2. replicaSet'[t] = SyncRevision(replicaSet[t], IF IsRoutable(inc[t]) THEN 1 ELSE 0)
    BY <1>2, <1>3, <1>a, <1>4, <2>1 DEF ReplicaSetAfter, Sync
  <2>3. replicaSet'[t] # "none" /\ (replicaSet'[t] \notin Up => ~IsRoutable(inc[t]))
    BY <2>2 DEF SyncRevision, CreateOrUpdate, Up
  <2>. QED BY <1>0, <1>1, <2>3 DEF IsRoutable, Waiting, TypeOK
<1>5. CASE "sync" \notin Done(d) /\ "retire" \in Done(d)
  <2>1. replicaSet'[t] = IF replicaSet[t] \in Up THEN "zero" ELSE replicaSet[t]
    BY <1>2, <1>a, <1>5 DEF ReplicaSetAfter, RetireRevision
  <2>2. d.state \in {"retired", "failed"} \/ ~(d.cur > 0)
    BY <1>3, <1>5, HandlerCalls
  <2>. QED BY <1>0, <1>1, <1>3, <1>5, <2>1, <2>2 DEF TypeOK
<1>6. CASE "sync" \notin Done(d) /\ "retire" \notin Done(d) /\ "del" \in Done(d)
  <2>1. d.state = "deleting" /\ ~(d.cur > 0) /\ Handle(d).next = "deleted"
    BY <1>3, <1>6, HandlerCalls
  <2>. QED BY <1>0, <1>1, <1>3, <2>1 DEF TypeOK
<1>7. CASE "sync" \notin Done(d) /\ "retire" \notin Done(d) /\ "del" \notin Done(d)
  <2>1. replicaSet'[t] = replicaSet[t]
    BY <1>2, <1>7 DEF ReplicaSetAfter
  <2>. QED BY <1>0, <1>1, <1>7, <2>1 DEF TypeOK
<1>. QED BY <1>4, <1>5, <1>6, <1>7

\* A tick changes no percentage.
LEMMA TickInStep ==
  ASSUME Known, InStep, Tick
  PROVE  InStep'
<1>0. TypeOK /\ Structure /\ Typed /\ OffDry /\ Waits
  BY DEF Known, Typed, Unserved
<1>1. /\ pc = "tick" /\ UNCHANGED <<status, mesh, manager>>
      /\ \E t, d : Ticks(t, d)
  BY <1>0, TickTicks
<1>2. PICK t, d : Ticks(t, d)
  BY <1>1
<1>3. /\ DOMAIN inc' = DOMAIN inc /\ DOMAIN inc \subseteq Tags /\ DOMAIN status \subseteq Tags
      /\ inc'[t].state = Handle(d).next /\ inc'[t].cur = inc[t].cur
      /\ todo' = todo \ {t} /\ t \in todo /\ t \in DOMAIN inc
      /\ \A u \in DOMAIN inc \ {t} : inc'[u] = inc[u]
      /\ pc' \in {"tick", "route"}
  BY <1>0, <1>2, TicksIncarnations DEF Structure, Ticks, TypeOK, IsPartial
<1>4. /\ d.state = inc[t].state /\ d.cur = inc[t].cur
      /\ d.canaryPending = CanaryPending(t, inc[t]) /\ d.state \in States /\ d.cur \in Nat
  BY <1>0, <1>2, <1>3, TicksShows
<1>5. \A u \in DOMAIN inc : inc'[u].cur = inc[u].cur
  BY <1>3
<1>6. /\ \A u \in Tags \ {t} : replicaSet'[u] = replicaSet[u]
      /\ replicaSet'[t] = "none" =>
           \/ replicaSet[t] = "none" /\ "sync" \notin Done(d)
           \/ inc[t].state = "deleting" /\ inc[t].cur = 0 /\ Handle(d).next = "deleted"
  BY <1>0, <1>2, <1>3, TicksPods
<1>7. Tracks(inc)'
  <2>1. \A u \in Tags : Part(inc', u) = Part(inc, u)
    BY <1>3, <1>5 DEF Part
  <2>2. Tracks(inc)
    BY <1>1 DEF InStep
  <2>3. Tracks(inc')
    BY <1>3, <2>1, <2>2, SameTracks
  <2>. QED BY <1>1, <2>3 DEF Tracks, Serving, Part
<1>8. Deployless(inc)'
  <2>1. Deployless(inc)
    BY DEF InStep
  <2>2. replicaSet'[t] = "none" => inc[t].cur = 0 /\ Handle(d).next \in Undeployed
    <3>1. CASE replicaSet[t] = "none" /\ "sync" \notin Done(d)
      <4>1. d.state \in Undeployed /\ inc[t].cur = 0
        BY <1>3, <1>4, <2>1, <3>1 DEF Deployless
      <4>. QED BY <3>1, <4>1, HandlerDeploys
    <3>2. CASE inc[t].cur = 0 /\ Handle(d).next = "deleted"
      BY <3>2 DEF Undeployed
    <3>. QED BY <1>6, <3>1, <3>2
  <2>. QED BY <1>3, <1>6, <2>1, <2>2 DEF Deployless
<1>9. Deployless(status)'
  <2>1. Deployless(status) /\ Deployless(inc)
    BY DEF InStep
  <2>2. t \in DOMAIN status => status[t].cur = inc[t].cur /\ status[t].state = inc[t].state
    BY <1>0, <1>1, <1>3 DEF InStep, Waits
  <2>3. replicaSet'[t] = "none" => inc[t].cur = 0 /\ inc[t].state \in Undeployed
    BY <1>3, <1>6, <2>1 DEF Deployless, Undeployed
  <2>. QED BY <1>1, <1>3, <1>6, <2>1, <2>2, <2>3 DEF Deployless
<1>10. NoShare(status)' /\ NoShare(inc)'
  <2>1. NoShare(status) /\ NoShare(inc)
    BY DEF InStep
  <2>2. ASSUME NoCanaries
        PROVE  /\ Handle(d).next \notin {"canarying", "canaried"}
               /\ inc[t].cur > 0 => Handle(d).next \in Live \cup Draining
    <3>1. ~d.canaryPending
      <4>1. CanaryPercent[t] = 0
        BY <1>3, <2>2 DEF NoCanaries, Tags
      <4>2. ~(CanaryPercent[t] > 0)
        BY <4>1
      <4>3. ~CanaryPending(t, inc[t])
        BY <4>2 DEF CanaryPending
      <4>. QED BY <1>4, <4>3
    <3>2. /\ d.state \notin {"canarying", "canaried"}
          /\ d.cur > 0 => d.state \in Live \cup Draining
      BY <1>3, <1>4, <2>1, <2>2 DEF NoShare
    <3>. QED BY <1>4, <3>1, <3>2, HandlerShares
  <2>. QED BY <1>1, <1>3, <2>1, <2>2 DEF NoShare
<1>11. Dry(status, DOMAIN status)' /\ Dry(inc, todo)'
  <2>1. Dry(status, DOMAIN status) /\ Dry(inc, todo)
    BY DEF InStep
  <2>2. \A u \in todo' : u \in todo /\ inc'[u] = inc[u]
    BY <1>0, <1>3 DEF Structure
  <2>. QED BY <1>1, <2>1, <2>2 DEF Dry
<1>12. \A u \in DOMAIN status' : inc'[u].cur = status'[u].cur
  <2>1. \A u \in DOMAIN status : inc[u].cur = status[u].cur /\ u \in DOMAIN inc
    BY <1>0, <1>1 DEF InStep, Structure
  <2>. QED BY <1>1, <1>5, <2>1
<1>. QED
  BY <1>3, <1>7, <1>8, <1>9, <1>10, <1>11, <1>12 DEF InStep

\* The split gives each its weight, or leaves all as they are.
LEMMA SplitInStep ==
  ASSUME Known, InStep, RouteSubsets
  PROVE  InStep'
<1>0. TypeOK /\ Structure /\ Typed
  BY DEF Known, Typed
<1>1. /\ pc = "route" /\ Splits /\ todo = {}
      /\ UNCHANGED <<manager, status, replicaSet, mesh, todo>>
  BY <1>0, RouteSplits DEF Structure
<1>2. /\ DOMAIN inc' = DOMAIN inc /\ DOMAIN inc \subseteq Tags
      /\ \A t \in DOMAIN inc : inc'[t].state = inc[t].state
      /\ pc' \in {"collect", "weights"}
      /\ \A t \in DOMAIN inc : inc'[t].cur \in Nat /\ inc[t].cur \in Nat
  <2>1. TypeOK'
    BY <1>0, RouteSubsetsType DEF Typed
  <2>2. /\ DOMAIN inc' = DOMAIN inc /\ pc' \in {"collect", "weights"}
        /\ \A t \in DOMAIN inc : inc'[t].state = inc[t].state
    BY <1>1 DEF Splits, SameBut
  <2>3. /\ DOMAIN inc \subseteq Tags
        /\ \A t \in DOMAIN inc : inc[t] \in Incarnation /\ inc'[t] \in Incarnation
    BY <1>0, <2>1, <2>2 DEF TypeOK, IsPartial
  <2>4. \A t \in DOMAIN inc : inc'[t].cur \in Nat /\ inc[t].cur \in Nat
    BY <2>3 DEF Incarnation
  <2>. QED BY <2>2, <2>3, <2>4
<1>3. Tracks(inc) /\ Deployless(inc) /\ NoShare(inc)
  BY <1>1 DEF InStep
<1>4. \A t \in DOMAIN inc : Left(t) = inc[t].cur
  BY <1>3 DEF Left, Deployless
<1>5. ASSUME NEW t \in DOMAIN inc, ~Takes(t), pc' = "weights" PROVE inc'[t].cur = 0
  BY <1>1, <1>2, <1>5 DEF Splits
<1>6. ASSUME NEW t \in DOMAIN inc, pc' = "collect"
      PROVE  inc'[t].cur = inc[t].cur /\ inc'[t].state \notin Waiting
  BY <1>1, <1>4, <1>6 DEF Splits, Waiting, DeployedStates
<1>7. pc' = "collect" => Tracks(inc)'
  <2> SUFFICES ASSUME pc' = "collect" PROVE Tracks(inc)'
    OBVIOUS
  <2>1. \A u \in Tags : Part(inc', u) = Part(inc, u)
    BY <1>2, <1>6 DEF Part
  <2>2. Tracks(inc')
    BY <1>2, <1>3, <2>1, SameTracks
  <2>. QED BY <1>1, <2>2 DEF Tracks, Serving, Part
<1>8. Deployless(inc)' /\ NoShare(inc)'
  <2>1. ASSUME NEW t \in DOMAIN inc, replicaSet[t] = "none" PROVE inc'[t].cur = 0
    <3>1. inc[t].cur = 0 /\ inc[t].state \in Undeployed
      BY <1>3, <2>1 DEF Deployless
    <3>2. ~Takes(t)
      BY <1>4, <3>1 DEF Takes, Undeployed, Canaries, Live, Draining
    <3>. QED BY <1>2, <1>5, <1>6, <3>1, <3>2
  <2>2. ASSUME NEW t \in DOMAIN inc, NoCanaries, inc'[t].cur > 0
        PROVE  inc[t].state \in Live \cup Draining
    <3>1. CASE pc' = "collect"
      BY <1>3, <1>6, <2>2, <3>1 DEF NoShare
    <3>2. CASE pc' = "weights"
      <4>1. Takes(t)
        BY <1>1, <2>2, <3>2 DEF Splits
      <4>2. inc[t].state \notin Canaries
        BY <1>3, <2>2 DEF NoShare, Canaries
      <4>. QED BY <4>1, <4>2 DEF Takes
    <3>. QED BY <1>2, <3>1, <3>2
  <2>. QED BY <1>1, <1>2, <1>3, <2>1, <2>2 DEF Deployless, NoShare
<1>9. Dry(inc, DOMAIN inc)' /\ Dry(inc, todo)'
  <2>1. ASSUME NEW t \in DOMAIN inc, inc[t].state \in Waiting PROVE inc'[t].cur = 0
    <3>1. ~Takes(t)
      BY <2>1 DEF Takes, Waiting, Canaries, Live, Draining
    <3>. QED BY <1>2, <1>5, <1>6, <2>1, <3>1
  <2>. QED BY <1>1, <1>2, <2>1 DEF Dry
<1>10. pc' = "weights" =>
         /\ \A t \in Tags : plan'[t] = Part(inc', t)
         /\ \A t \in Tags : plan'[t] > 0 => t \in subsets'
         /\ NoCanaries /\ (\A t \in Tags : plan'[t] = 0) => \A t \in Tags : mesh'[t] = 0
  <2> SUFFICES ASSUME pc' = "weights"
               PROVE  /\ \A t \in Tags : plan'[t] = Part(inc', t)
                      /\ \A t \in Tags : plan'[t] > 0 => t \in subsets'
                      /\ NoCanaries /\ (\A t \in Tags : plan'[t] = 0) =>
                           \A t \in Tags : mesh'[t] = 0
    OBVIOUS
  <2>1. \A t \in Tags : plan'[t] = Part(inc', t)
    BY <1>1 DEF Splits
  <2>2. ASSUME NEW t \in Tags, plan'[t] > 0 PROVE t \in subsets'
    <3>1. t \in DOMAIN inc /\ inc'[t].cur > 0
      <4>1. Part(inc', t) > 0
        BY <2>1, <2>2
      <4>2. t \in DOMAIN inc'
        <5> SUFFICES ASSUME t \notin DOMAIN inc' PROVE FALSE
          OBVIOUS
        <5>1. Part(inc', t) = 0
          BY DEF Part
        <5>. QED BY <4>1, <5>1
      <4>. QED BY <1>2, <4>1, <4>2 DEF Part
    <3>. QED BY <1>1, <3>1 DEF Splits
  <2>3. ASSUME NoCanaries, \A t \in Tags : plan'[t] = 0, NEW t \in Tags
        PROVE  mesh'[t] = 0
    <3>1. ~\E u \in DOMAIN inc : Takes(u)
      <4> SUFFICES ASSUME \E u \in DOMAIN inc : Takes(u) PROVE FALSE
        OBVIOUS
      <4>1. SumFunction(plan') = 100
        BY <1>1 DEF Splits
      <4>2. plan' \in [Tags -> Int] /\ IsFiniteSet(Tags)
        <5>1. TypeOK'
          BY <1>0, RouteSubsetsType DEF Typed
        <5>. QED BY <5>1, TagsAssumption DEF TypeOK
      <4>3. SumFunction(plan') = 0
        BY <2>3, <4>2, SumZero
      <4>. QED BY <4>1, <4>3
    <3>2. mesh[t] = Part(inc, t)
      BY <1>3, <2>3 DEF Tracks
    <3>3. t \in DOMAIN inc => inc[t].cur = 0
      <4> SUFFICES ASSUME t \in DOMAIN inc, inc[t].cur > 0 PROVE FALSE
        BY <1>2
      <4>1. inc[t].state \in Live \cup Draining
        BY <1>3, <2>3 DEF NoShare
      <4>. QED BY <1>4, <3>1, <4>1 DEF Takes
    <3>. QED BY <1>1, <3>2, <3>3 DEF Part
  <2>. QED BY <2>1, <2>2, <2>3
<1>11. Deployless(status)' /\ NoShare(status)' /\ Dry(status, DOMAIN status)'
  BY <1>1 DEF InStep, Deployless, NoShare, Dry
<1>. QED BY <1>2, <1>7, <1>8, <1>9, <1>10, <1>11 DEF InStep

\* The routes become what was prepared.
LEMMA WeightsInStep ==
  ASSUME Known, InStep, RouteWeights
  PROVE  InStep'
<1>0. TypeOK /\ Structure
  BY DEF Known, Typed
<1>1. /\ pc = "weights" /\ pc' = "collect"
      /\ mesh' = IF ReleaseRoutes \cup TaggedRoutes = {} THEN mesh ELSE plan
      /\ UNCHANGED <<manager, status, replicaSet, inc, todo>>
  BY DEF RouteWeights
<1>2. \A t \in Tags : plan[t] = Part(inc, t)
  BY <1>1 DEF InStep
<1>3. Tracks(inc)'
  <2>1. CASE mesh' = plan
    BY <1>1, <1>2, <2>1 DEF Tracks, Part
  <2>2. CASE ReleaseRoutes = {} /\ mesh' = mesh
    <3>1. \A t \in Tags : plan[t] = 0
      BY <1>0, <2>2 DEF ReleaseRoutes, TypeOK
    <3>2. ASSUME NEW u \in DOMAIN inc, inc[u].cur > 0 PROVE FALSE
      <4>1. u \in Tags /\ Part(inc, u) = inc[u].cur
        BY <1>0 DEF Part, TypeOK, IsPartial
      <4>. QED BY <1>2, <3>1, <3>2, <4>1
    <3>3. NoCanaries => \A t \in Tags : mesh[t] = 0
      BY <1>1, <3>1 DEF InStep
    <3>4. Serving(inc)' => FALSE
      BY <1>1, <3>2 DEF Serving
    <3>. QED BY <1>1, <1>2, <2>2, <3>1, <3>3, <3>4 DEF Tracks, Part
  <2>. QED BY <1>1, <2>1, <2>2
<1>4. Deployless(status)' /\ Deployless(inc)'
  BY <1>1 DEF InStep, Deployless
<1>5. NoShare(status)' /\ NoShare(inc)'
  BY <1>1 DEF InStep, NoShare
<1>6. Dry(status, DOMAIN status)' /\ Dry(inc, todo)' /\ Dry(inc, DOMAIN inc)'
  BY <1>1 DEF InStep, Dry
<1>. QED BY <1>1, <1>3, <1>4, <1>5, <1>6 DEF InStep

\* The collector changes neither routes nor percentages.
LEMMA CollectInStep ==
  ASSUME Known, InStep, Collect
  PROVE  InStep'
<1>1. /\ pc = "collect" /\ pc' = "persist"
      /\ UNCHANGED <<manager, status, replicaSet, mesh, inc, todo>>
  BY CollectMarks DEF Known, Typed, cluster
<1>2. Tracks(inc)'
  BY <1>1 DEF InStep, Tracks, Serving, Part
<1>3. Deployless(status)' /\ Deployless(inc)'
  BY <1>1 DEF InStep, Deployless
<1>4. NoShare(status)' /\ NoShare(inc)'
  BY <1>1 DEF InStep, NoShare
<1>5. Dry(status, DOMAIN status)' /\ Dry(inc, todo)' /\ Dry(inc, DOMAIN inc)'
  BY <1>1 DEF InStep, Dry
<1>. QED BY <1>1, <1>2, <1>3, <1>4, <1>5 DEF InStep

\* What is not persisted is deleted, and had no percentage.
LEMMA PersistInStep ==
  ASSUME Known, InStep, Persist
  PROVE  InStep'
<1>0. TypeOK /\ Structure /\ OffDry
  BY DEF Known, Typed, Unserved
<1>1. /\ pc = "persist" /\ Forget /\ UNCHANGED <<manager, replicaSet, mesh>>
      /\ DOMAIN status' = Kept(inc)
      /\ \A t \in Kept(inc) :
           status'[t].state = inc[t].state /\ status'[t].cur = inc[t].cur
  BY <1>0, PersistKeeps DEF cluster
<1>2. pc' = "idle" /\ inc' = Empty /\ todo' = {}
  BY <1>1 DEF Forget
<1>3. /\ Kept(inc) \subseteq DOMAIN inc /\ DOMAIN inc \subseteq Tags
      /\ \A t \in DOMAIN inc \ Kept(inc) : inc[t].cur = 0
  BY <1>0 DEF Kept, OffDry, Off, TypeOK, IsPartial
<1>4. Tracks(status)'
  <2>1. \A t \in Tags : Part(status', t) = Part(inc, t)
    BY <1>1, <1>3 DEF Part
  <2>2. Tracks(inc)
    BY <1>1 DEF InStep
  <2>3. DOMAIN status' \subseteq Tags
    BY <1>1, <1>3
  <2>4. Tracks(status')
    BY <1>3, <2>1, <2>2, <2>3, SameTracks
  <2>. QED BY <1>1, <2>4 DEF Tracks, Serving, Part
<1>5. Deployless(status)' /\ Deployless(inc)'
  <2>1. Deployless(inc)
    BY DEF InStep
  <2>. QED BY <1>1, <1>2, <1>3, <2>1 DEF Deployless, Empty
<1>6. NoShare(status)' /\ NoShare(inc)'
  <2>1. NoShare(inc)
    BY DEF InStep
  <2>. QED BY <1>1, <1>2, <1>3, <2>1 DEF NoShare, Empty
<1>7. Dry(status, DOMAIN status)' /\ Dry(inc, todo)'
  <2>1. Dry(inc, DOMAIN inc)
    BY <1>1 DEF InStep
  <2>. QED BY <1>1, <1>2, <1>3, <2>1 DEF Dry
<1>. QED BY <1>2, <1>4, <1>5, <1>6, <1>7 DEF InStep

\* No step takes the mesh out of step.
LEMMA NextInStep ==
  ASSUME Quiet, Known, InStep, [Next]_vars
  PROVE  InStep'
<1>0. TypeOK /\ Structure
  BY DEF Known, Typed
<1>1. CASE DeleteSelf \/ Finalize
  <2>1. /\ pc' = "idle" /\ manager' # "alive" /\ status' = Empty /\ inc' = Empty /\ todo' = {}
    BY <1>0, <1>1 DEF DeleteSelf, Finalize, Structure, memory
  <2>. QED BY <2>1 DEF InStep, Deployless, NoShare, Dry, Empty
<1>2. CASE UNCHANGED vars
  BY <1>2
  DEF InStep, Tracks, Serving, Part, Deployless, NoShare, Dry, vars, cluster, memory
<1>. QED
  BY <1>1, <1>2, EnvironmentInStep, BeginInStep, TickInStep, SplitInStep, WeightsInStep,
     CollectInStep, PersistInStep
  DEF Next, Reconcile, TickFails, Abort, Quiet

\* The invariant of the theorems below.
LEMMA AlwaysInStep == ASSUME Quiet PROVE Spec => [](Known /\ InStep)
<1>1. Init => InStep
  BY DEF Init, InStep, Tracks, Serving, Part, Deployless, NoShare, Dry, Empty, NoWeights
<1>2. Known /\ InStep /\ [Next]_vars => InStep'
  BY NextInStep
<1>. QED BY <1>1, <1>2, AlwaysKnown, PTL DEF Spec
-----------------------------------------------------------------------------
(* What follows.                                                           *)

\* A tick takes the pods only of what has no percentage.
LEMMA TakesDry ==
  ASSUME Quiet, Known, InStep, [Next]_vars, pc = "tick", NEW t \in Tags,
         replicaSet[t] \in Up, replicaSet'[t] \notin Up
  PROVE  t \in DOMAIN inc /\ inc[t].cur = 0
<1>0. TypeOK /\ Structure /\ Typed /\ OffDry
  BY DEF Known, Typed, Unserved
<1>1. CASE Tick
  <2>1. PICK u, d : Ticks(u, d)
    BY <1>0, <1>1, TickTicks
  <2>2. u \in todo /\ u \in DOMAIN inc
    BY <1>0, <2>1 DEF Ticks, Structure
  <2>3. t = u
    BY <1>0, <2>1, <2>2, TicksPods
  <2>4. inc[t].state \in Waiting \cup {"retired", "failed"} \/ inc[t].cur = 0
    BY <1>0, <2>1, <2>2, <2>3, TicksPods
  <2>5. Dry(inc, todo)
    BY DEF InStep
  <2>. QED BY <1>0, <2>2, <2>3, <2>4, <2>5 DEF Dry, OffDry, Off
<1>2. ASSUME NEW u \in Tags, PodsReady(u) PROVE replicaSet'[t] \in Up
  BY <1>0, <1>2 DEF PodsReady, TypeOK, Up
<1>3. ASSUME NEW u \in Tags, Users(u) PROVE replicaSet' = replicaSet
  BY <1>0, <1>3, UsersType DEF cluster
<1>4. replicaSet' # replicaSet
  OBVIOUS
<1>. QED
  BY <1>1, <1>2, <1>3, <1>4
  DEF Next, Environment, Reconcile, Quiet, CanaryTTLPasses, PodsLost, CreateManager, Begin,
      DeleteSelf, Finalize, TickFails, RouteSubsets, RouteWeights, Collect, Persist, Abort, vars,
      cluster

\* Whoever has a percentage in its status has it in memory too.
LEMMA RoutedServes ==
  ASSUME Known, InStep, pc = "tick", Routed
  PROVE  Serving(inc)
BY DEF Known, Typed, Structure, InStep, Routed, Serving

(***************************************************************************)
(* With canaries too, a reconcile takes the pods of what the mesh still    *)
(* sends traffic to only when no revision is left to take it (the routes   *)
(* then stay as they were).                                                *)
(***************************************************************************)
THEOREM DrainsUnlessAlone == ASSUME Quiet PROVE Spec => DrainUnlessAlone
<1>1. ASSUME Known, InStep, [Next]_vars, pc = "tick", NEW t \in Tags,
             replicaSet[t] \in Up /\ replicaSet'[t] \notin Up /\ mesh[t] > 0
      PROVE  ~Routed
  <2> SUFFICES ASSUME Routed PROVE FALSE
    OBVIOUS
  <2>1. t \in DOMAIN inc /\ inc[t].cur = 0
    BY <1>1, TakesDry
  <2>2. mesh[t] = Part(inc, t)
    BY <1>1, RoutedServes DEF InStep, Tracks
  <2>3. mesh[t] = 0
    BY <2>1, <2>2 DEF Part
  <2>. QED BY <1>1, <2>3
<1>2. ASSUME Known /\ InStep, [Next]_vars
      PROVE  [pc = "tick" =>
                \A t \in Tags :
                  replicaSet[t] \in Up /\ replicaSet'[t] \notin Up /\ mesh[t] > 0
                    => ~Routed]_vars
  BY <1>1, <1>2
<1>. QED BY <1>2, AlwaysInStep, PTL DEF Spec, DrainUnlessAlone

(***************************************************************************)
(* Without canaries, sync, retire and del scale down or delete only a      *)
(* ReplicaSet that the VirtualService sends no traffic to.                 *)
(***************************************************************************)
THEOREM DrainsBeforeScaleDown ==
  ASSUME Quiet, NoCanaries PROVE Spec => DrainBeforeScaleDown
<1>1. ASSUME Known, InStep, [Next]_vars, pc = "tick", NEW t \in Tags,
             replicaSet[t] \in Up /\ replicaSet'[t] \notin Up
      PROVE  mesh[t] = 0
  <2>1. t \in DOMAIN inc /\ inc[t].cur = 0
    BY <1>1, TakesDry
  <2>2. mesh[t] = Part(inc, t)
    BY <1>1 DEF InStep, Tracks
  <2>. QED BY <2>1, <2>2 DEF Part
<1>2. ASSUME Known /\ InStep, [Next]_vars
      PROVE  [pc = "tick" =>
                \A t \in Tags : replicaSet[t] \in Up /\ replicaSet'[t] \notin Up => mesh[t] = 0]_vars
  BY <1>1, <1>2
<1>. QED BY <1>2, AlwaysInStep, PTL DEF Spec, DrainBeforeScaleDown

(***************************************************************************)
(* The CurrentPercent that syncStatus persists is the weight that syncApp  *)
(* wrote, through the second observation and the split in between.         *)
(***************************************************************************)
THEOREM StatusAlwaysMesh ==
  ASSUME Quiet, NoCanaries PROVE Spec => StatusIsMesh
<1>1. ASSUME Known, InStep, pc = "persist", NEW t \in DOMAIN inc
      PROVE  inc[t].cur = mesh[t]
  <2>1. t \in Tags
    BY <1>1 DEF Known, Typed, TypeOK, IsPartial
  <2>. QED BY <1>1, <2>1 DEF InStep, Tracks, Part
<1>2. ASSUME Known /\ InStep, [Next]_vars
      PROVE  [pc = "persist" /\ pc' = "idle" => \A t \in DOMAIN inc : inc[t].cur = mesh[t]]_vars
  BY <1>1, <1>2
<1>. QED BY <1>2, AlwaysInStep, PTL DEF Spec, StatusIsMesh

\* A step that changes the DestinationRule keeps the subsets of the routes in place.
LEMMA NextHasSubset ==
  ASSUME Quiet, NoCanaries, Known, InStep, RouteHasSubset, [Next]_vars
  PROVE  RouteHasSubset'
<1>0. TypeOK /\ Structure /\ Typed
  BY DEF Known, Typed
<1>1. CASE UNCHANGED <<mesh, subsets>>
  BY <1>1 DEF RouteHasSubset
<1>2. CASE RouteSubsets
  <2>1. pc = "route" /\ Splits /\ mesh' = mesh
    BY <1>0, <1>2, RouteSplits
  <2>2. CASE pc' = "collect"
    BY <2>1, <2>2 DEF Splits, RouteHasSubset
  <2>3. CASE pc' = "weights"
    <3> SUFFICES ASSUME NEW t \in Tags, mesh[t] > 0 PROVE t \in subsets'
      BY <2>1 DEF RouteHasSubset
    <3>1. mesh[t] = Part(inc, t)
      BY <2>1 DEF InStep, Tracks
    <3>2. t \in DOMAIN inc
      <4> SUFFICES ASSUME t \notin DOMAIN inc PROVE FALSE
        OBVIOUS
      <4>1. mesh[t] = 0
        BY <3>1 DEF Part
      <4>. QED BY <4>1
    <3>3. inc[t].cur > 0
      BY <3>1, <3>2 DEF Part
    <3>4. Left(t) = inc[t].cur
      BY <3>2 DEF Left, InStep, Deployless
    <3>5. inc[t].state \in Live \cup Draining
      BY <3>2, <3>3 DEF InStep, NoShare
    <3>6. Takes(t)
      BY <3>3, <3>4, <3>5 DEF Takes
    <3>. QED BY <2>1, <2>3, <3>2, <3>6 DEF Splits
  <2>. QED BY <2>1, <2>2, <2>3 DEF Splits
<1>3. CASE RouteWeights
  BY <1>3 DEF RouteWeights, InStep, RouteHasSubset
<1>4. CASE Finalize
  <2>1. \A t \in Tags : mesh'[t] = 0
    BY <1>4 DEF Finalize, NoWeights
  <2>. QED BY <2>1 DEF RouteHasSubset
<1>5. LeavesAlone => UNCHANGED <<mesh, subsets>>
  BY DEF LeavesAlone
<1>. QED
  BY <1>0, <1>1, <1>2, <1>3, <1>4, <1>5, EnvironmentKeeps
  DEF Next, Reconcile, Begin, Tick, TickFails, DeleteSelf, Collect, Persist, Abort, cluster, vars

(***************************************************************************)
(* syncApp writes the DestinationRule before the VirtualService: also in   *)
(* between, every route with traffic has its subset.                       *)
(***************************************************************************)
THEOREM RoutesHaveSubsets ==
  ASSUME Quiet, NoCanaries PROVE Spec => []RouteHasSubset
<1>1. Init => RouteHasSubset
  BY DEF Init, RouteHasSubset, NoWeights
<1>2. (Known /\ InStep) /\ RouteHasSubset /\ [Next]_vars => RouteHasSubset'
  BY NextHasSubset
<1>. QED BY <1>1, <1>2, AlwaysInStep, PTL DEF Spec

(***************************************************************************)
(* Nothing has traffic whose external test is pending or running,          *)
(* whichever way it came through the states of the machine.                *)
(***************************************************************************)
THEOREM AlwaysTestedBeforeTraffic ==
  ASSUME Quiet, NoRecreate PROVE Spec => []TestedBeforeTraffic
<1>1. Init => ShippedTested
  BY DEF Init, ShippedTested, Empty
<1>2. Known /\ ShippedTested /\ [Next]_vars => ShippedTested'
  BY NextTested
<1>3. (Known /\ InStep) /\ ShippedTested => TestedBeforeTraffic
  <2> SUFFICES ASSUME Known, InStep, ShippedTested, pc = "idle", Routed,
                      NEW t \in DOMAIN revision, mesh[t] > 0
               PROVE  revision[t].ext \notin {"pending", "started"}
    BY DEF TestedBeforeTraffic
  <2>1. manager = "alive" /\ Serving(status)
    BY DEF Known, Typed, Structure, Routed, Serving, Empty
  <2>2. t \in Tags
    BY DEF Known, Typed, TypeOK, IsPartial
  <2>3. mesh[t] = Part(status, t)
    BY <2>1, <2>2 DEF InStep, Tracks
  <2>4. t \in DOMAIN status
    <3> SUFFICES ASSUME t \notin DOMAIN status PROVE FALSE
      OBVIOUS
    <3>1. mesh[t] = 0
      BY <2>3 DEF Part
    <3>. QED BY <3>1
  <2>5. status[t].cur > 0
    BY <2>3, <2>4 DEF Part
  <2>. QED BY <2>4, <2>5 DEF ShippedTested, NotTesting
<1>. QED BY <1>1, <1>2, <1>3, AlwaysKnown, AlwaysInStep, PTL DEF Spec

(***************************************************************************)
(* markGarbage labels only Revisions to which the mesh sends no traffic in *)
(* this target, though it decides by the states and not by the routes.     *)
(***************************************************************************)
THEOREM AlwaysMarkedUnserved ==
  ASSUME Quiet, NoCanaries, NoRecreate PROVE Spec => MarkedUnserved
<1>1. Init => GoneForGood
  BY DEF Init, GoneForGood, Empty
<1>2. Known /\ GoneForGood /\ [Next]_vars => GoneForGood'
  BY NextGone
<1>3. ASSUME Known, InStep, GoneForGood, [Next]_vars, NEW t \in Tags, Marks(t)
      PROVE  mesh[t] = 0
  <2>0. TypeOK /\ Structure /\ OffDry
    BY <1>3 DEF Known, Typed, Unserved
  <2>1. Collect /\ pc = "collect" /\ todo = {}
    BY <1>3, <2>0, OnlyCollectMarks DEF Collect, Structure
  <2>2. PICK sorted \in Sorted(inc), expired \in SUBSET DOMAIN inc : \A u \in DOMAIN revision :
          revision'[u].deletable =>
            revision[u].deletable \/ (u \in FindGarbage(inc, expired, sorted) /\ inc[u].rev)
    BY <2>0, <2>1, CollectMarks
  <2>3. t \in FindGarbage(inc, expired, sorted) /\ inc[t].rev
    BY <1>3, <2>2 DEF Marks
  <2>4. t \in expired /\ inc[t].state \in Disposable
    BY <2>3 DEF FindGarbage, Garbage
  <2>5. t \in DOMAIN inc /\ inc[t].state \in Off
    BY <1>3, <2>1, <2>3, <2>4 DEF GoneForGood, Gone, Disposable, Off
  <2>6. inc[t].cur = 0
    BY <2>0, <2>5 DEF OffDry
  <2>. QED BY <1>3, <2>1, <2>5, <2>6 DEF InStep, Tracks, Part
<1>4. ASSUME Known /\ InStep, GoneForGood, [Next]_vars
      PROVE  [\A t \in Tags : Marks(t) => mesh[t] = 0]_vars
  BY <1>3, <1>4
<1>. QED BY <1>1, <1>2, <1>4, AlwaysKnown, AlwaysInStep, PTL DEF Spec, MarkedUnserved
=============================================================================
