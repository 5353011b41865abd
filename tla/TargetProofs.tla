---------------------------- MODULE TargetProofs ----------------------------
(***************************************************************************)
(* What a manager that is gone leaves behind, and what a reconcile writes  *)
(* in which order: the mesh mode before the replicas, the waypoint's end   *)
(* only without ambient replicas, and routes on which every request lands; *)
(* for every set of revisions and targets, and whatever fails on the way.  *)
(***************************************************************************)
EXTENDS Target, Sums, TrafficSplitProofs, TLAPS, SequenceTheorems

\* The records that a handler answers with.
USE DEF Then, To

(***************************************************************************)
(* The inductive invariant.  A manager that leaves deletes the ServiceLevel*)
(* before anything else can happen to it, and a manager that is going or   *)
(* gone writes nothing any more.                                           *)
(***************************************************************************)
NoLevel == "ServiceLevel" \notin DOMAIN object

\* Only a reconcile has something to write, and only a manager that is alive one.
WritesInReconciles ==
  /\ pc = "idle" => todo = <<>>
  /\ manager # "alive" => pc = "idle"

\* A manager that leaves has its ServiceLevel to delete, or it is gone.
LevelLeavesFirst ==
  ServiceLevels =>
    /\ pc = "leaving" => todo = <<Del("ServiceLevel")>> \/ (todo = <<>> /\ NoLevel)
    /\ manager = "deleting" /\ ~orphaned => NoLevel

\* The finalizer leaves nothing else.
OnlyLevelLeft == manager = "none" => DOMAIN object \subseteq {"ServiceLevel"}

\* What is between the manager and its objects.
IInv ==
  /\ WritesInReconciles
  /\ LevelLeavesFirst
  /\ OnlyLevelLeft
  /\ ServiceLevels => NothingLeft

(***************************************************************************)
(* Types, of what is between the variables as well: what a reconcile has   *)
(* in its hands, and what it has yet to write.                             *)
(***************************************************************************)
Status == [state : States, cur : 0 .. 100, peak : 0 .. 100, elig : BOOLEAN]

\* What a reconcile knows of a tag.
Incarnation ==
  [state : States, cur : 0 .. 100, peak : 0 .. 100, elig : BOOLEAN, rev : BOOLEAN,
   failed : BOOLEAN]

\* f maps some of D into S.
IsPartial(f, D, S) == DOMAIN f \subseteq D /\ f \in [DOMAIN f -> S]

\* The writes of a ReplicaSet.
Scales == {ScaleTo(t, n) : t \in Tags, n \in {"none", "zero", "one"}}

\* A write of an object: nothing deletes the namespace or its routes, only the
\* ServiceMonitor is deleted by its label, and there may be no namespace for ServiceLevels.
Writes(w) ==
  /\ w.op \in {"put", "force", "delete", "labelled"} /\ w.kind \in Kinds
  /\ w.kind \in {"Namespace", "VirtualService"} => w.op = "put"
  /\ w.op = "labelled" => w.kind = "ServiceMonitor"
  /\ w.kind = "ServiceLevel" => ServiceLevels

\* What is left to write is a list of writes.
WritesOK ==
  /\ todo \in Seq(Range(todo))
  /\ \A n \in DOMAIN todo : todo[n] \in Scales \/ Writes(todo[n])

\* TypeOK, and the types it leaves out.
TypeInv ==
  /\ TypeOK
  /\ IsPartial(status, Tags, Status)
  /\ IsPartial(inc, Tags, Incarnation)
  /\ WritesOK

(***************************************************************************)
(* The order of what is left to write.  The namespace and its waypoint are *)
(* written before any ReplicaSet, with what was observed when the          *)
(* reconcile began; until then it stays observed.                          *)
(***************************************************************************)
MeshFirst ==
  \A m, n \in DOMAIN todo :
    m < n /\ todo[m].kind = "ReplicaSet" => todo[n].kind \notin {"Namespace", "Gateway"}

\* What is known of the revisions has no ambient one with replicas.
NoAmbient == \A t \in DOMAIN inc : inc[t].rev /\ config[t].ambient => replicas[t] # "one"

\* The waypoint is deleted without ambient revisions only.
WaypointGuarded ==
  pc = "writing" =>
    \A n \in DOMAIN todo : todo[n].kind = "Gateway" /\ todo[n].op = "delete" => NoAmbient

\* The labels of a namespace whose newest revision has a sidecar.
Injecting(labels) == ~config[Newest(inc)].ambient => labels.injection

\* The labels are the first write, and stay as they were written.
NamespaceFirst ==
  pc = "writing" =>
    /\ \A n \in DOMAIN todo :
         todo[n].kind = "Namespace" => n = 1 /\ Injecting(todo[n].content)
    /\ todo = <<>> \/ todo[1].kind # "Namespace" =>
         /\ Has("Namespace")
         /\ object["Namespace"].ignored \/ Injecting(object["Namespace"].content)

\* The ports a VirtualService is built from are apart, and its tags are known.
IsApart(p, q) == p.name # q.name /\ p.number # q.number /\ p.hosts \cap q.hosts = {}

\* Each request meets one of the ports.
GoodApp(app) ==
  /\ app.ports \subseteq PortInfo
  /\ \A p, q \in app.ports : p # q => IsApart(p, q)
  /\ app.tagged \subseteq Tags

\* There are no other VirtualServices, neither written nor to be written.
RoutesOK ==
  /\ Has("VirtualService") => GoodApp(object["VirtualService"].content)
  /\ \A n \in DOMAIN todo : todo[n].kind = "VirtualService" => GoodApp(todo[n].content)

\* The order of the writes.
MeshInv == MeshFirst /\ WaypointGuarded /\ NamespaceFirst

\* A manager that leaves writes no ReplicaSet.
LeavesLevels == pc = "leaving" => \A n \in DOMAIN todo : todo[n].kind = "ServiceLevel"
-----------------------------------------------------------------------------
\* What is taken out of the objects is gone, and nothing else.
LEMMA WithoutDomain ==
  ASSUME NEW o, NEW kinds PROVE DOMAIN Without(o, kinds) = DOMAIN o \ kinds
BY DEF Without, Restrict

\* A ServiceLevel is deleted whatever labels it has.
LEMMA DeletesLevel ==
  ASSUME NEW o PROVE "ServiceLevel" \notin DOMAIN Effect(o, Del("ServiceLevel"))
<1>1. Del("ServiceLevel").op = "delete" /\ Del("ServiceLevel").kind = "ServiceLevel"
  BY DEF Del
<1>2. Effect(o, Del("ServiceLevel")) = Without(o, {"ServiceLevel"})
  BY <1>1 DEF Effect
<1>3. DOMAIN Without(o, {"ServiceLevel"}) = DOMAIN o \ {"ServiceLevel"}
  BY WithoutDomain
<1>. QED BY <1>2, <1>3

\* Without a Revision no SLO is observed, and the ServiceLevel is to be deleted.
LEMMA LeaveDeletes ==
  ASSUME NEW i, \A t \in DOMAIN i : ~i[t].rev, ServiceLevels
  PROVE  Leave(i) = <<Del("ServiceLevel")>>
<1>1. {t \in ReleasableSet(i) : i[t].rev} = {}
  BY DEF ReleasableSet
<1>2. SLOSource(i) = {}
  BY <1>1 DEF SLOSource, First
<1>. QED BY <1>2 DEF Leave, SyncServiceLevels

-----------------------------------------------------------------------------
\* In the beginning there is nothing.
LEMMA InitIInv == Init => IInv
BY DEF Init, IInv, WritesInReconciles, LevelLeavesFirst, NothingLeft, OnlyLevelLeft

\* A reconcile begins with writes for its Revisions, or with the ones for leaving.
LEMMA BeginStep == IInv /\ Begin => IInv'
<1> SUFFICES ASSUME IInv, Begin PROVE IInv'
  OBVIOUS
<1>1. /\ pc = "idle" /\ manager = "alive"
      /\ UNCHANGED <<manager, orphaned, object>>
  BY DEF Begin, cluster
<1>2. \/ pc' = "writing"
      \/ pc' = "leaving" /\ \E i : todo' = Leave(i) /\ \A t \in DOMAIN i : ~i[t].rev
  BY DEF Begin
<1>3. ServiceLevels /\ pc' = "leaving" => todo' = <<Del("ServiceLevel")>>
  BY <1>2, LeaveDeletes
<1>. QED BY <1>1, <1>2, <1>3
         DEF IInv, WritesInReconciles, LevelLeavesFirst, NothingLeft, OnlyLevelLeft, NoLevel

\* Only an alive manager writes; one that leaves deletes the ServiceLevel.
LEMMA WriteStep == IInv /\ Write => IInv'
<1> SUFFICES ASSUME IInv, Write PROVE IInv'
  OBVIOUS
<1>1. /\ todo # <<>> /\ object' = Effect(object, Head(todo)) /\ todo' = Tail(todo)
      /\ UNCHANGED <<manager, orphaned, pc>>
  BY DEF Write
<1>2. pc # "idle" /\ manager = "alive"
  BY <1>1 DEF IInv, WritesInReconciles
<1>3. ServiceLevels /\ pc = "leaving" => todo' = <<>> /\ NoLevel'
  <2> SUFFICES ASSUME ServiceLevels, pc = "leaving" PROVE todo' = <<>> /\ NoLevel'
    OBVIOUS
  <2>1. todo = <<Del("ServiceLevel")>>
    BY <1>1 DEF IInv, LevelLeavesFirst
  <2>2. Head(todo) = Del("ServiceLevel") /\ Tail(todo) = <<>>
    BY <2>1
  <2>. QED BY <1>1, <2>2, DeletesLevel DEF NoLevel
<1>. QED BY <1>1, <1>2, <1>3 DEF IInv, WritesInReconciles, LevelLeavesFirst, NothingLeft, OnlyLevelLeft

\* A write that fails ends the reconcile, unless it was the deletion of the AlertRule,
\* which a manager that leaves does not try.
LEMMA WriteFailsStep == IInv /\ WriteFails => IInv'
<1> SUFFICES ASSUME IInv, WriteFails PROVE IInv'
  OBVIOUS
<1>1. /\ todo # <<>> /\ UNCHANGED <<manager, orphaned, object>>
  BY DEF WriteFails, cluster
<1>2. pc # "idle" /\ manager = "alive"
  BY <1>1 DEF IInv, WritesInReconciles
<1>3. CASE Head(todo) = Del("AlertRule")
  <2>1. pc' = pc
    BY <1>3 DEF WriteFails
  <2>2. ~(ServiceLevels /\ pc = "leaving")
    <3> SUFFICES ASSUME ServiceLevels, pc = "leaving" PROVE FALSE
      OBVIOUS
    <3>1. todo = <<Del("ServiceLevel")>>
      BY <1>1 DEF IInv, LevelLeavesFirst
    <3>2. Del("AlertRule").kind = "AlertRule" /\ Del("ServiceLevel").kind = "ServiceLevel"
      BY DEF Del
    <3>. QED BY <1>3, <3>1, <3>2
  <2>. QED BY <1>1, <1>2, <2>1, <2>2 DEF IInv, WritesInReconciles, LevelLeavesFirst, NothingLeft, OnlyLevelLeft
<1>4. CASE Head(todo) # Del("AlertRule")
  <2>1. todo' = <<>> /\ pc' = "idle"
    BY <1>4 DEF WriteFails
  <2>. QED BY <1>1, <1>2, <2>1 DEF IInv, WritesInReconciles, LevelLeavesFirst, NothingLeft, OnlyLevelLeft
<1>. QED BY <1>3, <1>4

\* The manager deletes itself after its last write.
LEMMA DeleteSelfStep == IInv /\ DeleteSelf => IInv'
<1> SUFFICES ASSUME IInv, DeleteSelf PROVE IInv'
  OBVIOUS
<1>1. /\ pc = "leaving" /\ todo = <<>> /\ manager' = "deleting" /\ pc' = "idle"
      /\ UNCHANGED <<todo, object>>
  BY DEF DeleteSelf, cluster
<1>2. ServiceLevels => NoLevel
  BY <1>1 DEF IInv, LevelLeavesFirst
<1>. QED BY <1>1, <1>2
         DEF IInv, WritesInReconciles, LevelLeavesFirst, NothingLeft, OnlyLevelLeft, NoLevel

\* The finalizer deletes the namespace, and with it all but the ServiceLevel.
LEMMA FinalizeStep == IInv /\ Finalize => IInv'
<1> SUFFICES ASSUME IInv, Finalize PROVE IInv'
  OBVIOUS
<1>1. /\ manager = "deleting" /\ pc = "idle" /\ manager' = "none"
      /\ object' = Without(object, DOMAIN object \ {"ServiceLevel"})
      /\ UNCHANGED <<orphaned, pc, todo>>
  BY DEF Finalize
<1>2. DOMAIN object' = DOMAIN object \ (DOMAIN object \ {"ServiceLevel"})
  BY <1>1, WithoutDomain
<1>3. ServiceLevels => NothingLeft'
  <2>1. CASE orphaned
    BY <1>1, <1>2, <2>1 DEF NothingLeft, OnlyLevelLeft
  <2>2. CASE ~orphaned
    BY <1>1, <1>2, <2>2 DEF IInv, LevelLeavesFirst, NothingLeft, OnlyLevelLeft, NoLevel
  <2>. QED BY <2>1, <2>2
<1>4. OnlyLevelLeft'
  BY <1>2 DEF OnlyLevelLeft
<1>. QED BY <1>1, <1>3, <1>4 DEF IInv, WritesInReconciles, LevelLeavesFirst

\* The end of a reconcile, and what others do to a manager.
LEMMA ManagerSteps == IInv /\ (Finish \/ CreateManager \/ RemoveManager) => IInv'
<1> SUFFICES ASSUME IInv, Finish \/ CreateManager \/ RemoveManager PROVE IInv'
  OBVIOUS
<1>1. CASE Finish
  <2>1. /\ pc = "writing" /\ todo = <<>> /\ pc' = "idle"
        /\ UNCHANGED <<manager, orphaned, todo, object>>
    BY <1>1 DEF Finish, cluster
  <2>. QED BY <2>1 DEF IInv, WritesInReconciles, LevelLeavesFirst, NothingLeft, OnlyLevelLeft, NoLevel
<1>2. CASE CreateManager
  <2>1. manager = "none" /\ manager' = "alive" /\ UNCHANGED <<orphaned, pc, todo, object>>
    BY <1>2 DEF CreateManager, cluster
  <2>. QED BY <2>1 DEF IInv, WritesInReconciles, LevelLeavesFirst, NothingLeft, OnlyLevelLeft, NoLevel
<1>3. CASE RemoveManager
  <2>1. /\ manager = "alive" /\ pc = "idle" /\ manager' = "deleting" /\ orphaned' = TRUE
        /\ UNCHANGED <<pc, todo, object>>
    BY <1>3 DEF RemoveManager, cluster
  <2>. QED BY <2>1 DEF IInv, WritesInReconciles, LevelLeavesFirst, NothingLeft, OnlyLevelLeft, NoLevel
<1>. QED BY <1>1, <1>2, <1>3

\* Users and pods create and delete none of the objects.
LEMMA OutsideSteps ==
  ASSUME IInv,
         \/ \E kind \in Ignorable : Ignore(kind)
         \/ \E t \in Tags : CreateRevision(t) \/ EditRevision(t) \/ StartPod(t) \/ RestartPod(t)
         \/ UNCHANGED vars
  PROVE  IInv'
<1>1. UNCHANGED <<manager, orphaned, pc, todo>> /\ DOMAIN object' = DOMAIN object
  BY DEF Ignore, CreateRevision, EditRevision, SetRevision, StartPod, RestartPod, vars,
         reconcile, cluster
<1>. QED BY <1>1 DEF IInv, WritesInReconciles, LevelLeavesFirst, NothingLeft, OnlyLevelLeft, NoLevel

\* The invariant holds all the time.
THEOREM Invariance == Spec => []IInv
<1>1. IInv /\ [Next]_vars => IInv'
  BY BeginStep, WriteStep, WriteFailsStep, DeleteSelfStep, FinalizeStep, ManagerSteps,
     OutsideSteps DEF Next
<1>. QED BY InitIInv, <1>1, PTL DEF Spec
-----------------------------------------------------------------------------
(* The incarnations a reconcile works on.                                  *)

\* The Revisions that a reconcile knows stay the same.
SameRevisions(i, j) == DOMAIN j = DOMAIN i /\ \A t \in DOMAIN i : j[t].rev = i[t].rev

\* What prepareRevisions works on, when the incarnations are D.
SplitsOf(D) ==
  [inc : [D -> Incarnation], weight : [D -> 0 .. 100], rem : 0 .. 100, panic : BOOLEAN]

\* What each of the seen has leaves room for what remains.
Fits(D, seen, s) ==
  s \in SplitsOf(D) /\ \A t \in seen : s.inc[t].cur + s.rem <= 100

\* s comes after the incarnations i, of which the seen have been visited.
Divided(i, seen, s) ==
  Fits(DOMAIN i, seen, s) /\ SameRevisions(i, s.inc)

\* f holds the splits of the loop's first len rounds.
Rounds(i, order, ramping, open, len, f) ==
  f = [n \in 0 .. len |-> IF n = 0 THEN Split0(i)
                          ELSE VisitNth(f[n - 1], order, n, ramping, open)]

\* There are finitely many tags.
LEMMA TagsFinite == /\ IsFiniteSet(Tags) /\ Tags \subseteq Nat \ {0}
                    /\ \A S \in SUBSET Tags : IsFiniteSet(S)
BY TargetAssumption, FS_Subset DEF Tags

\* A list of a finite set is a sequence of its elements.
LEMMA ListOf ==
  ASSUME NEW S, IsFiniteSet(S), NEW order \in SetToSeqs(S)
  PROVE  order \in Seq(S)
<1> DEFINE k == Cardinality(S)
<1>1. k \in Nat
  BY FS_CardinalityType
<1>2. order \in [1 .. k -> S]
  BY DEF SetToSeqs
<1>. QED BY <1>1, <1>2, SeqDef

\* Every handler of state.go answers with a state that the machine knows.
LEMMA NextState ==
  ASSUME NEW d, d.state \in States
  PROVE  Handle(d).next \in States
BY DEF Handle, States, ToRelease, Created, Deploying, Deployed, PendingTest, Testing, Tested,
   PendingRelease, Releasing, Retiring, Retired, Deleting, Deleted, Failing, Failed, Canarying,
   Canaried, Timingout

\* What a reconcile starts with, of the status it reads and the cluster it observes.
LEMMA CurrentType == TypeInv => IsPartial(Current, Tags, Incarnation)
<1> SUFFICES ASSUME TypeInv PROVE IsPartial(Current, Tags, Incarnation)
  OBVIOUS
<1>1. ASSUME NEW t \in Present \cup DOMAIN status
      PROVE  t \in Tags /\ NewIncarnation(t) \in Incarnation
  <2>1. t \in Tags
    BY DEF TypeInv, IsPartial, Present
  <2> DEFINE s == IF t \in DOMAIN status THEN status[t] ELSE NewStatus
  <2>2. s \in Status
    BY DEF TypeInv, IsPartial, NewStatus, Status, States
  <2>. HIDE DEF s
  <2> DEFINE cur  == IF replicas[t] = "none" THEN 0 ELSE s.cur
             elig == IF s.state \in {"created", "deploying"} THEN t \in Present ELSE s.elig
  <2>3. /\ s.state \in States /\ cur \in 0 .. 100 /\ s.peak \in 0 .. 100
        /\ (t \in Present) \in BOOLEAN /\ (revision[t] = "failed") \in BOOLEAN
    BY <2>2 DEF Status
  <2>5. elig \in BOOLEAN
    <3>1. s.elig \in BOOLEAN
      BY <2>2 DEF Status
    <3>2. CASE s.state \in {"created", "deploying"}
      BY <3>2
    <3>3. CASE s.state \notin {"created", "deploying"}
      <4>1. elig = s.elig
        BY <3>3
      <4>. QED BY <3>1, <4>1
    <3>. QED BY <3>2, <3>3
  <2>4. NewIncarnation(t) =
          [state |-> s.state, cur |-> cur, peak |-> s.peak, elig |-> elig,
           rev |-> t \in Present, failed |-> revision[t] = "failed"]
    BY DEF NewIncarnation, s
  <2>. HIDE DEF cur, elig
  <2>. QED BY <2>1, <2>3, <2>4, <2>5 DEF Incarnation
<1>. QED BY <1>1 DEF Current, IsPartial

\* A tick changes the state of an incarnation, to one the machine knows.
LEMMA TickedType ==
  ASSUME NEW i, IsPartial(i, Tags, Incarnation)
  PROVE  IsPartial(Ticked(i), Tags, Incarnation) /\ SameRevisions(i, Ticked(i))
<1>1. ASSUME NEW t \in DOMAIN i
      PROVE  Ticked(i)[t] \in Incarnation /\ Ticked(i)[t].rev = i[t].rev
  <2> DEFINE next == Handle(Deployment(i, t)).next
  <2>1. i[t] \in Incarnation
    BY DEF IsPartial
  <2>2. next \in States
    BY <2>1, NextState DEF Deployment, Incarnation
  <2>3. Ticked(i)[t] = [i[t] EXCEPT !.state = next]
    BY DEF Ticked
  <2>. HIDE DEF next
  <2>. QED BY <2>1, <2>2, <2>3 DEF Incarnation
<1>2. DOMAIN Ticked(i) = DOMAIN i /\ Ticked(i) = [t \in DOMAIN i |-> Ticked(i)[t]]
  BY DEF Ticked
<1>. QED BY <1>1, <1>2 DEF IsPartial, SameRevisions

\* A percentage is all that updateCurrentPercent changes, and the peak follows it.
LEMMA UpdateType ==
  ASSUME NEW i \in Incarnation, NEW p \in 0 .. 100
  PROVE  /\ UpdateCurrentPercent(i, p) \in Incarnation
         /\ UpdateCurrentPercent(i, p).cur = p /\ UpdateCurrentPercent(i, p).rev = i.rev
<1> DEFINE peak == IF p > i.peak THEN p ELSE i.peak
<1>1. peak \in 0 .. 100
  BY DEF Incarnation
<1>2. UpdateCurrentPercent(i, p) = [i EXCEPT !.cur = p, !.peak = peak]
  BY DEF UpdateCurrentPercent
<1>. HIDE DEF peak
<1>. QED BY <1>1, <1>2 DEF Incarnation

\* The loop starts from the whole traffic.
LEMMA SplitStarts ==
  ASSUME NEW i, IsPartial(i, Tags, Incarnation)
  PROVE  Divided(i, {}, Split0(i))
<1> DEFINE s == Split0(i)
<1>1. 0 \in 0 .. 100 /\ 100 \in 0 .. 100
  OBVIOUS
<1>2. ASSUME NEW t \in DOMAIN i
      PROVE  s.inc[t] \in Incarnation /\ s.inc[t].rev = i[t].rev
  <2>1. i[t] \in Incarnation
    BY DEF IsPartial
  <2>2. s.inc[t] = IF IsReleasable(i[t]) THEN i[t] ELSE UpdateCurrentPercent(i[t], 0)
    BY DEF Split0
  <2>. QED BY <1>1, <2>1, <2>2, UpdateType
<1>3. /\ DOMAIN s.inc = DOMAIN i /\ s.inc = [t \in DOMAIN i |-> s.inc[t]]
      /\ s = [inc |-> s.inc, weight |-> [t \in DOMAIN i |-> 0], rem |-> 100, panic |-> FALSE]
  BY DEF Split0
<1>. HIDE DEF s
<1>4. s.inc \in [DOMAIN i -> Incarnation] /\ [t \in DOMAIN i |-> 0] \in [DOMAIN i -> 0 .. 100]
  BY <1>1, <1>2, <1>3
<1>5. s \in SplitsOf(DOMAIN i)
  <2> DEFINE c == s.inc
             w == [t \in DOMAIN i |-> 0]
  <2>1. /\ c \in [DOMAIN i -> Incarnation] /\ w \in [DOMAIN i -> 0 .. 100]
        /\ s = [inc |-> c, weight |-> w, rem |-> 100, panic |-> FALSE]
    BY <1>3, <1>4
  <2>. HIDE DEF c, w
  <2>. QED BY <1>1, <2>1 DEF SplitsOf
<1>. QED BY <1>2, <1>3, <1>5 DEF Divided, Fits, SameRevisions, s

\* One more is visited, and takes no more than remains.
LEMMA VisitDivides ==
  ASSUME NEW i, DOMAIN i \subseteq Tags, NEW seen \in SUBSET DOMAIN i, NEW s,
         Divided(i, seen, s), NEW t \in DOMAIN i, NEW after \in BOOLEAN, NEW gate \in BOOLEAN
  PROVE  Divided(i, seen \cup {t}, Visit(s, t, after, gate))
<1> DEFINE D == DOMAIN i
           a == s.inc[t]
           p == CurrentPercentTarget(a, t, Cap(a, s.rem, after), gate)
           j == UpdateCurrentPercent(a, p)
           k == IF p <= 0 /\ after THEN [j EXCEPT !.elig = FALSE] ELSE j
           v == Visit(s, t, after, gate)
<1>1. /\ a \in Incarnation /\ s.rem \in 0 .. 100 /\ s.rem \in Nat
      /\ a.cur \in Nat /\ t \in Incarnations /\ s \in SplitsOf(D)
  BY DEF Divided, Fits, SplitsOf, Incarnation, Tags
<1>2. p \in Nat /\ p <= s.rem
  <2> DEFINE c == Cap(a, s.rem, after)
  <2>1. c \in Nat /\ c <= s.rem
    <3>. HIDE DEF a
    <3>. QED BY <1>1, CapBound
  <2>. HIDE DEF c, a
  <2>2. CurrentPercentTarget(a, t, c, gate) \in 0 .. c
    BY <1>1, <2>1, TargetBound
  <2>. QED BY <1>1, <2>1, <2>2 DEF c
<1>. HIDE DEF a, p
<1>3. j \in Incarnation /\ j.cur = p /\ j.rev = a.rev
  <2>1. p \in 0 .. 100
    BY <1>1, <1>2
  <2>. QED BY <1>1, <2>1, UpdateType
<1>. HIDE DEF j
<1>4. k \in Incarnation /\ k.cur = p /\ k.rev = a.rev
  <2> DEFINE e == [j EXCEPT !.elig = FALSE]
  <2>1. e \in Incarnation
    BY <1>3, ZenonT(60) DEF Incarnation
  <2>2. e.cur = p /\ e.rev = a.rev
    BY <1>3 DEF Incarnation
  <2>3. k = e \/ k = j
    OBVIOUS
  <2>. HIDE DEF e, k
  <2>. QED BY <1>3, <2>1, <2>2, <2>3
<1>. HIDE DEF k
<1>5. v = [s EXCEPT !.inc[t] = k, !.weight[t] = p, !.rem = @ - p]
  <2>1. ~(p > s.rem)
    BY <1>1, <1>2
  <2>2. v = IF p > s.rem THEN [s EXCEPT !.panic = TRUE]
            ELSE [s EXCEPT !.inc[t] = k, !.weight[t] = p, !.rem = @ - p]
    BY DEF Visit, a, p, j, k
  <2>. QED BY <2>1, <2>2
<1>. HIDE DEF v
<1>6. /\ v.inc = [s.inc EXCEPT ![t] = k] /\ v.rem = s.rem - p /\ v \in SplitsOf(D)
  <2>1. p \in 0 .. 100 /\ s.rem - p \in 0 .. 100
    BY <1>1, <1>2
  <2>2. v = [inc |-> [s.inc EXCEPT ![t] = k], weight |-> [s.weight EXCEPT ![t] = p],
             rem |-> s.rem - p, panic |-> s.panic]
    BY <1>1, <1>5, <2>1 DEF SplitsOf
  <2>3. /\ [s.inc EXCEPT ![t] = k] \in [D -> Incarnation]
        /\ [s.weight EXCEPT ![t] = p] \in [D -> 0 .. 100]
    BY <1>1, <1>4, <2>1 DEF SplitsOf
  <2>. QED BY <1>1, <2>1, <2>2, <2>3 DEF SplitsOf
<1>7. ASSUME NEW u \in seen \cup {t} PROVE v.inc[u].cur + v.rem <= 100
  <2>1. CASE u = t
    <3>1. v.inc[u].cur = p
      BY <1>1, <1>4, <1>6, <2>1 DEF SplitsOf
    <3>. QED BY <1>1, <1>2, <1>6, <3>1
  <2>2. CASE u # t
    <3>1. v.inc[u] = s.inc[u] /\ s.inc[u].cur + s.rem <= 100 /\ s.inc[u].cur \in 0 .. 100
      BY <1>1, <1>6, <2>2 DEF SplitsOf, Divided, Fits, Incarnation
    <3>. QED BY <1>1, <1>2, <1>6, <3>1
  <2>. QED BY <2>1, <2>2
<1>8. SameRevisions(i, v.inc)
  BY <1>1, <1>4, <1>6 DEF SplitsOf, Divided, SameRevisions, a
<1>. QED BY <1>6, <1>7, <1>8 DEF Divided, Fits, v

\* The loop is what its recursion says, however long the list is.
LEMMA SplitDefined ==
  ASSUME NEW i, NEW order, NEW ramping, NEW open, Len(order) \in Nat
  PROVE  \E f : /\ Rounds(i, order, ramping, open, Len(order), f)
                /\ Split(i, order, ramping, open) = f[Len(order)]
<1> DEFINE T == {n \in Nat : \E f : Rounds(i, order, ramping, open, n, f)}
<1>1. 0 \in T
  <2>1. Rounds(i, order, ramping, open, 0, [n \in 0 .. 0 |-> Split0(i)])
    BY DEF Rounds
  <2>. QED BY <2>1
<1>2. ASSUME NEW n \in Nat, n \in T PROVE n + 1 \in T
  <2>1. PICK f : Rounds(i, order, ramping, open, n, f)
    BY <1>2
  <2> DEFINE v == VisitNth(f[n], order, n + 1, ramping, open)
             g == [m \in 0 .. n + 1 |-> IF m <= n THEN f[m] ELSE v]
  <2>2. ASSUME NEW m \in 0 .. n + 1
        PROVE  g[m] = IF m = 0 THEN Split0(i)
                      ELSE VisitNth(g[m - 1], order, m, ramping, open)
    <3>1. CASE m = 0
      <4>1. g[m] = f[0]
        BY <3>1
      <4>2. f[0] = Split0(i)
        BY <2>1 DEF Rounds
      <4>. QED BY <3>1, <4>1, <4>2
    <3>2. CASE m # 0 /\ m <= n
      <4>1. m \in 0 .. n /\ m - 1 \in 0 .. n /\ m - 1 \in 0 .. n + 1 /\ m - 1 <= n
        BY <3>2
      <4>2. g[m] = f[m] /\ g[m - 1] = f[m - 1]
        BY <3>2, <4>1
      <4>3. f[m] = VisitNth(f[m - 1], order, m, ramping, open)
        BY <2>1, <3>2, <4>1 DEF Rounds
      <4>. QED BY <3>2, <4>2, <4>3
    <3>3. CASE m = n + 1
      <4>1. m # 0 /\ ~(m <= n) /\ m - 1 = n /\ n \in 0 .. n + 1 /\ n <= n
        BY <3>3
      <4>2. g[m] = v /\ g[m - 1] = f[n]
        BY <4>1
      <4>. QED BY <3>3, <4>1, <4>2
    <3>4. m = 0 \/ (m # 0 /\ m <= n) \/ m = n + 1
      OBVIOUS
    <3>. QED BY <3>1, <3>2, <3>3, <3>4
  <2>3. g = [m \in 0 .. n + 1 |-> g[m]]
    OBVIOUS
  <2>. HIDE DEF g
  <2>4. Rounds(i, order, ramping, open, n + 1, g)
    BY <2>2, <2>3 DEF Rounds
  <2>. QED BY <2>4
<1>3. Len(order) \in T
  <2>. HIDE DEF T
  <2>. QED BY <1>1, <1>2, NatSetInduction
<1> DEFINE g == CHOOSE f : Rounds(i, order, ramping, open, Len(order), f)
<1>4. Rounds(i, order, ramping, open, Len(order), g)
  BY <1>3
<1>5. Split(i, order, ramping, open) = g[Len(order)]
  BY DEF Split, Rounds
<1>. QED BY <1>4, <1>5

\* In the end all of the list has been visited.
LEMMA SplitDivides ==
  ASSUME NEW i, IsPartial(i, Tags, Incarnation), NEW order \in Seq(DOMAIN i),
         NEW ramping, NEW open
  PROVE  Divided(i, Range(order), Split(i, order, ramping, open))
<1>1. Len(order) \in Nat /\ DOMAIN order = 1 .. Len(order)
  BY LenProperties
<1>2. PICK f : /\ Rounds(i, order, ramping, open, Len(order), f)
               /\ Split(i, order, ramping, open) = f[Len(order)]
  BY <1>1, SplitDefined
<1> DEFINE seen(n) == {order[m] : m \in 1 .. n}
           T == {n \in Nat : n <= Len(order) => Divided(i, seen(n), f[n])}
<1>3. 0 \in T
  <2>1. f[0] = Split0(i)
    BY <1>1, <1>2 DEF Rounds
  <2>2. seen(0) = {}
    OBVIOUS
  <2>. QED BY <2>1, <2>2, SplitStarts
<1>4. ASSUME NEW n \in Nat, n \in T PROVE n + 1 \in T
  <2> SUFFICES ASSUME n + 1 <= Len(order) PROVE Divided(i, seen(n + 1), f[n + 1])
    OBVIOUS
  <2> DEFINE t == order[n + 1]
             after == \E m \in 1 .. n + 1 - 1 : order[m] \in ramping
             gate == t \in open
  <2>1. /\ n + 1 \in 1 .. Len(order) /\ t \in DOMAIN i /\ n <= Len(order)
        /\ n + 1 \in 0 .. Len(order) /\ n + 1 # 0 /\ n + 1 - 1 = n
    BY <1>1
  <2>2. f[n + 1] = Visit(f[n], t, after, gate)
    BY <1>2, <2>1 DEF Rounds, VisitNth
  <2>3. Divided(i, seen(n), f[n])
    BY <1>4, <2>1
  <2>4. seen(n) \in SUBSET DOMAIN i
    BY <1>1, <2>1
  <2>5. seen(n + 1) = seen(n) \cup {t}
    <3>1. 1 .. n + 1 = (1 .. n) \cup {n + 1}
      OBVIOUS
    <3>. QED BY <3>1
  <2>6. after \in BOOLEAN /\ gate \in BOOLEAN /\ DOMAIN i \subseteq Tags
    BY DEF IsPartial
  <2>. HIDE DEF seen, t, after, gate
  <2>. QED BY <2>1, <2>2, <2>3, <2>4, <2>5, <2>6, VisitDivides
<1>5. Len(order) \in T
  <2>. HIDE DEF T
  <2>. QED BY <1>1, <1>3, <1>4, NatSetInduction
<1>6. seen(Len(order)) = Range(order)
  BY <1>1 DEF Range
<1>7. Divided(i, seen(Len(order)), f[Len(order)])
  <2>. HIDE DEF seen
  <2>. QED BY <1>1, <1>5
<1>. QED BY <1>2, <1>6, <1>7

\* The leftover goes to one that has been visited, and fits.
LEMMA LeftoverType ==
  ASSUME NEW i, DOMAIN i \subseteq Tags, NEW seen \in SUBSET DOMAIN i, NEW s,
         Divided(i, seen, s), NEW t \in seen
  PROVE  /\ IsPartial(AssignLeftover(s, t).inc, Tags, Incarnation)
         /\ SameRevisions(i, AssignLeftover(s, t).inc)
<1> DEFINE p == s.inc[t].cur + s.rem
           a == UpdateCurrentPercent(s.inc[t], p)
<1>1. s \in SplitsOf(DOMAIN i) /\ p <= 100 /\ s.inc[t] \in Incarnation /\ s.rem \in 0 .. 100
  BY DEF Divided, Fits, SplitsOf
<1>2. p \in 0 .. 100
  <2> DEFINE c == s.inc[t].cur
  <2>1. c \in 0 .. 100 /\ s.rem \in 0 .. 100 /\ c + s.rem <= 100
    BY <1>1 DEF Incarnation
  <2>2. p = c + s.rem
    OBVIOUS
  <2>. HIDE DEF c, p
  <2>. QED BY <2>1, <2>2
<1>. HIDE DEF p
<1>3. a \in Incarnation /\ a.rev = s.inc[t].rev
  BY <1>1, <1>2, UpdateType
<1>. HIDE DEF a
<1>4. AssignLeftover(s, t).inc = [s.inc EXCEPT ![t] = a]
  BY <1>1 DEF AssignLeftover, SplitsOf, a, p
<1>5. [s.inc EXCEPT ![t] = a] \in [DOMAIN i -> Incarnation]
  BY <1>1, <1>3 DEF SplitsOf
<1>. QED BY <1>1, <1>3, <1>4, <1>5 DEF IsPartial, SameRevisions, Divided, SplitsOf

\* prepareRevisions changes percentages, peaks and eligibility.
LEMMA PrepareType ==
  ASSUME NEW i, IsPartial(i, Tags, Incarnation), NEW order \in Releasable(i),
         NEW ramping, NEW open
  PROVE  /\ IsPartial(PrepareRevisions(i, order, ramping, open), Tags, Incarnation)
         /\ SameRevisions(i, PrepareRevisions(i, order, ramping, open))
<1> DEFINE j == PrepareRevisions(i, order, ramping, open)
           s == Split(i, order, ramping, open)
           r == Receiver(order, ramping)
<1>1. order \in Seq(DOMAIN i)
  <2>1. order \in SetToSeqs(ReleasableSet(i)) /\ ReleasableSet(i) \subseteq DOMAIN i
    BY DEF Releasable, Orders, ReleasableSet
  <2>2. IsFiniteSet(ReleasableSet(i))
    BY <2>1, TagsFinite DEF IsPartial
  <2>3. order \in Seq(ReleasableSet(i))
    BY <2>1, <2>2, ListOf
  <2>. QED BY <2>1, <2>3
<1>2. CASE Deployments(i) = {}
  BY <1>2 DEF PrepareRevisions, SameRevisions
<1>3. CASE Deployments(i) # {} /\ order = <<>>
  <2>1. j = Split0(i).inc
    BY <1>3 DEF PrepareRevisions
  <2>2. Divided(i, {}, Split0(i))
    BY SplitStarts
  <2>. QED BY <2>1, <2>2 DEF Divided, Fits, SplitsOf, IsPartial
<1>4. CASE Deployments(i) # {} /\ order # <<>>
  <2>1. j = AssignLeftover(s, r).inc
    BY <1>4 DEF PrepareRevisions
  <2>2. Divided(i, Range(order), s)
    BY <1>1, SplitDivides
  <2>3. 1 \in DOMAIN order /\ order[1] \in Range(order) /\ Range(order) \subseteq DOMAIN i
    BY <1>1, <1>4 DEF Range
  <2>4. r \in Range(order)
    BY <2>3 DEF Receiver
  <2>. HIDE DEF j, s, r
  <2>5. DOMAIN i \subseteq Tags
    BY DEF IsPartial
  <2>. QED BY <2>1, <2>2, <2>3, <2>4, <2>5, LeftoverType DEF j
<1>. QED BY <1>2, <1>3, <1>4

\* The newest incarnation stays the newest.
LEMMA SameNewest ==
  ASSUME NEW i, NEW j, SameRevisions(i, j)
  PROVE  Newest(j) = Newest(i)
<1>1. DOMAIN j = DOMAIN i /\ \A t \in DOMAIN i : j[t].rev = i[t].rev
  BY DEF SameRevisions
<1>2. OneGroup(j) = OneGroup(i)
  BY <1>1 DEF OneGroup
<1>3. \A t, u \in DOMAIN i : Before(j, OneGroup(j), t, u) = Before(i, OneGroup(i), t, u)
  BY <1>1, <1>2 DEF Before, Newer
<1>4. First(j, OneGroup(j), DOMAIN j) = First(i, OneGroup(i), DOMAIN i)
  BY <1>1, <1>3 DEF First
<1>. QED BY <1>4 DEF Newest
-----------------------------------------------------------------------------
(* The writes of a reconcile.                                              *)

\* What is written after the namespace and its waypoint, with the incarnations j.
IsLater(j, w) ==
  \/ w \in Scales
  \/ /\ Writes(w) /\ w.kind \notin {"Namespace", "Gateway"}
     /\ w.kind = "VirtualService" => w.content = App(j)

\* All of a list comes after the namespace.
AllLater(j, s) == s \in Seq(Range(s)) /\ \A n \in DOMAIN s : IsLater(j, s[n])

\* The first five writes of a reconcile that knows i, and what comes after them.
Planned(i, j, s) ==
  /\ s \in Seq(Range(s)) /\ 5 <= Len(s)
  /\ s[1] = Put("Namespace", Labels(Mode(i)))
  /\ \A n \in 2 .. 5 : /\ Writes(s[n]) /\ s[n].kind \in WaypointKinds
                       /\ s[n].kind = "Gateway" /\ s[n].op = "delete" => Mode(i) = "sidecar"
  /\ \A n \in DOMAIN s : n > 5 => IsLater(j, s[n])

\* t is what is left of s, some of which has been written or left out.
Rests(s, t) ==
  /\ t \in Seq(Range(t))
  /\ \E d \in {1, 2} : \A n \in DOMAIN t : n + d \in DOMAIN s /\ t[n] = s[n + d]

\* f flattens the first len of the sequences, one after the other.
Flat(seqs, len, f) ==
  f = [n \in 1 .. len |-> IF n = 1 THEN seqs[n] ELSE f[n - 1] \o seqs[n]]

\* A sequence is one of the elements it has.
LEMMA OwnElements ==
  ASSUME NEW S, NEW s \in Seq(S)
  PROVE  s \in Seq(Range(s)) /\ DOMAIN s = 1 .. Len(s) /\ Len(s) \in Nat
<1>1. Len(s) \in Nat /\ DOMAIN s = 1 .. Len(s) /\ s \in [1 .. Len(s) -> S]
  BY LenProperties
<1>2. s \in [1 .. Len(s) -> Range(s)]
  BY <1>1 DEF Range
<1>3. s \in Seq(Range(s))
  BY <1>1, <1>2, SeqDef
<1>. QED BY <1>1, <1>3

\* The elements of a concatenation.
LEMMA ConcatElements ==
  ASSUME NEW A, NEW B, NEW s \in Seq(A), NEW t \in Seq(B)
  PROVE  /\ s \o t \in Seq(A \cup B) /\ Len(s) \in Nat /\ Len(t) \in Nat
         /\ Len(s \o t) = Len(s) + Len(t)
         /\ \A n \in 1 .. Len(s) + Len(t) :
              (s \o t)[n] = IF n <= Len(s) THEN s[n] ELSE t[n - Len(s)]
<1>1. s \in Seq(A \cup B) /\ t \in Seq(A \cup B)
  OBVIOUS
<1>. QED BY <1>1, ConcatProperties, LenProperties

\* Flattening sequences is what its recursion says.
LEMMA FlattenDefined ==
  ASSUME NEW seqs, Len(seqs) \in Nat, Len(seqs) # 0
  PROVE  \E f : Flat(seqs, Len(seqs), f) /\ FlattenSeq(seqs) = f[Len(seqs)]
<1> DEFINE T == {n \in Nat : \E f : Flat(seqs, n, f)}
<1>1. 0 \in T
  <2>1. Flat(seqs, 0, [n \in 1 .. 0 |-> 0])
    BY DEF Flat
  <2>. QED BY <2>1
<1>2. ASSUME NEW n \in Nat, n \in T PROVE n + 1 \in T
  <2>1. PICK f : Flat(seqs, n, f)
    BY <1>2
  <2> DEFINE v == IF n = 0 THEN seqs[1] ELSE f[n] \o seqs[n + 1]
             g == [m \in 1 .. n + 1 |-> IF m <= n THEN f[m] ELSE v]
  <2>2. ASSUME NEW m \in 1 .. n + 1
        PROVE  g[m] = IF m = 1 THEN seqs[m] ELSE g[m - 1] \o seqs[m]
    <3>1. CASE m <= n
      <4>1. m \in 1 .. n /\ g[m] = f[m]
        BY <3>1
      <4>2. f[m] = IF m = 1 THEN seqs[m] ELSE f[m - 1] \o seqs[m]
        BY <2>1, <4>1 DEF Flat
      <4>3. m # 1 => g[m - 1] = f[m - 1]
        BY <3>1
      <4>. QED BY <4>1, <4>2, <4>3
    <3>2. CASE m = n + 1
      <4>1. g[m] = v
        BY <3>2
      <4>2. m # 1 => n # 0 /\ g[m - 1] = f[n]
        BY <3>2
      <4>3. m = 1 => n = 0
        BY <3>2
      <4>. QED BY <3>2, <4>1, <4>2, <4>3
    <3>3. m <= n \/ m = n + 1
      OBVIOUS
    <3>. QED BY <3>1, <3>2, <3>3
  <2>3. g = [m \in 1 .. n + 1 |-> g[m]]
    OBVIOUS
  <2>. HIDE DEF g
  <2>4. Flat(seqs, n + 1, g)
    BY <2>2, <2>3 DEF Flat
  <2>. QED BY <2>4
<1>3. Len(seqs) \in T
  <2>. HIDE DEF T
  <2>. QED BY <1>1, <1>2, NatSetInduction
<1> DEFINE g == CHOOSE f : Flat(seqs, Len(seqs), f)
<1>4. Flat(seqs, Len(seqs), g)
  BY <1>3
<1>5. FlattenSeq(seqs) = g[Len(seqs)]
  BY DEF FlattenSeq, Flat
<1>. QED BY <1>4, <1>5

\* Flattening sequences gives the elements they have.
LEMMA FlattenType ==
  ASSUME NEW W, NEW seqs \in Seq(Seq(W))
  PROVE  FlattenSeq(seqs) \in Seq(W)
<1> DEFINE N == Len(seqs)
<1>1. N \in Nat /\ \A n \in 1 .. N : seqs[n] \in Seq(W)
  BY LenProperties, ElementOfSeq
<1>2. CASE N = 0
  <2>1. seqs = <<>> /\ FlattenSeq(seqs) = seqs
    BY <1>2, EmptySeq DEF FlattenSeq
  <2>2. <<>> \in Seq(W)
    OBVIOUS
  <2>. QED BY <2>1, <2>2
<1>3. CASE N # 0
  <2>1. PICK f : Flat(seqs, N, f) /\ FlattenSeq(seqs) = f[N]
    BY <1>1, <1>3, FlattenDefined
  <2>. HIDE DEF N
  <2> DEFINE U == {n \in Nat : n \in 1 .. N => f[n] \in Seq(W)}
  <2>2. 0 \in U
    OBVIOUS
  <2>3. ASSUME NEW n \in Nat, n \in U PROVE n + 1 \in U
    <3> SUFFICES ASSUME n + 1 \in 1 .. N PROVE f[n + 1] \in Seq(W)
      OBVIOUS
    <3>1. f[n + 1] = IF n + 1 = 1 THEN seqs[n + 1] ELSE f[n + 1 - 1] \o seqs[n + 1]
      <4>1. ASSUME NEW m \in 1 .. N
            PROVE  f[m] = IF m = 1 THEN seqs[m] ELSE f[m - 1] \o seqs[m]
        BY <2>1 DEF Flat
      <4>. QED BY <4>1
    <3>2. n + 1 # 1 => n \in 1 .. N /\ n + 1 - 1 = n
      BY <1>1
    <3>3. seqs[n + 1] \in Seq(W)
      BY <1>1
    <3>4. CASE n + 1 = 1
      BY <3>1, <3>3, <3>4
    <3>5. CASE n + 1 # 1
      <4>1. f[n] \in Seq(W) /\ f[n + 1] = f[n] \o seqs[n + 1]
        BY <2>3, <3>1, <3>2, <3>5
      <4>. QED BY <3>3, <4>1, ConcatProperties
    <3>. QED BY <3>4, <3>5
  <2>4. N \in U
    <3>. HIDE DEF U
    <3>. QED BY <1>1, <2>2, <2>3, NatSetInduction
  <2>5. N \in 1 .. N
    BY <1>1, <1>3
  <2>. QED BY <2>1, <2>4, <2>5
<1>. QED BY <1>2, <1>3

\* What is written later can be written after anything.
LEMMA LaterConcat ==
  ASSUME NEW j, NEW s, NEW t, AllLater(j, s), AllLater(j, t)
  PROVE  AllLater(j, s \o t)
<1>1. s \in Seq(Range(s)) /\ t \in Seq(Range(t))
  BY DEF AllLater
<1>2. /\ s \o t \in Seq(Range(s) \cup Range(t)) /\ Len(s) \in Nat /\ Len(t) \in Nat
      /\ Len(s \o t) = Len(s) + Len(t)
      /\ \A n \in 1 .. Len(s) + Len(t) :
           (s \o t)[n] = IF n <= Len(s) THEN s[n] ELSE t[n - Len(s)]
  BY <1>1, ConcatElements
<1>3. /\ DOMAIN s = 1 .. Len(s) /\ DOMAIN t = 1 .. Len(t)
      /\ s \o t \in Seq(Range(s \o t)) /\ DOMAIN (s \o t) = 1 .. Len(s \o t)
  <2> DEFINE u == s \o t
  <2>1. u \in Seq(Range(s) \cup Range(t))
    BY <1>2
  <2>. HIDE DEF u
  <2>2. u \in Seq(Range(u)) /\ DOMAIN u = 1 .. Len(u)
    BY <2>1, OwnElements
  <2>3. DOMAIN s = 1 .. Len(s)
    BY <1>1, OwnElements
  <2>4. DOMAIN t = 1 .. Len(t)
    BY <1>1, OwnElements
  <2>. QED BY <2>2, <2>3, <2>4 DEF u
<1>4. ASSUME NEW n \in 1 .. Len(s) + Len(t) PROVE IsLater(j, (s \o t)[n])
  <2>1. CASE n <= Len(s)
    BY <1>2, <1>3, <2>1 DEF AllLater
  <2>2. CASE n > Len(s)
    <3>1. n - Len(s) \in 1 .. Len(t) /\ (s \o t)[n] = t[n - Len(s)]
      BY <1>2, <2>2
    <3>. QED BY <1>3, <3>1 DEF AllLater
  <2>. QED BY <1>2, <2>1, <2>2
<1>. QED BY <1>2, <1>3, <1>4 DEF AllLater

\* One or two writes, or none.
LEMMA LaterFew ==
  ASSUME NEW j
  PROVE  /\ AllLater(j, <<>>)
         /\ \A v : IsLater(j, v) => AllLater(j, <<v>>)
         /\ \A v, w : IsLater(j, v) /\ IsLater(j, w) => AllLater(j, <<v, w>>)
<1>1. AllLater(j, <<>>)
  BY DEF AllLater
<1>2. ASSUME NEW v, IsLater(j, v) PROVE AllLater(j, <<v>>)
  <2> DEFINE s == <<v>>
  <2>1. s \in Seq({v}) /\ Len(s) = 1 /\ s[1] = v
    OBVIOUS
  <2>. HIDE DEF s
  <2>2. s \in Seq(Range(s)) /\ DOMAIN s = 1 .. Len(s)
    BY <2>1, OwnElements
  <2>3. AllLater(j, s)
    BY <1>2, <2>1, <2>2 DEF AllLater
  <2>. QED BY <2>3 DEF s
<1>3. ASSUME NEW v, NEW w, IsLater(j, v), IsLater(j, w) PROVE AllLater(j, <<v, w>>)
  <2> DEFINE s == <<v, w>>
  <2>1. s \in Seq({v, w}) /\ Len(s) = 2 /\ s[1] = v /\ s[2] = w
    OBVIOUS
  <2>. HIDE DEF s
  <2>2. s \in Seq(Range(s)) /\ DOMAIN s = 1 .. Len(s)
    BY <2>1, OwnElements
  <2>3. AllLater(j, s)
    BY <1>3, <2>1, <2>2 DEF AllLater
  <2>. QED BY <2>3 DEF s
<1>. QED BY <1>1, <1>2, <1>3

\* What comes after the writes for the mesh.
LEMMA PlannedConcat ==
  ASSUME NEW i, NEW j, NEW s, NEW t, Planned(i, j, s), AllLater(j, t)
  PROVE  Planned(i, j, s \o t)
<1>1. s \in Seq(Range(s)) /\ t \in Seq(Range(t)) /\ 5 <= Len(s)
  BY DEF AllLater, Planned
<1>2. /\ s \o t \in Seq(Range(s) \cup Range(t)) /\ Len(s) \in Nat /\ Len(t) \in Nat
      /\ Len(s \o t) = Len(s) + Len(t)
      /\ \A n \in 1 .. Len(s) + Len(t) :
           (s \o t)[n] = IF n <= Len(s) THEN s[n] ELSE t[n - Len(s)]
  BY <1>1, ConcatElements
<1>3. /\ DOMAIN s = 1 .. Len(s) /\ DOMAIN t = 1 .. Len(t)
      /\ s \o t \in Seq(Range(s \o t)) /\ DOMAIN (s \o t) = 1 .. Len(s \o t)
  <2> DEFINE u == s \o t
  <2>1. u \in Seq(Range(s) \cup Range(t))
    BY <1>2
  <2>. HIDE DEF u
  <2>2. u \in Seq(Range(u)) /\ DOMAIN u = 1 .. Len(u)
    BY <2>1, OwnElements
  <2>3. DOMAIN s = 1 .. Len(s)
    BY <1>1, OwnElements
  <2>4. DOMAIN t = 1 .. Len(t)
    BY <1>1, OwnElements
  <2>. QED BY <2>2, <2>3, <2>4 DEF u
<1>4. ASSUME NEW n \in 1 .. Len(s) + Len(t), n > 5 PROVE IsLater(j, (s \o t)[n])
  <2>1. CASE n <= Len(s)
    BY <1>2, <1>3, <1>4, <2>1 DEF Planned
  <2>2. CASE n > Len(s)
    <3>1. n - Len(s) \in 1 .. Len(t) /\ (s \o t)[n] = t[n - Len(s)]
      BY <1>2, <2>2
    <3>. QED BY <1>3, <3>1 DEF AllLater
  <2>. QED BY <1>2, <2>1, <2>2
<1>5. \A n \in 1 .. 5 : (s \o t)[n] = s[n]
  BY <1>1, <1>2
<1>6. 5 <= Len(s \o t)
  BY <1>1, <1>2
<1>7. /\ (s \o t)[1] = Put("Namespace", Labels(Mode(i)))
      /\ \A n \in 2 .. 5 :
           /\ Writes((s \o t)[n]) /\ (s \o t)[n].kind \in WaypointKinds
           /\ (s \o t)[n].kind = "Gateway" /\ (s \o t)[n].op = "delete" => Mode(i) = "sidecar"
  BY <1>5 DEF Planned
<1>. QED BY <1>2, <1>3, <1>4, <1>6, <1>7 DEF Planned

\* One write after another.
LEMMA TailRests ==
  ASSUME NEW s, s \in Seq(Range(s)), s # <<>>
  PROVE  /\ 1 \in DOMAIN s /\ Head(s) = s[1]
         /\ Rests(s, Tail(s)) /\ Rests(s, AfterSyncApp(Tail(s)))
<1> DEFINE t == Tail(s)
<1>1. /\ Len(s) \in Nat /\ DOMAIN s = 1 .. Len(s)
      /\ t \in Seq(Range(s)) /\ Len(t) = Len(s) - 1 /\ \A n \in 1 .. Len(t) : t[n] = s[n + 1]
  BY LenProperties, HeadTailProperties
<1>2. 1 \in DOMAIN s /\ Head(s) = s[1]
  BY <1>1, EmptySeq
<1>3. t \in Seq(Range(t)) /\ DOMAIN t = 1 .. Len(t) /\ Len(t) \in Nat
  <2>1. t \in Seq(Range(s))
    BY <1>1
  <2>. HIDE DEF t
  <2>. QED BY <2>1, OwnElements
<1>. HIDE DEF t
<1>4. Rests(s, t)
  <2>1. \A n \in DOMAIN t : n + 1 \in DOMAIN s /\ t[n] = s[n + 1]
    BY <1>1, <1>3
  <2>. QED BY <1>3, <2>1 DEF Rests
<1>5. t # <<>> => Rests(s, Tail(t))
  <2> SUFFICES ASSUME t # <<>> PROVE Rests(s, Tail(t))
    OBVIOUS
  <2> DEFINE u == Tail(t)
  <2>1. /\ u \in Seq(Range(t)) /\ Len(u) = Len(t) - 1 /\ \A n \in 1 .. Len(u) : u[n] = t[n + 1]
    BY <1>3, HeadTailProperties
  <2>. HIDE DEF u
  <2>2. u \in Seq(Range(u)) /\ DOMAIN u = 1 .. Len(u) /\ Len(u) \in Nat
    BY <2>1, OwnElements
  <2>3. \A n \in DOMAIN u : n + 2 \in DOMAIN s /\ u[n] = s[n + 2]
    <3> SUFFICES ASSUME NEW n \in 1 .. Len(u) PROVE n + 2 \in DOMAIN s /\ u[n] = s[n + 2]
      BY <2>2
    <3>1. n + 1 \in 1 .. Len(t) /\ u[n] = t[n + 1] /\ n + 1 + 1 = n + 2 /\ n + 2 \in 1 .. Len(s)
      BY <1>1, <2>1, <2>2
    <3>2. t[n + 1] = s[n + 1 + 1]
      BY <1>1, <3>1
    <3>. QED BY <1>1, <3>1, <3>2
  <2>4. Rests(s, u)
    BY <2>2, <2>3 DEF Rests
  <2>. QED BY <2>4 DEF u
<1>6. Rests(s, AfterSyncApp(t))
  BY <1>4, <1>5 DEF AfterSyncApp
<1>. QED BY <1>2, <1>4, <1>6 DEF t
-----------------------------------------------------------------------------
(* What each part of a reconcile writes.                                   *)

\* What the ticks may write.
TickSet == Scales \cup {ForceWrite("ServiceAccount", By(t)) : t \in Tags}

\* Neither the namespace, nor what depends on its mode, nor the routes.
LaterKinds == Kinds \ {"Namespace", "Gateway", "VirtualService"}

\* Objects that have nothing to do with the mesh mode or the routes.
LEMMA OthersLater ==
  ASSUME NEW j, NEW kind \in LaterKinds, kind = "ServiceLevel" => ServiceLevels
  PROVE  /\ \A content : IsLater(j, Put(kind, content)) /\ IsLater(j, ForceWrite(kind, content))
         /\ IsLater(j, Del(kind))
         /\ kind = "ServiceMonitor" => IsLater(j, DelLabelled(kind))
BY DEF IsLater, LaterKinds, Writes, Put, ForceWrite, Del, DelLabelled

\* The kinds that are neither the namespace's own nor routes.
LEMMA LaterKindsAre ==
  /\ {"ServiceAccount", "RBAC", "ServiceMonitor", "SLORule", "ServiceLevel"} \subseteq LaterKinds
  /\ {"Service", "Sidecar", "DestinationRule", "AlertRule"} \subseteq LaterKinds
BY DEF LaterKinds, Kinds, AppKinds, WaypointKinds

\* syncNamespace: the labels, and then the waypoint, which goes only in sidecar mode.
LEMMA SyncNamespacePlanned ==
  ASSUME NEW i, NEW j
  PROVE  Planned(i, j, SyncNamespace(i))
<1>1. WaypointKinds \subseteq Kinds /\ "Namespace" \in Kinds /\ "Namespace" \notin WaypointKinds
      /\ WaypointKinds = {"Options", "Gateway", "WaypointPDB", "WaypointHPA"}
  BY DEF WaypointKinds, Kinds, AppKinds
<1> DEFINE first == Put("Namespace", Labels(Mode(i)))
<1>2. ASSUME NEW a, NEW b, NEW c, NEW d,
             SyncNamespace(i) = <<first>> \o <<a, b, c, d>>,
             \A w \in {a, b, c, d} :
               /\ Writes(w) /\ w.kind \in WaypointKinds
               /\ w.kind = "Gateway" /\ w.op = "delete" => Mode(i) = "sidecar"
      PROVE  Planned(i, j, SyncNamespace(i))
  <2> DEFINE s == <<first>>
             t == <<a, b, c, d>>
             A == {first}
             B == {a, b, c, d}
  <2>. HIDE DEF first
  <2>1. /\ s \in Seq(A) /\ Len(s) = 1 /\ s[1] = first
        /\ t \in Seq(B) /\ Len(t) = 4
    OBVIOUS
  <2>2. SyncNamespace(i) = s \o t
    BY <1>2
  <2>. HIDE DEF s, t, A, B
  <2> DEFINE u == s \o t
  <2>3. /\ u \in Seq(A \cup B) /\ Len(u) = 5
        /\ \A n \in 1 .. 5 : u[n] = IF n <= 1 THEN s[n] ELSE t[n - 1]
    <3>1. /\ u \in Seq(A \cup B) /\ Len(u) = Len(s) + Len(t)
          /\ \A n \in 1 .. Len(s) + Len(t) : u[n] = IF n <= Len(s) THEN s[n] ELSE t[n - Len(s)]
      <4>1. s \in Seq(A) /\ t \in Seq(B)
        BY <2>1
      <4>. QED BY <4>1, ConcatElements
    <3>. HIDE DEF u
    <3>2. Len(s) + Len(t) = 5
      BY <2>1
    <3>. QED BY <2>1, <3>1, <3>2
  <2>. HIDE DEF u
  <2>4. u \in Seq(Range(u)) /\ DOMAIN u = 1 .. 5
    BY <2>3, OwnElements
  <2>5. \A n \in 2 .. 5 : u[n] \in {a, b, c, d}
    <3>1. \A n \in 1 .. 4 : t[n] \in {a, b, c, d}
      BY <2>1, ElementOfSeq DEF B
    <3>2. \A n \in 2 .. 5 : n - 1 \in 1 .. 4 /\ u[n] = t[n - 1]
      BY <2>3
    <3>. QED BY <3>1, <3>2
  <2>6. u[1] = first
    BY <2>1, <2>3
  <2>7. Planned(i, j, u)
    BY <1>2, <2>3, <2>4, <2>5, <2>6 DEF Planned, first
  <2>. QED BY <2>2, <2>7 DEF u
<1>3. CASE Mode(i) = "sidecar"
  <2>1. SyncNamespace(i) = <<first>> \o <<Del("Gateway"), Del("Options"), Del("WaypointPDB"),
                                          Del("WaypointHPA")>>
    BY <1>3 DEF SyncNamespace, NoWaypoint
  <2>2. \A w \in {Del("Gateway"), Del("Options"), Del("WaypointPDB"), Del("WaypointHPA")} :
          Writes(w) /\ w.kind \in WaypointKinds
    BY <1>1 DEF Writes, Del
  <2>. QED BY <1>2, <1>3, <2>1, <2>2
<1>4. CASE Mode(i) # "sidecar"
  <2> DEFINE hpa == EffectiveHPA(i)
             a == WaypointOptions(i)
             b == EnsureWaypoint
             c == Put("WaypointPDB", WaypointPDB(hpa))
             d == Put("WaypointHPA", WaypointHPA(hpa))
  <2>1. SyncNamespace(i) = <<first>> \o <<a, b, c, d>>
    BY <1>4 DEF SyncNamespace, WaypointWrites
  <2>2. \A w \in {a, b, c, d} : Writes(w) /\ w.kind \in WaypointKinds /\ w.op # "delete"
    BY <1>1 DEF Writes, Put, ForceWrite, WaypointOptions, EnsureWaypoint
  <2>. HIDE DEF hpa, a, b, c, d, first
  <2>. QED BY <1>2, <2>1, <2>2 DEF first
<1>. QED BY <1>3, <1>4

\* What a tick writes for one incarnation.
LEMMA CallsType ==
  ASSUME NEW i, DOMAIN i \subseteq Tags, NEW t \in DOMAIN i
  PROVE  Calls(i, t) \in Seq(TickSet)
<1> DEFINE n == IF i[t].state \in {"pendingrelease", "canaried"} THEN "zero" ELSE "one"
           role == ForceWrite("ServiceAccount", By(t))
           calls == Range(Handle(Deployment(i, t)).calls)
<1>1. /\ ScaleTo(t, n) \in TickSet /\ ScaleTo(t, "zero") \in TickSet
      /\ ScaleTo(t, "none") \in TickSet /\ role \in TickSet
  BY DEF TickSet, Scales
<1>2. Calls(i, t) =
        IF "sync" \in calls
        THEN <<ScaleTo(t, n)>> \o IF config[t].role THEN <<role>> ELSE <<>>
        ELSE IF "retire" \in calls /\ replicas[t] # "none" THEN <<ScaleTo(t, "zero")>>
        ELSE IF "del" \in calls THEN <<ScaleTo(t, "none")>>
        ELSE <<>>
  BY DEF Calls
<1> DEFINE a == ScaleTo(t, n)
           b == ScaleTo(t, "zero")
           c == ScaleTo(t, "none")
<1>. HIDE DEF a, b, c, n, role, calls
<1>3. /\ <<a>> \in Seq(TickSet) /\ <<b>> \in Seq(TickSet) /\ <<c>> \in Seq(TickSet)
      /\ <<role>> \in Seq(TickSet) /\ <<>> \in Seq(TickSet)
  BY <1>1 DEF a, b, c
<1>4. <<a>> \o <<role>> \in Seq(TickSet) /\ <<a>> \o <<>> \in Seq(TickSet)
  BY <1>3, ConcatProperties
<1>. QED BY <1>2, <1>3, <1>4 DEF a, b, c

\* The ticks write ReplicaSets and the roles of the service account.
LEMMA TickWritesLater ==
  ASSUME NEW i, IsPartial(i, Tags, Incarnation), NEW sorted \in Sorted(i), NEW j
  PROVE  AllLater(j, TickWrites(i, sorted))
<1>1. DOMAIN i \subseteq Tags /\ IsFiniteSet(DOMAIN i)
  BY TagsFinite DEF IsPartial
<1>2. sorted \in Seq(DOMAIN i)
  BY <1>1, ListOf DEF Sorted, Orders
<1> DEFINE seqs == [n \in DOMAIN sorted |-> Calls(i, sorted[n])]
<1>3. seqs \in Seq(Seq(TickSet))
  <2>1. Len(sorted) \in Nat /\ DOMAIN sorted = 1 .. Len(sorted)
    BY <1>2, LenProperties
  <2>2. \A n \in 1 .. Len(sorted) : Calls(i, sorted[n]) \in Seq(TickSet)
    <3>1. \A n \in 1 .. Len(sorted) : sorted[n] \in DOMAIN i
      BY <1>2, ElementOfSeq
    <3>. QED BY <1>1, <3>1, CallsType
  <2>3. seqs \in [1 .. Len(sorted) -> Seq(TickSet)]
    BY <2>1, <2>2
  <2>. HIDE DEF seqs
  <2>. QED BY <2>1, <2>3, SeqDef
<1> DEFINE s == TickWrites(i, sorted)
<1>4. s \in Seq(TickSet)
  <2>. HIDE DEF seqs
  <2>. QED BY <1>3, FlattenType DEF TickWrites, seqs
<1>5. ASSUME NEW w \in TickSet PROVE IsLater(j, w)
  <2>1. CASE w \in Scales
    BY <2>1 DEF IsLater
  <2>2. CASE w \notin Scales
    <3>1. PICK t \in Tags : w = ForceWrite("ServiceAccount", By(t))
      BY <2>2 DEF TickSet
    <3>2. "ServiceAccount" \in LaterKinds
      BY LaterKindsAre
    <3>. QED BY <3>1, <3>2, OthersLater
  <2>. QED BY <2>1, <2>2
<1>. HIDE DEF s
<1>6. s \in Seq(Range(s)) /\ DOMAIN s = 1 .. Len(s)
  BY <1>4, OwnElements
<1>7. \A n \in DOMAIN s : s[n] \in TickSet
  BY <1>4, <1>6, ElementOfSeq
<1>. QED BY <1>5, <1>6, <1>7 DEF AllLater, s

\* syncApp.
LEMMA AppWritesLater ==
  ASSUME NEW j
  PROVE  AllLater(j, AppWrites(j))
<1> DEFINE app == App(j)
           routes == IF HasRoutes(app) THEN <<Put("VirtualService", app)>> ELSE <<>>
           rules == <<DestinationRule(app), AlertRule(j)>> \o routes
           part == IF Deployments(j) = {} THEN <<>> ELSE rules
           all == <<Service(app), Sidecar>> \o part
<1>1. IsLater(j, Service(app)) /\ IsLater(j, Sidecar) /\ IsLater(j, DestinationRule(app))
  BY LaterKindsAre, OthersLater DEF Service, Sidecar, DestinationRule
<1>2. IsLater(j, AlertRule(j))
  <2>1. "AlertRule" \in LaterKinds
    BY LaterKindsAre
  <2>2. \/ AlertRule(j) = Del("AlertRule") \/ \E content : AlertRule(j) = Put("AlertRule", content)
    BY DEF AlertRule
  <2>. QED BY <2>1, <2>2, OthersLater
<1>3. IsLater(j, Put("VirtualService", app))
  BY DEF IsLater, Put, Writes, Kinds, AppKinds
<1>. HIDE DEF app
<1>4. AllLater(j, routes)
  BY <1>3, LaterFew
<1>. HIDE DEF routes
<1>5. AllLater(j, rules)
  <2>1. AllLater(j, <<DestinationRule(app), AlertRule(j)>>)
    BY <1>1, <1>2, LaterFew
  <2>. QED BY <1>4, <2>1, LaterConcat
<1>. HIDE DEF rules
<1>6. AllLater(j, part)
  BY <1>5, LaterFew
<1>. HIDE DEF part
<1>7. AllLater(j, all)
  <2>1. AllLater(j, <<Service(app), Sidecar>>)
    BY <1>1, LaterFew
  <2>. QED BY <1>6, <2>1, LaterConcat
<1>. HIDE DEF all
<1>8. AppWrites(j) \in {<<>>, all}
  BY DEF AppWrites, SyncApp, all, part, rules, routes, app
<1>. QED BY <1>7, <1>8, LaterFew

\* The service account and its role, the monitoring, and the service level.
LEMMA MonitoringLater ==
  ASSUME NEW j
  PROVE  /\ AllLater(j, EnsureServiceAccount) /\ AllLater(j, EnsureRBAC)
         /\ AllLater(j, SyncServiceMonitors(j)) /\ AllLater(j, SyncSLORules(j))
         /\ AllLater(j, SyncServiceLevels(j))
<1>1. AllLater(j, EnsureServiceAccount)
  <2>1. \E content : EnsureServiceAccount = <<Put("ServiceAccount", content)>>
    BY DEF EnsureServiceAccount
  <2>. QED BY <2>1, LaterKindsAre, OthersLater, LaterFew
<1>2. AllLater(j, EnsureRBAC)
  BY LaterKindsAre, OthersLater, LaterFew DEF EnsureRBAC
<1>3. AllLater(j, SyncServiceMonitors(j))
  <2>1. \/ SyncServiceMonitors(j) = <<DelLabelled("ServiceMonitor")>>
        \/ \E content : SyncServiceMonitors(j) = <<Put("ServiceMonitor", content)>>
    BY DEF SyncServiceMonitors, ServiceMonitor
  <2>. QED BY <2>1, LaterKindsAre, OthersLater, LaterFew
<1>4. AllLater(j, SyncSLORules(j))
  <2>1. \/ SyncSLORules(j) = <<Del("SLORule")>>
        \/ \E content : SyncSLORules(j) = <<Put("SLORule", content)>>
    BY DEF SyncSLORules, SLORule
  <2>. QED BY <2>1, LaterKindsAre, OthersLater, LaterFew
<1>5. AllLater(j, SyncServiceLevels(j))
  <2>1. CASE ServiceLevels
    <3>1. \/ SyncServiceLevels(j) = <<Del("ServiceLevel")>>
          \/ \E content : SyncServiceLevels(j) = <<Put("ServiceLevel", content)>>
      BY <2>1 DEF SyncServiceLevels, ServiceLevel
    <3>. QED BY <2>1, <3>1, LaterKindsAre, OthersLater, LaterFew
  <2>2. CASE ~ServiceLevels
    <3>1. SyncServiceLevels(j) = <<>>
      BY <2>2 DEF SyncServiceLevels
    <3>. QED BY <3>1, LaterFew
  <2>. QED BY <2>1, <2>2
<1>. QED BY <1>1, <1>2, <1>3, <1>4, <1>5

\* A reconcile begins with the mesh, and everything else comes later.
LEMMA BeginPlans ==
  ASSUME NEW i, IsPartial(i, Tags, Incarnation), NEW sorted \in Sorted(i), NEW j
  PROVE  Planned(i, j, SyncNamespace(i) \o EnsureServiceAccount \o EnsureRBAC
                         \o TickWrites(i, sorted) \o AppWrites(j) \o SyncServiceMonitors(j)
                         \o SyncSLORules(j) \o SyncServiceLevels(j))
<1> DEFINE a == SyncNamespace(i) \o EnsureServiceAccount
           b == a \o EnsureRBAC
           c == b \o TickWrites(i, sorted)
           d == c \o AppWrites(j)
           e == d \o SyncServiceMonitors(j)
           f == e \o SyncSLORules(j)
<1>1. Planned(i, j, a)
  BY SyncNamespacePlanned, MonitoringLater, PlannedConcat
<1>. HIDE DEF a
<1>2. Planned(i, j, b)
  BY <1>1, MonitoringLater, PlannedConcat
<1>. HIDE DEF b
<1>3. Planned(i, j, c)
  BY <1>2, TickWritesLater, PlannedConcat
<1>. HIDE DEF c
<1>4. Planned(i, j, d)
  BY <1>3, AppWritesLater, PlannedConcat
<1>. HIDE DEF d
<1>5. Planned(i, j, e)
  BY <1>4, MonitoringLater, PlannedConcat
<1>. HIDE DEF e
<1>6. Planned(i, j, f)
  BY <1>5, MonitoringLater, PlannedConcat
<1>. HIDE DEF f
<1>7. Planned(i, j, f \o SyncServiceLevels(j))
  BY <1>6, MonitoringLater, PlannedConcat
<1>. QED BY <1>7 DEF a, b, c, d, e, f

\* What Begin does, to what a reconcile works on and to what it will write.
LEMMA Begins ==
  ASSUME TypeInv, Begin
  PROVE  \E j : /\ IsPartial(j, Tags, Incarnation) /\ SameRevisions(Current, j) /\ inc' = j
                /\ \/ pc' = "writing" /\ Planned(Current, j, todo')
                   \/ /\ pc' = "leaving" /\ AllLater(j, todo')
                      /\ \A n \in DOMAIN todo' : todo'[n].kind = "ServiceLevel"
<1> DEFINE i == Current
<1>1. IsPartial(i, Tags, Incarnation)
  BY CurrentType
<1>. HIDE DEF i
<1>2. CASE \E t \in DOMAIN i : i[t].rev
  <2>1. PICK sorted \in Sorted(i), order \in Releasable(Ticked(i)), open \in Gates(i) :
          LET j == PrepareRevisions(Ticked(i), order, Ramping(i), open)
          IN  /\ pc' = "writing" /\ inc' = j
              /\ todo' = SyncNamespace(i) \o EnsureServiceAccount \o EnsureRBAC
                           \o TickWrites(i, sorted) \o AppWrites(j) \o SyncServiceMonitors(j)
                           \o SyncSLORules(j) \o SyncServiceLevels(j)
    BY <1>2 DEF Begin, i
  <2> DEFINE j == PrepareRevisions(Ticked(i), order, Ramping(i), open)
  <2>2. IsPartial(Ticked(i), Tags, Incarnation) /\ SameRevisions(i, Ticked(i))
    BY <1>1, TickedType
  <2>3. IsPartial(j, Tags, Incarnation) /\ SameRevisions(Ticked(i), j)
    BY <2>2, PrepareType
  <2>. HIDE DEF j
  <2>4. SameRevisions(i, j)
    BY <2>2, <2>3 DEF SameRevisions
  <2>5. Planned(i, j, todo') /\ pc' = "writing" /\ inc' = j
    BY <1>1, <2>1, BeginPlans DEF j
  <2>. QED BY <2>3, <2>4, <2>5 DEF i
<1>3. CASE ~\E t \in DOMAIN i : i[t].rev
  <2>1. pc' = "leaving" /\ inc' = i /\ todo' = SyncServiceLevels(i)
    BY <1>3 DEF Begin, i, Leave
  <2>2. AllLater(i, todo')
    BY <2>1, MonitoringLater
  <2>3. \A n \in DOMAIN todo' : todo'[n].kind = "ServiceLevel"
    <3>1. SyncServiceLevels(i) = <<>> \/ \E w : SyncServiceLevels(i) = <<w>> /\ w.kind = "ServiceLevel"
      <4>1. \A t : ServiceLevel(t).kind = "ServiceLevel"
        BY DEF ServiceLevel, Put
      <4>2. Del("ServiceLevel").kind = "ServiceLevel"
        BY DEF Del
      <4>3. \/ SyncServiceLevels(i) = <<>>
            \/ SyncServiceLevels(i) = <<Del("ServiceLevel")>>
            \/ \E t : SyncServiceLevels(i) = <<ServiceLevel(t)>>
        BY DEF SyncServiceLevels
      <4>. QED BY <4>1, <4>2, <4>3
    <3>. QED BY <2>1, <3>1
  <2>. QED BY <1>1, <2>1, <2>2, <2>3 DEF SameRevisions, i
<1>. QED BY <1>2, <1>3
-----------------------------------------------------------------------------
(* Types.                                                                  *)

\* What a write does to the objects: it reaches its own kind, and a put leaves what it
\* was given or what a user wants ignored.
LEMMA EffectOf ==
  ASSUME NEW o, NEW w, w \in Scales \/ Writes(w)
  PROVE  /\ w \in Scales => Effect(o, w) = o
         /\ Writes(w) => DOMAIN Effect(o, w) \subseteq DOMAIN o \cup {w.kind}
         /\ \A k \in DOMAIN o \ DOMAIN Effect(o, w) :
              w.kind = k /\ w.op \in {"delete", "labelled"}
         /\ \A k : k # w.kind => /\ k \in DOMAIN Effect(o, w) <=> k \in DOMAIN o
                                 /\ k \in DOMAIN o => Effect(o, w)[k] = o[k]
         /\ w.op = "put" =>
              /\ w.kind \in DOMAIN Effect(o, w)
              /\ \/ Effect(o, w)[w.kind] = [content |-> w.content, ignored |-> FALSE]
                 \/ /\ w.kind \in DOMAIN o /\ o[w.kind].ignored
                    /\ Effect(o, w)[w.kind] = o[w.kind]
<1> DEFINE v == Effect(o, w)
           new == Written(o, w)
           without == Without(o, {w.kind})
<1>1. /\ DOMAIN new = {w.kind} \cup DOMAIN o
      /\ new[w.kind] = [content |-> w.content, ignored |-> FALSE]
      /\ \A k \in DOMAIN o : k # w.kind => new[k] = o[k]
  BY DEF Written
<1>2. /\ DOMAIN without = DOMAIN o \ {w.kind}
      /\ \A k \in DOMAIN o : k # w.kind => without[k] = o[k]
  BY DEF Without, Restrict
<1>. HIDE DEF new, without
<1>3. CASE w \in Scales
  <2>1. w.op = "scale" /\ w.kind = "ReplicaSet"
    BY <1>3 DEF Scales, ScaleTo
  <2>2. v = o
    BY <2>1 DEF Effect
  <2>3. ~Writes(w)
    BY <2>1 DEF Writes
  <2>. HIDE DEF v
  <2>. QED BY <2>1, <2>2, <2>3 DEF v
<1>4. CASE Writes(w) /\ w.op = "put"
  <2>1. v = IF w.kind \in DOMAIN o /\ o[w.kind].ignored THEN o ELSE new
    BY <1>4 DEF Effect, CreateOrUpdate, new
  <2>2. w \notin Scales
    BY <1>4 DEF Scales, ScaleTo
  <2>. HIDE DEF v
  <2>3. CASE w.kind \in DOMAIN o /\ o[w.kind].ignored
    BY <1>4, <2>1, <2>2, <2>3 DEF v
  <2>4. CASE ~(w.kind \in DOMAIN o /\ o[w.kind].ignored)
    BY <1>1, <1>4, <2>1, <2>2, <2>4 DEF v
  <2>. QED BY <2>3, <2>4
<1>5. CASE Writes(w) /\ w.op = "force"
  <2>1. v = new
    BY <1>5 DEF Effect, new
  <2>2. w \notin Scales
    BY <1>5 DEF Scales, ScaleTo
  <2>. HIDE DEF v
  <2>. QED BY <1>1, <1>5, <2>1, <2>2 DEF v
<1>6. CASE Writes(w) /\ w.op \in {"delete", "labelled"}
  <2>1. v \in {o, without}
    BY <1>6 DEF Effect, without
  <2>2. w \notin Scales
    BY <1>6 DEF Scales, ScaleTo
  <2>. HIDE DEF v
  <2>. QED BY <1>2, <1>6, <2>1, <2>2 DEF v
<1>. QED BY <1>3, <1>4, <1>5, <1>6 DEF Writes

\* What is planned, or written later, is a write.
LEMMA PlansWrite ==
  ASSUME NEW i, NEW j, NEW s, Planned(i, j, s) \/ AllLater(j, s)
  PROVE  s \in Seq(Range(s)) /\ \A n \in DOMAIN s : s[n] \in Scales \/ Writes(s[n])
<1>1. s \in Seq(Range(s))
  BY DEF Planned, AllLater
<1>2. DOMAIN s = 1 .. Len(s) /\ Len(s) \in Nat
  BY <1>1, OwnElements
<1>3. CASE Planned(i, j, s)
  <2>1. ASSUME NEW n \in DOMAIN s PROVE s[n] \in Scales \/ Writes(s[n])
    <3>1. CASE n = 1
      <4>1. "Namespace" \in Kinds
        BY DEF Kinds
      <4>. QED BY <1>3, <3>1, <4>1 DEF Planned, Writes, Put
    <3>2. CASE n \in 2 .. 5
      BY <1>3, <3>2 DEF Planned
    <3>3. CASE n > 5
      BY <1>3, <3>3 DEF Planned, IsLater
    <3>. QED BY <1>2, <3>1, <3>2, <3>3
  <2>. QED BY <1>1, <2>1
<1>4. CASE AllLater(j, s)
  BY <1>1, <1>4 DEF AllLater, IsLater
<1>. QED BY <1>3, <1>4

\* What is left to write are writes.
LEMMA RestsWrite ==
  ASSUME WritesOK, Rests(todo, todo')
  PROVE  WritesOK'
BY DEF WritesOK, Rests

\* In the beginning nothing is known and nothing written.
LEMMA InitTypes == Init => TypeInv
<1> SUFFICES ASSUME Init PROVE TypeInv
  OBVIOUS
<1>1. /\ config \in Configs /\ revision = [t \in Tags |-> "absent"] /\ manager = "none"
      /\ orphaned = FALSE /\ status = <<>> /\ object = <<>>
      /\ replicas = [t \in Tags |-> "none"] /\ pod = [t \in Tags |-> "none"]
      /\ pc = "idle" /\ inc = <<>> /\ todo = <<>> /\ events = 0
  BY DEF Init
<1>2. \A t \in Tags : config[t] \in Config
  BY <1>1, TargetAssumption DEF Tags
<1>3. DOMAIN status = {} /\ DOMAIN object = {} /\ DOMAIN inc = {} /\ DOMAIN todo = {}
  BY <1>1
<1>4. TypeOK
  <2>1. revision \in [Tags -> {"absent", "good", "failed"}]
    BY <1>1
  <2>2. replicas \in [Tags -> {"none", "zero", "one"}]
    BY <1>1
  <2>3. /\ pod \in [Tags -> {"none", "plain", "injected"}]
        /\ \A t \in Tags : pod[t] = "none"
    BY <1>1
  <2>4. events \in 0 .. MaxEvents
    BY <1>1, TargetAssumption
  <2>. QED BY <1>1, <1>2, <1>3, <2>1, <2>2, <2>3, <2>4 DEF TypeOK
<1>5. IsPartial(status, Tags, Status) /\ IsPartial(inc, Tags, Incarnation)
  BY <1>1, <1>3 DEF IsPartial
<1>6. WritesOK
  <2>1. todo \in Seq({})
    BY <1>1
  <2>. QED BY <1>3, <2>1, OwnElements DEF WritesOK
<1>. QED BY <1>4, <1>5, <1>6 DEF TypeInv

\* A reconcile begins.
LEMMA BeginTypes == TypeInv /\ Begin => TypeInv'
<1> SUFFICES ASSUME TypeInv, Begin PROVE TypeInv'
  OBVIOUS
<1>1. UNCHANGED <<config, revision, manager, orphaned, status, events, object, replicas, pod>>
  BY DEF Begin, cluster
<1>2. PICK j : /\ IsPartial(j, Tags, Incarnation) /\ inc' = j
               /\ \/ pc' = "writing" /\ Planned(Current, j, todo')
                  \/ pc' = "leaving" /\ AllLater(j, todo')
  BY Begins
<1>3. WritesOK'
  BY <1>2, PlansWrite DEF WritesOK
<1>4. TypeOK'
  BY <1>1, <1>2 DEF TypeInv, TypeOK, Has
<1>5. IsPartial(inc, Tags, Incarnation)' /\ IsPartial(status, Tags, Status)'
  BY <1>1, <1>2 DEF TypeInv, IsPartial
<1>. QED BY <1>3, <1>4, <1>5 DEF TypeInv

\* A write leaves objects of the kinds there are, and pods only where they may run.
LEMMA WriteTypes == TypeInv /\ Write => TypeInv'
<1> SUFFICES ASSUME TypeInv, Write PROVE TypeInv'
  OBVIOUS
<1> DEFINE w == Head(todo)
<1>1. /\ todo # <<>> /\ object' = Effect(object, w) /\ Scaled(w) /\ todo' = Tail(todo)
      /\ UNCHANGED <<config, revision, manager, orphaned, status, pc, inc, events>>
  BY DEF Write
<1>2. 1 \in DOMAIN todo /\ w = todo[1] /\ Rests(todo, todo')
  BY <1>1, TailRests DEF TypeInv, WritesOK
<1>3. w \in Scales \/ Writes(w)
  BY <1>2 DEF TypeInv, WritesOK
<1>. HIDE DEF w
<1>4. DOMAIN object' \subseteq Kinds
  <2>1. Writes(w) => w.kind \in Kinds
    BY DEF Writes
  <2>. QED BY <1>1, <1>3, <2>1, EffectOf DEF TypeInv, TypeOK
<1>5. Has("Namespace") => Has("Namespace")'
  <2>1. ~(w.kind = "Namespace" /\ w.op \in {"delete", "labelled"})
    BY <1>3 DEF Writes, Scales, ScaleTo
  <2>. QED BY <1>1, <1>3, <2>1, EffectOf DEF Has
<1>6. w.op = "scale" => w.tag \in Tags /\ w.replicas \in {"none", "zero", "one"}
  BY <1>3 DEF Scales, ScaleTo, Writes
<1>7. /\ replicas' \in [Tags -> {"none", "zero", "one"}]
      /\ pod' \in [Tags -> {"none", "plain", "injected"}]
      /\ \A t \in Tags : pod'[t] # "none" => replicas'[t] = "one" /\ Has("Namespace")'
  <2>1. CASE w.op = "scale"
    <3>1. /\ replicas' = [replicas EXCEPT ![w.tag] = w.replicas]
          /\ pod' = IF w.replicas # "one" THEN [pod EXCEPT ![w.tag] = "none"] ELSE pod
      BY <1>1, <2>1 DEF Scaled
    <3>. QED BY <1>5, <1>6, <2>1, <3>1 DEF TypeInv, TypeOK
  <2>2. CASE w.op # "scale"
    <3>1. replicas' = replicas /\ pod' = pod
      BY <1>1, <2>2 DEF Scaled
    <3>. QED BY <1>5, <3>1 DEF TypeInv, TypeOK
  <2>. QED BY <2>1, <2>2
<1>8. TypeOK'
  BY <1>1, <1>4, <1>7 DEF TypeInv, TypeOK
<1>9. WritesOK'
  BY <1>2, RestsWrite DEF TypeInv
<1>. QED BY <1>1, <1>8, <1>9 DEF TypeInv, IsPartial

\* A failure ends the reconcile, or only SyncApp.
LEMMA WriteFailsTypes == TypeInv /\ WriteFails => TypeInv'
<1> SUFFICES ASSUME TypeInv, WriteFails PROVE TypeInv'
  OBVIOUS
<1>1. /\ todo # <<>> /\ events < MaxEvents /\ events' = events + 1
      /\ UNCHANGED <<config, revision, manager, orphaned, status, object, replicas, pod>>
  BY DEF WriteFails, Event, cluster
<1>2. events' \in 0 .. MaxEvents
  BY <1>1, TargetAssumption DEF TypeInv, TypeOK
<1>3. CASE Head(todo) = Del("AlertRule")
  <2>1. todo' = AfterSyncApp(Tail(todo)) /\ UNCHANGED <<pc, inc>>
    BY <1>3 DEF WriteFails
  <2>2. WritesOK'
    <3>1. Rests(todo, todo')
      BY <1>1, <2>1, TailRests DEF TypeInv, WritesOK
    <3>. QED BY <3>1, RestsWrite DEF TypeInv
  <2>3. TypeOK'
    BY <1>1, <1>2, <2>1 DEF TypeInv, TypeOK, Has
  <2>. QED BY <1>1, <2>1, <2>2, <2>3 DEF TypeInv, IsPartial
<1>4. CASE Head(todo) # Del("AlertRule")
  <2>1. todo' = <<>> /\ pc' = "idle" /\ inc' = <<>>
    BY <1>4 DEF WriteFails
  <2>2. WritesOK'
    <3>1. todo' \in Seq({}) /\ DOMAIN todo' = {}
      BY <2>1
    <3>. QED BY <3>1, OwnElements DEF WritesOK
  <2>3. TypeOK'
    BY <1>1, <1>2, <2>1 DEF TypeInv, TypeOK, Has
  <2>4. IsPartial(inc, Tags, Incarnation)'
    BY <2>1 DEF IsPartial
  <2>. QED BY <1>1, <2>2, <2>3, <2>4 DEF TypeInv, IsPartial
<1>. QED BY <1>3, <1>4

\* What is persisted is what the reconcile made of it.
LEMMA FinishTypes == TypeInv /\ WritesInReconciles /\ Finish => TypeInv'
<1> SUFFICES ASSUME TypeInv, WritesInReconciles, Finish PROVE TypeInv'
  OBVIOUS
<1>1. /\ pc = "writing" /\ status' = [t \in Kept |-> StatusOf(t)] /\ pc' = "idle"
      /\ inc' = <<>>
      /\ UNCHANGED <<config, revision, manager, orphaned, todo, events, object, replicas, pod>>
  BY DEF Finish, cluster
<1>2. manager = "alive"
  BY <1>1 DEF WritesInReconciles
<1>3. ASSUME NEW t \in Kept PROVE StatusOf(t) \in Status /\ t \in Tags
  <2>1. t \in DOMAIN inc /\ t \in Tags /\ inc[t] \in Incarnation
    BY DEF Kept, TypeInv, IsPartial
  <2> DEFINE again == t \in Recommissioned
             peak == IF again THEN 100 ELSE inc[t].peak
             elig == again \/ inc[t].elig
  <2>2. peak \in 0 .. 100 /\ inc[t].state \in States /\ inc[t].cur \in 0 .. 100
    BY <2>1 DEF Incarnation
  <2>3. elig \in BOOLEAN
    OBVIOUS
  <2>4. StatusOf(t) = [state |-> inc[t].state, cur |-> inc[t].cur, peak |-> peak, elig |-> elig]
    BY DEF StatusOf
  <2>. HIDE DEF peak, elig
  <2>. QED BY <2>1, <2>2, <2>3, <2>4 DEF Status
<1>4. IsPartial(status, Tags, Status)'
  BY <1>1, <1>3 DEF IsPartial
<1>5. IsPartial(inc, Tags, Incarnation)'
  BY <1>1 DEF IsPartial
<1>6. TypeOK'
  <2>1. \A t \in DOMAIN status' : status'[t].state \in States /\ status'[t].cur \in 0 .. 100
    BY <1>4 DEF IsPartial, Status
  <2>. QED BY <1>1, <1>2, <2>1 DEF TypeInv, TypeOK, Has
<1>7. WritesOK'
  BY <1>1 DEF TypeInv, WritesOK
<1>. QED BY <1>4, <1>5, <1>6, <1>7 DEF TypeInv

\* A manager that goes has no status.
LEMMA GoingTypes == TypeInv /\ (DeleteSelf \/ Finalize) => TypeInv'
<1> SUFFICES ASSUME TypeInv, DeleteSelf \/ Finalize PROVE TypeInv'
  OBVIOUS
<1>1. CASE DeleteSelf
  <2>1. /\ manager' = "deleting" /\ orphaned' = FALSE /\ status' = <<>> /\ pc' = "idle"
        /\ inc' = <<>> /\ UNCHANGED <<config, revision, todo, events, object, replicas, pod>>
    BY <1>1 DEF DeleteSelf, cluster
  <2>2. DOMAIN status' = {}
    BY <2>1
  <2>3. TypeOK'
    BY <2>1, <2>2 DEF TypeInv, TypeOK, Has
  <2>4. IsPartial(status, Tags, Status)' /\ IsPartial(inc, Tags, Incarnation)'
    BY <2>1 DEF IsPartial
  <2>. QED BY <2>1, <2>3, <2>4 DEF TypeInv, WritesOK
<1>2. CASE Finalize
  <2>1. /\ object' = Without(object, DOMAIN object \ {"ServiceLevel"})
        /\ replicas' = [t \in Tags |-> "none"] /\ pod' = [t \in Tags |-> "none"]
        /\ manager' = "none" /\ status' = <<>>
        /\ UNCHANGED <<config, revision, orphaned, pc, inc, todo, events>>
    BY <1>2 DEF Finalize
  <2>2. DOMAIN status' = {} /\ DOMAIN object' \subseteq DOMAIN object
    <3>1. DOMAIN object' = DOMAIN object \ (DOMAIN object \ {"ServiceLevel"})
      BY <2>1, WithoutDomain
    <3>2. DOMAIN status' = {}
      BY <2>1
    <3>. QED BY <3>1, <3>2
  <2>3. TypeOK'
    BY <2>1, <2>2 DEF TypeInv, TypeOK
  <2>4. IsPartial(status, Tags, Status)'
    BY <2>1 DEF IsPartial
  <2>. QED BY <2>1, <2>3, <2>4 DEF TypeInv, WritesOK, IsPartial
<1>. QED BY <1>1, <1>2

\* Users, the revision controller and the pods.
LEMMA OutsideTypes ==
  ASSUME TypeInv,
         \/ CreateManager \/ RemoveManager
         \/ \E kind \in Ignorable : Ignore(kind)
         \/ \E t \in Tags : CreateRevision(t) \/ EditRevision(t) \/ StartPod(t) \/ RestartPod(t)
         \/ UNCHANGED vars
  PROVE  TypeInv'
<1>1. UNCHANGED <<config, status, inc, todo>>
  BY DEF CreateManager, RemoveManager, Ignore, CreateRevision, EditRevision, SetRevision,
         StartPod, RestartPod, vars, reconcile
<1>2. IsPartial(status, Tags, Status)' /\ IsPartial(inc, Tags, Incarnation)' /\ WritesOK'
  BY <1>1 DEF TypeInv, IsPartial, WritesOK
<1>3. Event => events' \in 0 .. MaxEvents
  BY TargetAssumption DEF TypeInv, TypeOK, Event
<1>4. TypeOK'
  <2>1. CASE CreateManager
    BY <1>1, <2>1 DEF TypeInv, TypeOK, CreateManager, cluster, Has
  <2>2. CASE RemoveManager
    BY <1>1, <1>3, <2>2 DEF TypeInv, TypeOK, RemoveManager, cluster, Has
  <2>3. ASSUME NEW kind \in Ignorable, Ignore(kind) PROVE TypeOK'
    <3>1. /\ DOMAIN object' = DOMAIN object /\ events' \in 0 .. MaxEvents
          /\ UNCHANGED <<config, revision, replicas, pod, manager, orphaned, status, pc>>
      BY <1>3, <2>3 DEF Ignore, reconcile
    <3>. QED BY <3>1 DEF TypeInv, TypeOK, Has
  <2>4. ASSUME NEW t \in Tags, CreateRevision(t) \/ EditRevision(t) PROVE TypeOK'
    <3>1. /\ revision' \in [Tags -> {"absent", "good", "failed"}]
          /\ UNCHANGED <<manager, orphaned, status, pc, object, replicas, pod>>
      BY <2>4 DEF CreateRevision, EditRevision, SetRevision, reconcile, cluster, TypeInv, TypeOK
    <3>2. events' \in 0 .. MaxEvents
      BY <1>3, <2>4 DEF CreateRevision, EditRevision, TypeInv, TypeOK
    <3>. QED BY <1>1, <3>1, <3>2 DEF TypeInv, TypeOK, Has
  <2>5. ASSUME NEW t \in Tags, StartPod(t) \/ RestartPod(t) PROVE TypeOK'
    <3>1. /\ UNCHANGED <<revision, object, replicas, manager, orphaned, pc>>
          /\ events' \in 0 .. MaxEvents
          /\ \E p \in {"none", "plain", "injected"} :
               /\ pod' = [pod EXCEPT ![t] = p]
               /\ p # "none" => replicas[t] = "one" /\ Has("Namespace")
      BY <1>3, <2>5 DEF StartPod, RestartPod, reconcile, TypeInv, TypeOK
    <3>. QED BY <1>1, <3>1 DEF TypeInv, TypeOK, Has
  <2>6. CASE UNCHANGED vars
    BY <2>6 DEF TypeInv, TypeOK, vars, Has
  <2>. QED BY <2>1, <2>2, <2>3, <2>4, <2>5, <2>6
<1>. QED BY <1>2, <1>4 DEF TypeInv

\* The types hold all the time.
THEOREM TypeInvariance == Spec => []TypeInv
<1>1. IInv /\ TypeInv /\ [Next]_vars => TypeInv'
  BY BeginTypes, WriteTypes, WriteFailsTypes, FinishTypes, GoingTypes, OutsideTypes
     DEF Next, IInv
<1>. QED BY InitTypes, Invariance, <1>1, PTL DEF Spec

\* The types of a target: the states a manager persists and their percentages, the
\* objects and the pods; for every set of revisions, targets and release strategies.
THEOREM TypesOfTarget == Spec => []TypeOK
<1>1. TypeInv => TypeOK
  BY DEF TypeInv
<1>. QED BY TypeInvariance, <1>1, PTL
-----------------------------------------------------------------------------
(* The mesh.                                                               *)

\* The labels of a namespace whose newest revision has a sidecar turn injection on, and
\* its waypoint goes only when no revision that is known is ambient and has replicas.
LEMMA ModeObserves ==
  ASSUME NEW i, DOMAIN i \subseteq Tags, TypeOK
  PROVE  /\ ~config[Newest(i)].ambient => Labels(Mode(i)).injection
         /\ Mode(i) = "sidecar" =>
              \A t \in DOMAIN i : i[t].rev /\ config[t].ambient => replicas[t] # "one"
<1>1. ASSUME ~config[Newest(i)].ambient PROVE Labels(Mode(i)).injection
  <2>1. ~EffectiveAmbientMesh(i)
    BY <1>1 DEF EffectiveAmbientMesh
  <2>2. Mode(i) # "ambient"
    BY <2>1 DEF Mode
  <2>. QED BY <2>2 DEF Labels
<1>2. ASSUME Mode(i) = "sidecar", NEW t \in DOMAIN i, i[t].rev, config[t].ambient
      PROVE  replicas[t] # "one"
  <2>1. ~HasReplicas(i, TRUE)
    BY <1>2 DEF Mode
  <2>2. config[t].ambient = TRUE
    BY <1>2 DEF TypeOK, Config
  <2>. QED BY <1>2, <2>1, <2>2 DEF HasReplicas
<1>. QED BY <1>1, <1>2

\* The kinds of what is planned: the mesh first, and no ReplicaSet before it.
LEMMA PlannedKinds ==
  ASSUME NEW i, NEW j, NEW s, Planned(i, j, s)
  PROVE  /\ s # <<>> /\ s[1].kind = "Namespace" /\ s[1].content = Labels(Mode(i))
         /\ \A n \in DOMAIN s : s[n].kind = "Namespace" => n = 1
         /\ \A n \in DOMAIN s : s[n].kind = "ReplicaSet" => n > 5
         /\ \A n \in DOMAIN s : n > 5 => s[n].kind \notin {"Namespace", "Gateway"}
         /\ \A n \in DOMAIN s : s[n].kind = "Gateway" /\ s[n].op = "delete" =>
              Mode(i) = "sidecar"
<1>1. DOMAIN s = 1 .. Len(s) /\ Len(s) \in Nat /\ 5 <= Len(s)
  BY OwnElements DEF Planned
<1>2. s[1].kind = "Namespace" /\ s[1].content = Labels(Mode(i))
  BY DEF Planned, Put
<1>3. ASSUME NEW n \in 2 .. 5
      PROVE  /\ s[n].kind \notin {"Namespace", "ReplicaSet"}
             /\ s[n].kind = "Gateway" /\ s[n].op = "delete" => Mode(i) = "sidecar"
  BY DEF Planned, WaypointKinds
<1>4. ASSUME NEW n \in DOMAIN s, n > 5 PROVE s[n].kind \notin {"Namespace", "Gateway"}
  BY <1>4 DEF Planned, IsLater, Scales, ScaleTo
<1>5. \A n \in DOMAIN s : n = 1 \/ n \in 2 .. 5 \/ n > 5
  BY <1>1
<1>6. s # <<>>
  BY <1>1
<1>. QED BY <1>2, <1>3, <1>4, <1>5, <1>6

\* A reconcile that is not running has nothing to keep.
LEMMA QuietMesh == pc' # "writing" /\ todo' = <<>> => MeshInv' /\ LeavesLevels'
<1> SUFFICES ASSUME pc' # "writing", todo' = <<>> PROVE MeshInv' /\ LeavesLevels'
  OBVIOUS
<1>1. DOMAIN todo' = {}
  OBVIOUS
<1>. QED BY <1>1 DEF MeshInv, MeshFirst, WaypointGuarded, NamespaceFirst, LeavesLevels

\* In the beginning nothing is to be written.
LEMMA InitMesh == Init => MeshInv /\ LeavesLevels
<1> SUFFICES ASSUME Init PROVE MeshInv /\ LeavesLevels
  OBVIOUS
<1>1. pc = "idle" /\ DOMAIN todo = {}
  BY DEF Init
<1>. QED BY <1>1 DEF MeshInv, MeshFirst, WaypointGuarded, NamespaceFirst, LeavesLevels

\* A reconcile plans the mesh before anything else.
LEMMA BeginMesh == TypeInv /\ Begin => MeshInv' /\ LeavesLevels'
<1> SUFFICES ASSUME TypeInv, Begin PROVE MeshInv' /\ LeavesLevels'
  OBVIOUS
<1> DEFINE i == Current
<1>1. config' = config /\ replicas' = replicas
  BY DEF Begin, cluster
<1>2. PICK j : /\ SameRevisions(i, j) /\ inc' = j
               /\ \/ pc' = "writing" /\ Planned(i, j, todo')
                  \/ /\ pc' = "leaving"
                     /\ \A n \in DOMAIN todo' : todo'[n].kind = "ServiceLevel"
  BY Begins
<1>3. DOMAIN i \subseteq Tags
  BY CurrentType DEF IsPartial
<1>. HIDE DEF i
<1>4. CASE pc' = "leaving"
  <2>1. \A n \in DOMAIN todo' : todo'[n].kind = "ServiceLevel"
    BY <1>2, <1>4
  <2>. QED BY <1>4, <2>1 DEF MeshInv, MeshFirst, WaypointGuarded, NamespaceFirst, LeavesLevels
<1>5. CASE pc' # "leaving"
  <2> DEFINE s == todo'
  <2>1. Planned(i, j, s) /\ pc' = "writing"
    BY <1>2, <1>5
  <2>2. Newest(j) = Newest(i)
    BY <1>2, SameNewest
  <2>3. s \in Seq(Range(s)) /\ DOMAIN s = 1 .. Len(s) /\ Len(s) \in Nat
    BY <2>1, OwnElements DEF Planned
  <2>4. MeshFirst'
    <3> SUFFICES ASSUME NEW m \in DOMAIN s, NEW n \in DOMAIN s, m < n, s[m].kind = "ReplicaSet"
                 PROVE  s[n].kind \notin {"Namespace", "Gateway"}
      BY DEF MeshFirst
    <3>1. m > 5
      BY <2>1, PlannedKinds
    <3>2. n > 5
      BY <2>3, <3>1
    <3>. QED BY <2>1, <3>2, PlannedKinds
  <2>5. WaypointGuarded'
    <3> SUFFICES ASSUME NEW n \in DOMAIN s, s[n].kind = "Gateway", s[n].op = "delete"
                 PROVE  NoAmbient'
      BY DEF WaypointGuarded
    <3>1. Mode(i) = "sidecar"
      BY <2>1, PlannedKinds
    <3>2. \A t \in DOMAIN i : i[t].rev /\ config[t].ambient => replicas[t] # "one"
      BY <1>3, <3>1, ModeObserves DEF TypeInv
    <3>. QED BY <1>1, <1>2, <3>2 DEF NoAmbient, SameRevisions
  <2>6. NamespaceFirst'
    <3>1. s # <<>> /\ s[1].kind = "Namespace" /\ s[1].content = Labels(Mode(i))
      BY <2>1, PlannedKinds
    <3>2. \A n \in DOMAIN s : s[n].kind = "Namespace" => n = 1
      BY <2>1, PlannedKinds
    <3>3. ~config[Newest(i)].ambient => Labels(Mode(i)).injection
      BY <1>3, ModeObserves DEF TypeInv
    <3>4. ~config'[Newest(inc')].ambient => s[1].content.injection
      BY <1>1, <1>2, <2>2, <3>1, <3>3
    <3>. QED BY <3>1, <3>2, <3>4 DEF NamespaceFirst, Injecting
  <2>. QED BY <2>1, <2>4, <2>5, <2>6 DEF MeshInv, LeavesLevels
<1>. QED BY <1>4, <1>5

\* One write after the other keeps the order of what is left.
LEMMA RestsMesh ==
  ASSUME MeshFirst, LeavesLevels, Rests(todo, todo'), pc' = pc
  PROVE  MeshFirst' /\ LeavesLevels'
<1>1. PICK d \in {1, 2} : \A n \in DOMAIN todo' : n + d \in DOMAIN todo /\ todo'[n] = todo[n + d]
  BY DEF Rests
<1>2. DOMAIN todo' \subseteq Nat
  BY OwnElements DEF Rests
<1>3. \A m, n \in DOMAIN todo' : m < n => m + d < n + d
  BY <1>2
<1>. QED BY <1>1, <1>3 DEF MeshFirst, LeavesLevels

\* The namespace is first, so that it is not what is left.
LEMMA RestsNamespace ==
  ASSUME NamespaceFirst, pc = "writing", Rests(todo, todo'), NEW n \in DOMAIN todo'
  PROVE  todo'[n].kind # "Namespace"
<1>1. PICK d \in {1, 2} : n + d \in DOMAIN todo /\ todo'[n] = todo[n + d]
  BY DEF Rests
<1>2. n \in Nat /\ n >= 1
  BY OwnElements DEF Rests
<1>3. n + d # 1
  BY <1>2
<1>. QED BY <1>1, <1>3 DEF NamespaceFirst

\* A write that puts the labels of the namespace; the others leave them; and a
\* ReplicaSet is written after the waypoint.
LEMMA WriteMesh ==
  ASSUME TypeInv, MeshInv, LeavesLevels, Write
  PROVE  MeshInv' /\ LeavesLevels'
<1> DEFINE w == Head(todo)
<1>1. /\ todo # <<>> /\ object' = Effect(object, w) /\ Scaled(w) /\ todo' = Tail(todo)
      /\ UNCHANGED <<config, pc, inc>>
  BY DEF Write
<1>2. 1 \in DOMAIN todo /\ w = todo[1] /\ Rests(todo, todo')
  BY <1>1, TailRests DEF TypeInv, WritesOK
<1>3. w \in Scales \/ Writes(w)
  BY <1>2 DEF TypeInv, WritesOK
<1>. HIDE DEF w
<1>4. MeshFirst' /\ LeavesLevels'
  BY <1>1, <1>2, RestsMesh DEF MeshInv
<1>5. WaypointGuarded'
  <2> SUFFICES ASSUME pc = "writing", NEW n \in DOMAIN todo', todo'[n].kind = "Gateway",
                      todo'[n].op = "delete"
               PROVE  NoAmbient'
    BY <1>1 DEF WaypointGuarded
  <2>1. PICK d \in {1, 2} : n + d \in DOMAIN todo /\ todo'[n] = todo[n + d]
    BY <1>2 DEF Rests
  <2>2. NoAmbient
    BY <2>1 DEF MeshInv, WaypointGuarded
  <2>3. 1 < n + d
    BY <1>2, OwnElements DEF Rests
  <2>4. w.kind # "ReplicaSet"
    BY <1>2, <2>1, <2>3 DEF MeshInv, MeshFirst
  <2>5. w.op # "scale"
    BY <1>3, <2>4 DEF Scales, ScaleTo, Writes
  <2>6. replicas' = replicas
    BY <1>1, <2>5 DEF Scaled
  <2>. QED BY <1>1, <2>2, <2>6 DEF NoAmbient
<1>6. NamespaceFirst'
  <2> SUFFICES ASSUME pc = "writing" PROVE NamespaceFirst'
    BY <1>1 DEF NamespaceFirst
  <2>1. \A n \in DOMAIN todo' : todo'[n].kind # "Namespace"
    BY <1>2, RestsNamespace DEF MeshInv
  <2>2. /\ Has("Namespace")'
        /\ object'["Namespace"].ignored \/ Injecting(object'["Namespace"].content)
    <3>1. CASE w.kind = "Namespace"
      <4>1. w.op = "put" /\ Writes(w)
        BY <1>3, <3>1 DEF Scales, ScaleTo, Writes
      <4>2. Injecting(w.content)
        BY <1>2, <3>1 DEF MeshInv, NamespaceFirst
      <4>3. /\ "Namespace" \in DOMAIN object'
            /\ \/ object'["Namespace"] = [content |-> w.content, ignored |-> FALSE]
               \/ object["Namespace"].ignored /\ object'["Namespace"] = object["Namespace"]
        BY <1>1, <1>3, <3>1, <4>1, EffectOf
      <4>. QED BY <4>2, <4>3 DEF Has
    <3>2. CASE w.kind # "Namespace"
      <4>1. /\ Has("Namespace")
            /\ object["Namespace"].ignored \/ Injecting(object["Namespace"].content)
        BY <1>2, <3>2 DEF MeshInv, NamespaceFirst
      <4>2. "Namespace" \in DOMAIN object' /\ object'["Namespace"] = object["Namespace"]
        BY <1>1, <1>3, <3>2, <4>1, EffectOf DEF Has
      <4>. QED BY <4>1, <4>2 DEF Has
    <3>. QED BY <3>1, <3>2
  <2>3. \A labels : Injecting(labels)' <=> Injecting(labels)
    BY <1>1 DEF Injecting
  <2>. QED BY <1>1, <2>1, <2>2, <2>3 DEF NamespaceFirst, Injecting
<1>. QED BY <1>4, <1>5, <1>6 DEF MeshInv

\* A failure leaves the cluster as it is.
LEMMA WriteFailsMesh ==
  ASSUME TypeInv, MeshInv, LeavesLevels, WriteFails
  PROVE  MeshInv' /\ LeavesLevels'
<1>1. todo # <<>> /\ UNCHANGED <<config, object, replicas>>
  BY DEF WriteFails, cluster
<1>2. CASE Head(todo) # Del("AlertRule")
  <2>1. todo' = <<>> /\ pc' = "idle"
    BY <1>2 DEF WriteFails
  <2>. QED BY <2>1, QuietMesh
<1>3. CASE Head(todo) = Del("AlertRule")
  <2>1. todo' = AfterSyncApp(Tail(todo)) /\ UNCHANGED <<pc, inc>>
    BY <1>3 DEF WriteFails
  <2>2. /\ Rests(todo, todo')
        /\ todo[1].kind = "AlertRule"
    <3>1. Head(todo) = todo[1] /\ Rests(todo, todo')
      BY <1>1, <2>1, TailRests DEF TypeInv, WritesOK
    <3>. QED BY <1>3, <3>1 DEF Del
  <2>3. MeshFirst' /\ LeavesLevels'
    BY <2>1, <2>2, RestsMesh DEF MeshInv
  <2>4. WaypointGuarded'
    <3>1. NoAmbient' <=> NoAmbient
      BY <1>1, <2>1 DEF NoAmbient
    <3>. QED BY <2>1, <2>2, <3>1 DEF MeshInv, WaypointGuarded, Rests
  <2>5. NamespaceFirst'
    <3> SUFFICES ASSUME pc = "writing" PROVE NamespaceFirst'
      BY <2>1 DEF NamespaceFirst
    <3>1. \A n \in DOMAIN todo' : todo'[n].kind # "Namespace"
      BY <2>2, RestsNamespace DEF MeshInv
    <3>2. /\ Has("Namespace")
          /\ object["Namespace"].ignored \/ Injecting(object["Namespace"].content)
      BY <2>2 DEF MeshInv, NamespaceFirst
    <3>3. \A labels : Injecting(labels)' <=> Injecting(labels)
      BY <1>1, <2>1 DEF Injecting
    <3>. QED BY <1>1, <3>1, <3>2, <3>3 DEF NamespaceFirst, Injecting, Has
  <2>. QED BY <2>3, <2>4, <2>5 DEF MeshInv
<1>. QED BY <1>2, <1>3

\* Nobody else changes a running reconcile's replicas, or what its namespace says.
LEMMA OutsideMesh ==
  ASSUME MeshInv, LeavesLevels, WritesInReconciles,
         \/ Finish \/ DeleteSelf \/ Finalize \/ CreateManager \/ RemoveManager
         \/ \E kind \in Ignorable : Ignore(kind)
         \/ \E t \in Tags : CreateRevision(t) \/ EditRevision(t) \/ StartPod(t) \/ RestartPod(t)
         \/ UNCHANGED vars
  PROVE  MeshInv' /\ LeavesLevels'
<1>1. CASE pc' # "writing" /\ todo' = <<>>
  BY <1>1, QuietMesh
<1>2. CASE ~(pc' # "writing" /\ todo' = <<>>)
  <2>1. ~Finish /\ ~DeleteSelf
    BY <1>2 DEF Finish, DeleteSelf
  <2>2. ~Finalize /\ ~CreateManager /\ ~RemoveManager
    BY <1>2 DEF Finalize, CreateManager, RemoveManager, WritesInReconciles
  <2>3. ASSUME NEW t \in Tags PROVE ~CreateRevision(t) /\ ~EditRevision(t)
    BY <1>2 DEF CreateRevision, EditRevision, SetRevision, WritesInReconciles, reconcile
  <2>4. \/ \E kind \in Ignorable : Ignore(kind)
        \/ \E t \in Tags : StartPod(t) \/ RestartPod(t)
        \/ UNCHANGED vars
    BY <2>1, <2>2, <2>3
  <2>5. /\ UNCHANGED <<config, replicas, pc, inc, todo>>
        /\ Has("Namespace") => /\ Has("Namespace")'
                               /\ object'["Namespace"].content = object["Namespace"].content
                               /\ object["Namespace"].ignored => object'["Namespace"].ignored
    <3>1. ASSUME NEW kind \in Ignorable, Ignore(kind)
          PROVE  <2>5!1 /\ <2>5!2
      <4>1. /\ UNCHANGED <<config, replicas, pc, inc, todo>> /\ kind \in DOMAIN object
            /\ object' = [object EXCEPT ![kind].ignored = TRUE]
        BY <3>1 DEF Ignore, reconcile, Has
      <4>. QED BY <4>1 DEF Has
    <3>2. ASSUME NEW t \in Tags, StartPod(t) \/ RestartPod(t)
          PROVE  UNCHANGED <<config, object, replicas, pc, inc, todo>>
      BY <3>2 DEF StartPod, RestartPod, reconcile
    <3>3. ASSUME UNCHANGED vars PROVE UNCHANGED <<config, object, replicas, pc, inc, todo>>
      BY <3>3 DEF vars
    <3>. QED BY <2>4, <3>1, <3>2, <3>3 DEF Has
  <2>6. MeshFirst' /\ LeavesLevels'
    BY <2>5 DEF MeshInv, MeshFirst, LeavesLevels
  <2>7. WaypointGuarded'
    <3>1. NoAmbient' <=> NoAmbient
      BY <2>5 DEF NoAmbient
    <3>. QED BY <2>5, <3>1 DEF MeshInv, WaypointGuarded
  <2>8. NamespaceFirst'
    <3>1. \A labels : Injecting(labels)' <=> Injecting(labels)
      BY <2>5 DEF Injecting
    <3>. QED BY <2>5, <3>1 DEF MeshInv, NamespaceFirst, Injecting, Has
  <2>. QED BY <2>6, <2>7, <2>8 DEF MeshInv
<1>. QED BY <1>1, <1>2

\* The order of the writes holds all the time.
THEOREM MeshInvariance == Spec => [](MeshInv /\ LeavesLevels)
<1>1. IInv /\ TypeInv /\ MeshInv /\ LeavesLevels /\ [Next]_vars => (MeshInv /\ LeavesLevels)'
  BY BeginMesh, WriteMesh, WriteFailsMesh, OutsideMesh DEF Next, IInv
<1>. QED BY InitMesh, Invariance, TypeInvariance, <1>1, PTL DEF Spec

\* Only a write reaches the objects and the replicas while a reconcile runs.
LEMMA OnlyWrites ==
  ASSUME TypeInv, [Next]_vars, ~Write
  PROVE  /\ DOMAIN object' \subseteq DOMAIN object
         /\ \A t \in Tags : replicas'[t] = "one" => replicas[t] = "one"
         /\ pc = "writing" => DOMAIN object \subseteq DOMAIN object'
<1>1. CASE Begin \/ WriteFails \/ Finish \/ DeleteSelf
  <2>1. UNCHANGED <<object, replicas>>
    BY <1>1 DEF Begin, WriteFails, Finish, DeleteSelf, cluster
  <2>. QED BY <2>1
<1>2. CASE Finalize
  <2>1. /\ pc = "idle" /\ replicas' = [t \in Tags |-> "none"]
        /\ object' = Without(object, DOMAIN object \ {"ServiceLevel"})
    BY <1>2 DEF Finalize
  <2>2. DOMAIN object' = DOMAIN object \ (DOMAIN object \ {"ServiceLevel"})
    BY <2>1, WithoutDomain
  <2>. QED BY <2>1, <2>2
<1>3. CASE CreateManager \/ RemoveManager
  <2>1. UNCHANGED <<object, replicas>>
    BY <1>3 DEF CreateManager, RemoveManager, cluster
  <2>. QED BY <2>1
<1>4. ASSUME NEW kind \in Ignorable, Ignore(kind)
      PROVE  UNCHANGED replicas /\ DOMAIN object' = DOMAIN object
  BY <1>4 DEF Ignore
<1>5. ASSUME NEW t \in Tags, CreateRevision(t) \/ EditRevision(t) \/ StartPod(t) \/ RestartPod(t)
      PROVE  UNCHANGED <<object, replicas>>
  BY <1>5 DEF CreateRevision, EditRevision, SetRevision, StartPod, RestartPod, cluster
<1>6. CASE UNCHANGED vars
  BY <1>6 DEF vars
<1>. QED BY <1>1, <1>2, <1>3, <1>4, <1>5, <1>6 DEF Next

\* A write that deletes the waypoint, or gives a revision its replicas.
LEMMA WritesGuarded ==
  ASSUME TypeInv, MeshInv, LeavesLevels, WritesInReconciles, Write
  PROVE  /\ pc = "writing" /\ Has("Gateway") /\ ~Has("Gateway")' => NoAmbient
         /\ ~UNCHANGED replicas =>
              /\ Has("Namespace")
              /\ object["Namespace"].ignored \/ Injecting(object["Namespace"].content)
<1> DEFINE w == Head(todo)
<1>1. todo # <<>> /\ object' = Effect(object, w) /\ Scaled(w)
  BY DEF Write
<1>2. 1 \in DOMAIN todo /\ w = todo[1]
  BY <1>1, TailRests DEF TypeInv, WritesOK
<1>3. w \in Scales \/ Writes(w)
  BY <1>2 DEF TypeInv, WritesOK
<1>. HIDE DEF w
<1>4. ASSUME pc = "writing", Has("Gateway"), ~Has("Gateway")' PROVE NoAmbient
  <2>1. w.kind = "Gateway" /\ w.op \in {"delete", "labelled"}
    BY <1>1, <1>3, <1>4, EffectOf DEF Has
  <2>2. w.op = "delete"
    BY <1>3, <2>1 DEF Scales, ScaleTo, Writes
  <2>. QED BY <1>2, <1>4, <2>1, <2>2 DEF MeshInv, WaypointGuarded
<1>5. ASSUME ~UNCHANGED replicas
      PROVE  /\ Has("Namespace")
             /\ object["Namespace"].ignored \/ Injecting(object["Namespace"].content)
  <2>1. w.op = "scale"
    BY <1>1, <1>5 DEF Scaled
  <2>2. w.kind = "ReplicaSet"
    BY <1>3, <2>1 DEF Scales, ScaleTo, Writes
  <2>3. pc # "leaving"
    BY <1>2, <2>2 DEF LeavesLevels
  <2>4. pc = "writing"
    BY <1>1, <2>3 DEF WritesInReconciles, TypeInv, TypeOK
  <2>. QED BY <1>1, <1>2, <2>2, <2>4 DEF MeshInv, NamespaceFirst
<1>. QED BY <1>4, <1>5

\* A reconcile removes the waypoint only when none of the revisions it knows is ambient
\* and has replicas; for every set of revisions, whatever their targets ask for.
THEOREM WaypointOutlivesAmbient == Spec => WaypointKept
<1>1. IInv /\ TypeInv /\ MeshInv /\ LeavesLevels /\ [Next]_vars =>
        (pc = "writing" /\ Has("Gateway") /\ ~Has("Gateway")' =>
           \A t \in DOMAIN inc : inc[t].rev /\ config[t].ambient => replicas[t] # "one")
  <2> SUFFICES ASSUME IInv, TypeInv, MeshInv, LeavesLevels, [Next]_vars, pc = "writing",
                      Has("Gateway"), ~Has("Gateway")'
               PROVE  \A t \in DOMAIN inc :
                        inc[t].rev /\ config[t].ambient => replicas[t] # "one"
    OBVIOUS
  <2>1. Write
    BY OnlyWrites DEF Has
  <2>2. NoAmbient
    BY <2>1, WritesGuarded DEF IInv
  <2>. QED BY <2>2 DEF NoAmbient
<1>. QED BY Invariance, TypeInvariance, MeshInvariance, <1>1, PTL DEF Spec, WaypointKept

\* When a reconcile gives the newest revision replicas, and its target has a sidecar,
\* the namespace injects it; for every set of revisions, whatever their targets ask for.
THEOREM NewestIsInjected == Spec => NewestInjected
<1>1. IInv /\ TypeInv /\ MeshInv /\ LeavesLevels /\ [Next]_vars =>
        \A t \in DOMAIN inc :
          /\ replicas[t] # "one" /\ replicas'[t] = "one"
          /\ t = Newest(inc) /\ ~config[t].ambient /\ ~object["Namespace"].ignored
          => object["Namespace"].content.injection
  <2> SUFFICES ASSUME IInv, TypeInv, MeshInv, LeavesLevels, [Next]_vars, NEW t \in DOMAIN inc,
                      replicas[t] # "one", replicas'[t] = "one", t = Newest(inc),
                      ~config[t].ambient, ~object["Namespace"].ignored
               PROVE  object["Namespace"].content.injection
    OBVIOUS
  <2>1. t \in Tags
    BY DEF TypeInv, IsPartial
  <2>2. Write
    BY <2>1, OnlyWrites
  <2>3. object["Namespace"].ignored \/ Injecting(object["Namespace"].content)
    BY <2>2, WritesGuarded DEF IInv
  <2>. QED BY <2>3 DEF Injecting
<1>. QED BY Invariance, TypeInvariance, MeshInvariance, <1>1, PTL DEF Spec, NewestInjected
-----------------------------------------------------------------------------
(* The order of the incarnations.                                          *)

\* The order of the collection decides between any two incarnations.
LEMMA BeforeTotal ==
  ASSUME NEW i, IsPartial(i, Tags, Incarnation), NEW group \in [DOMAIN i -> Int],
         NEW t \in DOMAIN i, NEW u \in DOMAIN i, t # u
  PROVE  /\ Before(i, group, t, u) \/ Before(i, group, u, t)
         /\ ~(Before(i, group, t, u) /\ Before(i, group, u, t))
<1>1. i[t].rev \in BOOLEAN /\ i[u].rev \in BOOLEAN
  BY DEF IsPartial, Incarnation
<1>2. t \in Nat /\ u \in Nat
  BY TagsFinite DEF IsPartial
<1>3. /\ Newer(i, t, u) \/ Newer(i, u, t)
      /\ ~(Newer(i, t, u) /\ Newer(i, u, t))
  <2>1. CASE i[t].rev = i[u].rev
    BY <1>2, <2>1 DEF Newer
  <2>2. CASE i[t].rev # i[u].rev
    BY <1>1, <2>2 DEF Newer
  <2>. QED BY <2>1, <2>2
<1>4. group[t] \in Int /\ group[u] \in Int
  OBVIOUS
<1>. QED BY <1>3, <1>4 DEF Before

\* It is transitive.
LEMMA BeforeTransitive ==
  ASSUME NEW i, IsPartial(i, Tags, Incarnation), NEW group \in [DOMAIN i -> Int],
         NEW t \in DOMAIN i, NEW u \in DOMAIN i, NEW v \in DOMAIN i,
         Before(i, group, t, u), Before(i, group, u, v)
  PROVE  Before(i, group, t, v)
<1>1. i[t].rev \in BOOLEAN /\ i[u].rev \in BOOLEAN /\ i[v].rev \in BOOLEAN
  BY DEF IsPartial, Incarnation
<1>2. t \in Nat /\ u \in Nat /\ v \in Nat
  BY TagsFinite DEF IsPartial
<1>3. Newer(i, t, u) /\ Newer(i, u, v) => Newer(i, t, v)
  <2>1. CASE i[t].rev = i[v].rev /\ i[t].rev = i[u].rev
    BY <1>2, <2>1 DEF Newer
  <2>2. CASE ~(i[t].rev = i[v].rev /\ i[t].rev = i[u].rev)
    BY <1>1, <2>2 DEF Newer
  <2>. QED BY <2>1, <2>2
<1>4. group[t] \in Int /\ group[u] \in Int /\ group[v] \in Int
  OBVIOUS
<1>. QED BY <1>3, <1>4 DEF Before

\* The pairs in order, from the first or from the last.
Forward(i, group, S)  == {p \in S \X S : Before(i, group, p[1], p[2])}
Backward(i, group, S) == {p \in S \X S : Before(i, group, p[2], p[1])}

\* Either way they sort any of the incarnations.
LEMMA BeforeSorts ==
  ASSUME NEW i, IsPartial(i, Tags, Incarnation), NEW group \in [DOMAIN i -> Int],
         NEW S \in SUBSET DOMAIN i
  PROVE  Sorts(Forward(i, group, S), S) /\ Sorts(Backward(i, group, S), S)
<1>1. \A t, u \in S : /\ <<t, u>> \in Forward(i, group, S) <=> Before(i, group, t, u)
                      /\ <<t, u>> \in Backward(i, group, S) <=> Before(i, group, u, t)
  BY DEF Forward, Backward
<1>2. \A t, u \in S : t = u \/ Before(i, group, t, u) \/ Before(i, group, u, t)
  BY BeforeTotal
<1>3. \A t, u, v \in S :
        Before(i, group, t, u) /\ Before(i, group, u, v) => Before(i, group, t, v)
  BY BeforeTransitive
<1>. QED BY <1>1, <1>2, <1>3 DEF Sorts

\* There is a list of any of the incarnations, and among them one that is the first.
LEMMA OrdersOf ==
  ASSUME NEW i, IsPartial(i, Tags, Incarnation), NEW group \in [DOMAIN i -> Int],
         NEW S \in SUBSET DOMAIN i
  PROVE  /\ Orders(i, group, S) # {}
         /\ S # {} => \E t \in S : First(i, group, S) = {t}
<1>1. IsFiniteSet(S)
  <2>1. S \in SUBSET Tags
    BY DEF IsPartial
  <2>. QED BY <2>1, TagsFinite
<1>2. Orders(i, group, S) # {}
  <2>1. PICK order : ListedBy(Forward(i, group, S), S, order)
    BY <1>1, BeforeSorts, OrderExists
  <2>2. order \in SetToSeqs(S) /\ DOMAIN order = 1 .. Cardinality(S)
    BY <2>1 DEF ListedBy, SetToSeqs
  <2>3. \A m, n \in DOMAIN order : m < n => Before(i, group, order[m], order[n])
    BY <2>1, <2>2 DEF ListedBy, Forward
  <2>. QED BY <2>2, <2>3 DEF Orders
<1>3. ASSUME S # {} PROVE \E t \in S : First(i, group, S) = {t}
  <2>1. PICK t : IsLast(Backward(i, group, S), S, t)
    BY <1>1, <1>3, BeforeSorts, LastExists
  <2>2. t \in S /\ \A u \in S \ {t} : Before(i, group, t, u)
    BY <2>1 DEF IsLast, Backward
  <2>3. \A u \in S \ {t} : ~Before(i, group, u, t)
    BY <2>2, BeforeTotal
  <2>. QED BY <2>2, <2>3 DEF First
<1>. QED BY <1>2, <1>3

\* What Begin needs: lists of the incarnations, sorted and releasable, and a newest one.
BeginFinds ==
  /\ Sorted(Current) # {} /\ Releasable(Ticked(Current)) # {}
  /\ DOMAIN Current # {} =>
       \E t \in DOMAIN Current : First(Current, OneGroup(Current), DOMAIN Current) = {t}

\* A reconcile can always begin: whatever is known of the revisions, the collection has
\* an order for them, and one is the newest.
THEOREM AlwaysBeginFinds == Spec => []BeginFinds
<1>1. TypeInv => BeginFinds
  <2> SUFFICES ASSUME TypeInv PROVE BeginFinds
    OBVIOUS
  <2> DEFINE i == Current
             j == Ticked(i)
  <2>1. IsPartial(i, Tags, Incarnation)
    BY CurrentType
  <2>. HIDE DEF i
  <2>2. IsPartial(j, Tags, Incarnation)
    BY <2>1, TickedType
  <2>. HIDE DEF j
  <2>3. OneGroup(i) \in [DOMAIN i -> Int] /\ DOMAIN i \in SUBSET DOMAIN i
    BY DEF OneGroup
  <2>4. Groups(j) \in [DOMAIN j -> Int] /\ ReleasableSet(j) \in SUBSET DOMAIN j
    BY DEF Groups, Group, ReleasableSet
  <2>5. Sorted(i) # {}
    BY <2>1, <2>3, OrdersOf DEF Sorted
  <2>6. Releasable(j) # {}
    BY <2>2, <2>4, OrdersOf DEF Releasable
  <2>7. DOMAIN i # {} => \E t \in DOMAIN i : First(i, OneGroup(i), DOMAIN i) = {t}
    BY <2>1, <2>3, OrdersOf
  <2>. QED BY <2>5, <2>6, <2>7 DEF BeginFinds, i, j
<1>. QED BY TypeInvariance, <1>1, PTL
-----------------------------------------------------------------------------
(* The routes.                                                             *)

\* Two ports of an app have different names, numbers and hosts, although they come from
\* different targets: of those of a name only the first incarnation's is taken.
LEMMA AppIsGood ==
  ASSUME PortsApart, TypeOK, NEW i, IsPartial(i, Tags, Incarnation)
  PROVE  GoodApp(App(i))
<1> DEFINE earlier(t) == {u \in AppIncarnations(i) \ {t} : Before(i, AppGroups(i), u, t)}
           from(t) == {p \in config[t].ports :
                         \A u \in earlier(t) : \A q \in config[u].ports : q.name # p.name}
<1>1. Ports(i) = UNION {from(t) : t \in AppIncarnations(i)}
  BY DEF Ports
<1>2. AppIncarnations(i) \subseteq DOMAIN i /\ DOMAIN i \subseteq Tags
  BY DEF AppIncarnations, In, IsPartial
<1>3. config \in Configs /\ \A t \in Tags : config[t].ports \subseteq PortInfo
  BY DEF TypeOK, Config
<1>4. Ports(i) \subseteq PortInfo
  BY <1>1, <1>2, <1>3
<1>5. ASSUME NEW p \in Ports(i), NEW q \in Ports(i), p # q PROVE IsApart(p, q)
  <2>1. PICK t \in AppIncarnations(i) : p \in from(t)
    BY <1>1
  <2>2. PICK u \in AppIncarnations(i) : q \in from(u)
    BY <1>1
  <2>3. p \in config[t].ports /\ q \in config[u].ports /\ t \in Tags /\ u \in Tags
    BY <1>2, <2>1, <2>2
  <2>4. p.name # q.name
    <3>1. CASE t = u
      BY <1>3, <1>5, <2>3, <3>1 DEF PortsApart
    <3>2. CASE t # u
      <4>1. AppGroups(i) \in [DOMAIN i -> Int]
        BY DEF AppGroups
      <4>2. Before(i, AppGroups(i), t, u) \/ Before(i, AppGroups(i), u, t)
        BY <1>2, <3>2, <4>1, BeforeTotal
      <4>. QED BY <2>1, <2>2, <2>3, <3>2, <4>2
    <3>. QED BY <3>1, <3>2
  <2>. QED BY <1>3, <2>3, <2>4 DEF PortsApart, IsApart
<1>6. App(i).tagged \subseteq Tags
  BY <1>2 DEF App, Deployments, ReleasableSet, In
<1>7. App(i).ports = Ports(i)
  BY DEF App
<1>. QED BY <1>4, <1>5, <1>6, <1>7 DEF GoodApp

\* A port takes a request: from the mesh by its number, from an ingress by a host.
Takes(app, p, request) ==
  \E m \in PortMatches(app, p) :
    m.gateway = request.gateway /\ m.port = request.port /\ request.host \in m.hosts

\* No two ports of an app take the same request.
LEMMA OnePortTakes ==
  ASSUME NEW app, GoodApp(app), NEW request, NEW p \in app.ports, NEW q \in app.ports,
         Takes(app, p, request), Takes(app, q, request)
  PROVE  p = q
<1> SUFFICES ASSUME p # q PROVE FALSE
  OBVIOUS
<1>1. IsApart(p, q) /\ p \in PortInfo /\ q \in PortInfo
  BY DEF GoodApp
<1>2. ASSUME NEW r \in PortInfo, Takes(app, r, request)
      PROVE  IF request.gateway = "mesh" THEN request.port = r.number
             ELSE request.host \in IngressHosts(app, r, request.gateway)
  <2>1. PICK m \in PortMatches(app, r) :
          m.gateway = request.gateway /\ m.port = request.port /\ request.host \in m.hosts
    BY <1>2 DEF Takes
  <2>2. CASE m = [gateway |-> "mesh", port |-> r.number, hosts |-> {ServiceHost}]
    BY <2>1, <2>2
  <2>3. CASE m # [gateway |-> "mesh", port |-> r.number, hosts |-> {ServiceHost}]
    <3>1. PICK x \in r.ingresses, n \in IF r.ingressPort = 443 THEN {443, 80} ELSE {r.ingressPort} :
            m = [gateway |-> x, port |-> n, hosts |-> IngressHosts(app, r, x)]
      BY <2>1, <2>3 DEF PortMatches
    <3>2. x \in Ingresses
      BY <1>2 DEF PortInfo
    <3>3. m.gateway = x /\ m.hosts = IngressHosts(app, r, x) /\ x # "mesh"
      BY <3>1, <3>2, RoutingAssumption
    <3>. QED BY <2>1, <3>3
  <2>. QED BY <2>2, <2>3
<1>3. CASE request.gateway = "mesh"
  BY <1>1, <1>2, <1>3 DEF IsApart
<1>4. CASE request.gateway # "mesh"
  <2> DEFINE g == request.gateway
             h == request.host
  <2>1. h \in IngressHosts(app, p, g) /\ h \in IngressHosts(app, q, g)
    BY <1>1, <1>2, <1>4
  <2>2. /\ h \in p.hosts \/ (app.defaults[g] = p.name /\ ~IsUserDefined(app, h))
        /\ h \in q.hosts \/ (app.defaults[g] = q.name /\ ~IsUserDefined(app, h))
    BY <2>1 DEF IngressHosts
  <2>3. h \in p.hosts \/ h \in q.hosts => IsUserDefined(app, h)
    BY DEF IsUserDefined
  <2>. QED BY <1>1, <2>2, <2>3 DEF IsApart
<1>. QED BY <1>3, <1>4

\* A route of an app: a developer's, a tag's or the release's.
LEMMA RouteIs ==
  ASSUME NEW app, NEW r \in Routes(app)
  PROVE  \/ r = DevRoute
         \/ \E t \in app.tagged, p \in app.ports :
              /\ r.class = 1 /\ r.header = t /\ DOMAIN r.to = {t}
              /\ r.port = p.number /\ r.matches = PortMatches(app, p)
         \/ \E p \in app.ports :
              /\ r.class = 2 /\ r.header = AnyHeader
              /\ r.port = p.number /\ r.matches = PortMatches(app, p)
<1>1. CASE r \in DevRoutes
  BY <1>1 DEF DevRoutes
<1>2. CASE r \in TaggedRoutes(app)
  <2> DEFINE route(t, p) == Route(1, t, app, p, [u \in {t} |-> 100])
  <2>1. TaggedRoutes(app) = {route(t, p) : t \in app.tagged, p \in app.ports}
    BY DEF TaggedRoutes
  <2>2. \A t, p : /\ route(t, p).class = 1 /\ route(t, p).header = t
                 /\ DOMAIN route(t, p).to = {t} /\ route(t, p).port = p.number
                 /\ route(t, p).matches = PortMatches(app, p)
    BY DEF Route
  <2>. HIDE DEF route
  <2>3. PICK t \in app.tagged, p \in app.ports : r = route(t, p)
    BY <1>2, <2>1
  <2>. QED BY <2>2, <2>3
<1>3. CASE r \in ReleaseRoutes(app)
  <2>1. PICK p \in app.ports :
          r = Route(2, AnyHeader, app, p, [t \in Weighted(app) |-> app.weights[t]])
    BY <1>3 DEF ReleaseRoutes
  <2>. QED BY <2>1 DEF Route
<1>. QED BY <1>1, <1>2, <1>3 DEF Routes

\* A request lands on one port, and one that names a tag on that tag.
LEMMA RequestLands ==
  ASSUME NEW app, GoodApp(app), NEW request
  PROVE  /\ Cardinality({r.port : r \in Taking(Routes(app), request)}) <= 1
         /\ request.header \in app.tagged =>
              \A r \in Taking(Routes(app), request) : DOMAIN r.to = {request.header}
<1> DEFINE matching == Matching(Routes(app), request)
           taking == Taking(Routes(app), request)
<1>1. taking = {r \in matching : \A s \in matching : r.class <= s.class}
  BY DEF Taking
<1>2. ASSUME NEW r \in matching
      PROVE  /\ r \in Routes(app) /\ r.header \in {AnyHeader, request.header}
             /\ r # DevRoute => \E m \in r.matches : /\ m.gateway = request.gateway
                                                     /\ m.port = request.port
                                                     /\ request.host \in m.hosts
  BY DEF Matching
<1>3. DevRoute.class = 0 /\ DevRoute.header = -1
  BY DEF DevRoute, DevHeader
<1>. HIDE DEF matching, taking
<1>4. ASSUME NEW r \in matching, r # DevRoute
      PROVE  /\ r.class \in {1, 2}
             /\ \E p \in app.ports : r.port = p.number /\ Takes(app, p, request)
  BY <1>2, <1>4, RouteIs DEF Takes
<1>5. \A r, s \in taking : r.port = s.port
  <2> SUFFICES ASSUME NEW r \in taking, NEW s \in taking PROVE r.port = s.port
    OBVIOUS
  <2>1. r \in matching /\ s \in matching /\ r.class <= s.class /\ s.class <= r.class
    BY <1>1
  <2>2. CASE r = DevRoute \/ s = DevRoute
    <3>1. r = DevRoute /\ s = DevRoute
      <4>1. CASE r = DevRoute /\ s # DevRoute
        <5>1. s.class \in {1, 2} /\ r.class = 0 /\ s.class <= r.class
          BY <1>3, <1>4, <2>1, <4>1
        <5>. QED BY <5>1
      <4>2. CASE s = DevRoute /\ r # DevRoute
        <5>1. r.class \in {1, 2} /\ s.class = 0 /\ r.class <= s.class
          BY <1>3, <1>4, <2>1, <4>2
        <5>. QED BY <5>1
      <4>. QED BY <2>2, <4>1, <4>2
    <3>. QED BY <3>1
  <2>3. CASE r # DevRoute /\ s # DevRoute
    <3>1. PICK p \in app.ports : r.port = p.number /\ Takes(app, p, request)
      BY <1>4, <2>1, <2>3
    <3>2. PICK q \in app.ports : s.port = q.number /\ Takes(app, q, request)
      BY <1>4, <2>1, <2>3
    <3>3. p = q
      BY <3>1, <3>2, OnePortTakes
    <3>. QED BY <3>1, <3>2, <3>3
  <2>. QED BY <2>2, <2>3
<1>6. Cardinality({r.port : r \in taking}) <= 1
  <2>1. CASE taking = {}
    <3>1. {r.port : r \in taking} = {}
      BY <2>1
    <3>. QED BY <3>1, FS_EmptySet
  <2>2. CASE taking # {}
    <3>1. PICK r \in taking : TRUE
      BY <2>2
    <3>2. {s.port : s \in taking} = {r.port}
      BY <1>5, <3>1
    <3>3. Cardinality({r.port}) = 1
      BY FS_Singleton
    <3>. QED BY <3>2, <3>3
  <2>. QED BY <2>1, <2>2
<1>7. ASSUME request.header \in app.tagged, NEW r \in taking PROVE DOMAIN r.to = {request.header}
  <2>1. r \in matching /\ \A s \in matching : r.class <= s.class
    BY <1>1
  <2>2. request.header \in Nat /\ request.header # 0
    BY <1>7, TagsFinite DEF GoodApp
  <2>3. r # DevRoute
    BY <1>2, <1>3, <2>1, <2>2 DEF AnyHeader
  <2>4. CASE r.class = 1
    <3>1. PICK t \in app.tagged : r.header = t /\ DOMAIN r.to = {t}
      BY <1>2, <2>1, <2>3, <2>4, RouteIs
    <3>2. t \in Nat /\ t # 0
      BY TagsFinite DEF GoodApp
    <3>. QED BY <1>2, <2>1, <3>1, <3>2 DEF AnyHeader
  <2>5. CASE r.class = 2
    <3>1. PICK p \in app.ports : r.matches = PortMatches(app, p)
      BY <1>2, <2>1, <2>3, <2>5, RouteIs
    <3> DEFINE s == Route(1, request.header, app, p, [u \in {request.header} |-> 100])
    <3>2. s \in Routes(app)
      BY <1>7 DEF Routes, TaggedRoutes
    <3>3. s.class = 1 /\ s.header = request.header /\ s.matches = PortMatches(app, p)
      BY DEF Route
    <3>. HIDE DEF s
    <3>4. s \in matching
      BY <1>2, <2>1, <2>3, <3>1, <3>2, <3>3 DEF matching, Matching
    <3>5. 2 <= 1
      BY <2>1, <2>5, <3>3, <3>4
    <3>. QED BY <3>5
  <2>. QED BY <1>4, <2>1, <2>3, <2>4, <2>5
<1>. QED BY <1>6, <1>7 DEF taking

\* The apps of the routes, written and to be written, stay good.
LEMMA InitRoutes == Init => RoutesOK
<1> SUFFICES ASSUME Init PROVE RoutesOK
  OBVIOUS
<1>1. DOMAIN object = {} /\ DOMAIN todo = {}
  BY DEF Init
<1>. QED BY <1>1 DEF RoutesOK, Has

\* A reconcile builds the routes of the app that it prepared.
LEMMA BeginRoutes ==
  ASSUME PortsApart, TypeInv, RoutesOK, Begin
  PROVE  RoutesOK'
<1>1. object' = object
  BY DEF Begin, cluster
<1> DEFINE s == todo'
<1>2. PICK j : IsPartial(j, Tags, Incarnation) /\ (Planned(Current, j, s) \/ AllLater(j, s))
  BY Begins
<1>3. GoodApp(App(j))
  BY <1>2, AppIsGood DEF TypeInv
<1>4. ASSUME NEW n \in DOMAIN s, s[n].kind = "VirtualService" PROVE s[n].content = App(j)
  <2>1. IsLater(j, s[n])
    <3>1. CASE Planned(Current, j, s)
      <4>1. DOMAIN s = 1 .. Len(s) /\ Len(s) \in Nat
        BY <3>1, OwnElements DEF Planned
      <4>2. n # 1
        BY <1>4, <3>1 DEF Planned, Put
      <4>3. n \notin 2 .. 5
        BY <1>4, <3>1 DEF Planned, WaypointKinds
      <4>4. n > 5
        BY <4>1, <4>2, <4>3
      <4>. QED BY <3>1, <4>4 DEF Planned
    <3>2. CASE AllLater(j, s)
      BY <3>2 DEF AllLater
    <3>. QED BY <1>2, <3>1, <3>2
  <2>. QED BY <1>4, <2>1 DEF IsLater, Scales, ScaleTo
<1>. QED BY <1>1, <1>3, <1>4 DEF RoutesOK, Has

\* A write puts the routes that were built, or leaves the ones there are.
LEMMA WriteRoutes ==
  ASSUME TypeInv, RoutesOK, Write
  PROVE  RoutesOK'
<1> DEFINE w == Head(todo)
<1>1. todo # <<>> /\ object' = Effect(object, w) /\ todo' = Tail(todo)
  BY DEF Write
<1>2. 1 \in DOMAIN todo /\ w = todo[1] /\ Rests(todo, todo')
  BY <1>1, TailRests DEF TypeInv, WritesOK
<1>3. w \in Scales \/ Writes(w)
  BY <1>2 DEF TypeInv, WritesOK
<1>. HIDE DEF w
<1>4. \A n \in DOMAIN todo' : todo'[n].kind = "VirtualService" => GoodApp(todo'[n].content)
  BY <1>2 DEF RoutesOK, Rests
<1>5. ASSUME "VirtualService" \in DOMAIN object'
      PROVE  GoodApp(object'["VirtualService"].content)
  <2>1. CASE w.kind = "VirtualService"
    <3>1. w.op = "put" /\ GoodApp(w.content)
      BY <1>2, <1>3, <2>1 DEF RoutesOK, Writes, Scales, ScaleTo
    <3>2. \/ object'["VirtualService"] = [content |-> w.content, ignored |-> FALSE]
          \/ /\ "VirtualService" \in DOMAIN object
             /\ object'["VirtualService"] = object["VirtualService"]
      BY <1>1, <1>3, <2>1, <3>1, EffectOf
    <3>. QED BY <3>1, <3>2 DEF RoutesOK, Has
  <2>2. CASE w.kind # "VirtualService"
    <3>1. /\ "VirtualService" \in DOMAIN object
          /\ object'["VirtualService"] = object["VirtualService"]
      <4>1. \A k : k # w.kind =>
              /\ k \in DOMAIN object' <=> k \in DOMAIN object
              /\ k \in DOMAIN object => object'[k] = object[k]
        BY <1>1, <1>3, EffectOf
      <4>. QED BY <1>5, <2>2, <4>1
    <3>. QED BY <3>1 DEF RoutesOK, Has
  <2>. QED BY <2>1, <2>2
<1>. QED BY <1>4, <1>5 DEF RoutesOK, Has

\* Nobody else writes routes; the finalizer takes them along.
LEMMA OtherRoutes ==
  ASSUME TypeInv, RoutesOK, [Next]_vars, ~Begin, ~Write
  PROVE  RoutesOK'
<1>1. CASE WriteFails
  <2>1. todo # <<>> /\ object' = object
    BY <1>1 DEF WriteFails, cluster
  <2>2. \/ todo' = <<>>
        \/ todo' = AfterSyncApp(Tail(todo))
    BY <1>1 DEF WriteFails
  <2>3. CASE todo' = <<>>
    <3>1. DOMAIN todo' = {}
      BY <2>3
    <3>. QED BY <2>1, <3>1 DEF RoutesOK, Has
  <2>4. CASE todo' = AfterSyncApp(Tail(todo))
    <3>1. Rests(todo, todo')
      BY <2>1, <2>4, TailRests DEF TypeInv, WritesOK
    <3>. QED BY <2>1, <3>1 DEF RoutesOK, Has, Rests
  <2>. QED BY <2>2, <2>3, <2>4
<1>2. CASE Finish \/ DeleteSelf \/ CreateManager \/ RemoveManager
  <2>1. UNCHANGED <<object, todo>>
    BY <1>2 DEF Finish, DeleteSelf, CreateManager, RemoveManager, cluster
  <2>. QED BY <2>1 DEF RoutesOK, Has
<1>3. CASE Finalize
  <2>1. /\ object' = Without(object, DOMAIN object \ {"ServiceLevel"})
        /\ UNCHANGED todo
    BY <1>3 DEF Finalize
  <2>2. DOMAIN object' = DOMAIN object \ (DOMAIN object \ {"ServiceLevel"})
    BY <2>1, WithoutDomain
  <2>3. "VirtualService" \notin DOMAIN object'
    BY <2>2
  <2>. QED BY <2>1, <2>3 DEF RoutesOK, Has
<1>4. ASSUME NEW kind \in Ignorable, Ignore(kind) PROVE RoutesOK'
  <2>1. object' = [object EXCEPT ![kind].ignored = TRUE] /\ UNCHANGED todo
    BY <1>4 DEF Ignore, reconcile
  <2>2. "VirtualService" \in DOMAIN object' =>
          /\ "VirtualService" \in DOMAIN object
          /\ object'["VirtualService"].content = object["VirtualService"].content
    BY <2>1
  <2>. QED BY <2>1, <2>2 DEF RoutesOK, Has
<1>5. ASSUME NEW t \in Tags, CreateRevision(t) \/ EditRevision(t) \/ StartPod(t) \/ RestartPod(t)
      PROVE  RoutesOK'
  <2>1. UNCHANGED <<object, todo>>
    BY <1>5 DEF CreateRevision, EditRevision, SetRevision, StartPod, RestartPod, cluster, reconcile
  <2>. QED BY <2>1 DEF RoutesOK, Has
<1>6. CASE UNCHANGED vars
  BY <1>6 DEF RoutesOK, Has, vars
<1>. QED BY <1>1, <1>2, <1>3, <1>4, <1>5, <1>6 DEF Next

\* A new VirtualService settles what happens to a request: it lands on one port, and one
\* that names a routable tag on that tag; for every set of revisions, and all targets
\* that agree on their ports.
THEOREM RequestsAlwaysLand ==
  ASSUME PortsApart
  PROVE  Spec => RequestsLand
<1>1. TypeInv /\ RoutesOK /\ [Next]_vars => RoutesOK'
  BY BeginRoutes, WriteRoutes, OtherRoutes
<1>2. Spec => []RoutesOK
  BY InitRoutes, TypeInvariance, <1>1, PTL DEF Spec
<1>3. RoutesOK' =>
        (/\ Has("VirtualService")'
         /\ Has("VirtualService") => object'["VirtualService"] # object["VirtualService"]
         => \A app \in {object'["VirtualService"].content} : \A routes \in {Routes(app)} :
              \A request \in Requests(Tags, app.ports) :
                \A taking \in {Taking(routes, request)} :
                  /\ Cardinality({r.port : r \in taking}) <= 1
                  /\ request.header \in app.tagged =>
                       \A r \in taking : DOMAIN r.to = {request.header})
  <2> SUFFICES ASSUME RoutesOK', Has("VirtualService")',
                      NEW request
               PROVE  LET app == object'["VirtualService"].content
                          taking == Taking(Routes(app), request)
                      IN  /\ Cardinality({r.port : r \in taking}) <= 1
                          /\ request.header \in app.tagged =>
                               \A r \in taking : DOMAIN r.to = {request.header}
    OBVIOUS
  <2>1. GoodApp(object'["VirtualService"].content)
    BY DEF RoutesOK
  <2>. QED BY <2>1, RequestLands
<1>. QED BY <1>2, <1>3, PTL DEF RequestsLand
-----------------------------------------------------------------------------
(* What is left.                                                           *)

\* A ServiceLevel is written only where there is a namespace for them.
LEMMA LevelWanted == Spec => [](~ServiceLevels => NoLevel)
<1>1. Init => (~ServiceLevels => NoLevel)
  <2>1. Init => DOMAIN object = {}
    BY DEF Init
  <2>. QED BY <2>1 DEF NoLevel
<1>2. TypeInv /\ (~ServiceLevels => NoLevel) /\ [Next]_vars => (~ServiceLevels => NoLevel)'
  <2> SUFFICES ASSUME TypeInv, ~ServiceLevels, NoLevel, [Next]_vars PROVE NoLevel'
    OBVIOUS
  <2>1. CASE Write
    <3> DEFINE w == Head(todo)
    <3>1. todo # <<>> /\ object' = Effect(object, w)
      BY <2>1 DEF Write
    <3>2. w \in Scales \/ Writes(w)
      BY <3>1, TailRests DEF TypeInv, WritesOK
    <3>. HIDE DEF w
    <3>3. \/ DOMAIN object' = DOMAIN object
          \/ DOMAIN object' \subseteq DOMAIN object \cup {w.kind} /\ w.kind # "ServiceLevel"
      BY <3>1, <3>2, EffectOf DEF Writes
    <3>. QED BY <3>3 DEF NoLevel
  <2>2. CASE ~Write
    BY <2>2, OnlyWrites DEF NoLevel
  <2>. QED BY <2>1, <2>2
<1>. QED BY <1>1, <1>2, TypeInvariance, PTL DEF Spec

\* A manager that is gone has left nothing, but the ServiceLevel if a user removed it;
\* for every set of revisions and every target, wherever service levels are written.
THEOREM GoneLeavesNothing == Spec => []NothingLeft
<1>1. IInv /\ (~ServiceLevels => NoLevel) => NothingLeft
  BY DEF IInv, OnlyLevelLeft, NothingLeft, NoLevel
<1>. QED BY Invariance, LevelWanted, <1>1, PTL
=============================================================================
