------------------------- MODULE AutoscalingProofs -------------------------
(***************************************************************************)
(* What holds of the objects of a revision with any number of clusters,    *)
(* any scaling factors, strategies and autoscalers, whatever fails.        *)
(*                                                                         *)
(* Typed says which orders a plan is made of.  On top of it three          *)
(* invariants say what a reconcile still has to write when it is           *)
(* interrupted: Forgotten of a revision that is deleted, Stopped of one    *)
(* that is retired, Alone and Accepts of its autoscaler.                   *)
(***************************************************************************)
EXTENDS Autoscaling, Sums, TrafficSplitProofs, TLAPS, SequenceTheorems

USE DEF Then, To
-----------------------------------------------------------------------------
Bound  == [min : Nat, max : Nat, paused : BOOLEAN]
RS     == {r \in [replicas : Nat, ready : Nat, hold : BOOLEAN] : r.ready <= r.replicas}
\* The kinds whose content no property looks at.
PlainKinds == TaggedKinds \ (AutoscalerKinds \cup {"ReplicaSet"})

\* The writes that plans are made of.
Orders ==
  [op : {"put"}, kind : PlainKinds, content : {Plain}]
    \cup [op : {"put"}, kind : AutoscalerKinds, content : Bound]
    \cup [op : {"delete"}, kind : TaggedKinds]
    \cup [op : {"replicas"}, desired : Nat, hold : BOOLEAN, scaler : ScalerKinds]
    \cup {Zero}

\* What a cluster can hold of the revision.
Objects(o) ==
  /\ DOMAIN o \subseteq TaggedKinds
  /\ \A k \in AutoscalerKinds \cap DOMAIN o : o[k] \in Bound
  /\ Has(o, "ReplicaSet") => o["ReplicaSet"] \in RS

\* The members of a sequence.
Members(s) == {s[n] : n \in 1 .. Len(s)}

\* The writes that cluster c still gets.
Rest(c) == Members(todo[c])

\* The objects, and the writes that are left: none between reconciles, and the
\* replicas are set to zero last (RetireRevision).
Structure ==
  /\ \A c \in Clusters : Objects(object[c])
  /\ todo \in [Clusters -> Seq(Orders)]
  /\ pc = "idle" => \A c \in Clusters : todo[c] = <<>>
  /\ \A c \in Clusters : \A n \in 1 .. Len(todo[c]) : todo[c][n] = Zero => n = Len(todo[c])

\* The types of the module with those of its objects and writes.
Typed == TypeOK /\ Structure

\* A revision that the manager does not know has no object and is in its first
\* state; while one is deleted, each object it has left is still to be deleted.
Forgotten ==
  /\ ~status.known =>
       status.state = "created" /\ \A c \in Clusters : DOMAIN object[c] = {} /\ todo[c] = <<>>
  /\ status.state # "deleted"
  /\ pc = "writing" /\ next = "deleted" =>
       /\ ~revision.present
       /\ \A c \in Clusters :
            /\ \A w \in Rest(c) : w.op = "delete"
            /\ ~broken => \A k \in DOMAIN object[c] : Del(k) \in Rest(c)

\* The states whose handlers retire: nothing may run in them.
Settling == {"retired", "failed"}

\* What is left to do until nothing runs in cluster c: what would start pods goes,
\* and afterwards the replicas.
Down(c) ==
  /\ Has(object[c], "WPA") => Del("WPA") \in Rest(c)
  /\ Has(object[c], "ScaledObject") => Del("ScaledObject") \in Rest(c)
  /\ Has(object[c], "ReplicaSet") /\ Replicated(c).replicas # 0 => Zero \in Rest(c)
  /\ Has(object[c], "WPA") \/ Has(object[c], "ScaledObject") => Zero \in Rest(c)

\* Between reconciles a retired revision has no autoscaler that acts and no replicas;
\* while it is retired, unless a write failed, what is in the way is still to be written.
Stopped ==
  /\ status.state \in Settling => \A c \in Clusters :
       /\ ~Has(object[c], "WPA") /\ ~Has(object[c], "ScaledObject")
       /\ Has(object[c], "ReplicaSet") => Replicated(c).replicas = 0
       /\ \A w \in Rest(c) : w.op \in {"delete", "zero"}
  /\ pc = "writing" /\ next \in Settling => \A c \in Clusters :
       /\ \A w \in Rest(c) : w.op \in {"delete", "zero"}
       /\ ~broken => Down(c)

\* The autoscalers that the plans of a scaler write.
Owns(scaler) ==
  CASE scaler \in {"none", "hpa"}   -> {"HPA"}
    [] scaler = "worker"  -> {"WPA"}
    [] scaler = "keda"    -> {"ScaledObject"}
    [] scaler = "ambient" -> {"HPA", "ScaledObject"}

\* w puts an autoscaler
Scales(w) == w.op = "put" /\ w.kind \in AutoscalerKinds

\* What cluster c has and still gets is the revision's autoscaler, alone.
AloneIn(c) ==
  /\ AutoscalerKinds \cap DOMAIN object[c] \subseteq Owns(revision.scaler)
  /\ ~(Has(object[c], "HPA") /\ Has(object[c], "ScaledObject"))
  /\ \A n \in 1 .. Len(todo[c]) : Scales(todo[c][n]) =>
       /\ todo[c][n].kind \in Owns(revision.scaler)
       /\ revision.scaler = "ambient" =>
            /\ todo[c][n].kind = "ScaledObject"
            /\ ~Has(object[c], "HPA") \/ \E m \in 1 .. n - 1 : todo[c][m] = Del("HPA")

\* In every cluster.
Alone == \A c \in Clusters : AloneIn(c)

\* The API accepts the bounds b.
Accepted(kind, b) ==
  /\ kind = "HPA" => b.min >= 1
  /\ kind \in {"HPA", "ScaledObject"} /\ revision.scaler # "keda" => b.max >= 1 /\ b.min <= b.max

\* The API accepts what cluster c has and still gets.
AcceptsIn(c) ==
  /\ \A k \in AutoscalerKinds \cap DOMAIN object[c] : Accepted(k, object[c][k])
  /\ \A w \in Rest(c) : Scales(w) => Accepted(w.kind, w.content)

\* In every cluster.
Accepts == \A c \in Clusters : AcceptsIn(c)

(***************************************************************************)
(* What two of the theorems assume of the target.  An autoscaler is        *)
(* changed only for one whose plan deletes, or overwrites, what the plan   *)
(* before it wrote: ScaleRevision deletes an HPA before it writes a        *)
(* ScaledObject, and never deletes a ScaledObject or a WPA.                *)
(***************************************************************************)
TakesOver == \A p \in Switches : Owns(p[1]) \subseteq Owns(p[2])

\* A KEDA worker, whose ScaledObject may have a maximum of 0, stays one.
NotFromKeda == \A p \in Switches : p[1] = "keda" => p[2] = "keda"

\* No cluster scales its share to nothing: ceil(replicas * 0) is 0.
PositiveFactors == \A c \in Clusters : Factor[c] > 0
-----------------------------------------------------------------------------
\* Division that rounds up keeps what is positive positive.
LEMMA CeilDivBound ==
  ASSUME NEW a \in Nat, NEW b \in Nat, b > 0
  PROVE  /\ CeilDiv(a, b) \in Nat
         /\ a > 0 => CeilDiv(a, b) >= 1
BY DEF CeilDiv

\* It keeps the order.
LEMMA CeilDivMonotone ==
  ASSUME NEW a \in Nat, NEW d \in Nat, NEW b \in Nat, b > 0, a <= d
  PROVE  CeilDiv(a, b) <= CeilDiv(d, b)
BY DEF CeilDiv

\* A share is scaled to a natural, and to none only by a factor of 0.
LEMMA ScaledBound ==
  ASSUME NEW n \in Nat, NEW f \in Nat
  PROVE  /\ Scaled(n, f) \in Nat
         /\ n > 0 /\ f > 0 => Scaled(n, f) >= 1
<1>1. n * f \in Nat
  OBVIOUS
<1>2. n > 0 /\ f > 0 => n * f > 0
  OBVIOUS
<1> DEFINE a == n * f
<1>. HIDE DEF a
<1>. QED BY <1>1, <1>2, CeilDivBound DEF Scaled, a

\* Scaling keeps the order of minimum and maximum.
LEMMA ScaledMonotone ==
  ASSUME NEW m \in Nat, NEW n \in Nat, NEW f \in Nat, m <= n
  PROVE  Scaled(m, f) <= Scaled(n, f)
<1>1. m * f \in Nat /\ n * f \in Nat
  OBVIOUS
<1>2. m * f <= n * f
  OBVIOUS
<1> DEFINE a == m * f
           b == n * f
<1>3. CeilDiv(a, 100) <= CeilDiv(b, 100)
  <2>. HIDE DEF a, b
  <2>. QED BY <1>1, <1>2, CeilDivMonotone DEF a, b
<1>. QED BY <1>3 DEF Scaled

\* Replicas are divided by at least one cluster (Max(1, live)).
LEMMA LiveCountPositive == LiveCount \in Nat /\ LiveCount > 0
<1>1. IsFiniteSet(LiveClusters)
  BY FleetAssumption, FS_Subset DEF LiveClusters
<1>. QED BY <1>1, LiveAssumption, FS_CardinalityType, FS_EmptySet DEF LiveCount

\* Every live cluster gets at least one replica.
LEMMA DivideReplicasBound ==
  ASSUME NEW count \in Nat, NEW percent \in Nat
  PROVE  DivideReplicas(count, percent) \in Nat /\ DivideReplicas(count, percent) >= 1
<1> DEFINE a == Lesser(100, percent) * count
           b == 100 * LiveCount
           q == CeilDiv(a, b)
<1>1. Lesser(100, percent) \in Nat
  BY DEF Lesser
<1>2. a \in Nat
  <2>. HIDE DEF a
  <2>1. \A m, n \in Nat : m * n \in Nat
    OBVIOUS
  <2>. QED BY <1>1, <2>1 DEF a
<1>3. b \in Nat /\ b > 0
  BY LiveCountPositive
<1>. HIDE DEF a, b
<1>4. q \in Nat
  BY <1>2, <1>3, CeilDivBound
<1>5. DivideReplicas(count, percent) = Larger(q, 1)
  BY DEF DivideReplicas, a, b
<1>. HIDE DEF q
<1>. QED BY <1>4, <1>5 DEF Larger

\* The replicas of all live clusters are a natural.
LEMMA ExpectedType ==
  ASSUME NEW count \in Nat
  PROVE  ExpectedReplicaCount(count) \in Nat
<1> DEFINE n == CeilDiv(count, LiveCount)
           f == [c \in LiveClusters |-> Scaled(n, Factor[c])]
<1>1. n \in Nat
  BY LiveCountPositive, CeilDivBound
<1>. HIDE DEF n
<1>2. IsFiniteSet(LiveClusters) /\ \A c \in LiveClusters : Factor[c] \in Nat
  BY FleetAssumption, FS_Subset DEF LiveClusters
<1>3. \A c \in LiveClusters : Scaled(n, Factor[c]) \in Nat
  BY <1>1, <1>2, ScaledBound
<1>4. f \in [LiveClusters -> Int] /\ \A c \in LiveClusters : f[c] >= 0
  BY <1>3
<1>. HIDE DEF f
<1>5. SumFunction(f) \in Nat
  BY <1>2, <1>4, SumType
<1>. QED BY <1>5 DEF ExpectedReplicaCount, f, n

\* So are the replicas that a percentage asks for.
LEMMA ExpectedTotalType ==
  ASSUME NEW count \in Nat, NEW percent \in Nat
  PROVE  ExpectedTotalReplicas(count, percent) \in Nat
<1> DEFINE a == Lesser(100, percent) * count
<1>1. Lesser(100, percent) \in Nat
  BY DEF Lesser
<1>2. a \in Nat
  <2>. HIDE DEF a
  <2>1. \A m, n \in Nat : m * n \in Nat
    OBVIOUS
  <2>. QED BY <1>1, <2>1 DEF a
<1>. HIDE DEF a
<1>3. CeilDiv(a, 100) \in Nat
  BY <1>2, CeilDivBound
<1>. QED BY <1>3, ExpectedType DEF ExpectedTotalReplicas, a

\* The revision is an incarnation.
LEMMA TagKnown == Tag \in Incarnations
BY OneRevision DEF Tag

\* The next increment of the strategy is a natural, even where its sum wraps.
LEMMA NextBound ==
  ASSUME NEW i, i.cur \in Percents
  PROVE  Next100(i) \in Nat
<1>1. i.cur \in Nat /\ Release[Tag].max \in Nat
  BY TagKnown, ReleaseAssumption DEF Strategies, Percents
<1>2. Next100(i) \in 0 .. Release[Tag].max
  BY <1>1, TagKnown, NextIncrementBound DEF Next100
<1>. HIDE DEF Next100
<1>. QED BY <1>1, <1>2

\* The pods the gate waits for are a natural.
LEMMA RequiredType ==
  ASSUME NEW i, i.cur \in Percents, NEW p \in Nat
  PROVE  ReplicasRequiredForRamp(ScaleInfo, Others(i), p) \in Nat
<1> DEFINE base == BaseCapacity(ScaleInfo, Others(i))
           total == ExpectedTotalReplicas(base, p)
           e == CeilDiv(total * Threshold, 100)
           top == ExpectedTotalReplicas(ScaleMax, 100)
<1>1. base \in Nat
  <2>1. 100 - i.cur \in Nat /\ (100 - i.cur # 0 => 100 - i.cur > 0) /\ OtherPods * 100 \in Nat
    BY ScaleAssumption DEF Percents
  <2>2. 100 - i.cur # 0 => CeilDiv(OtherPods * 100, 100 - i.cur) \in Nat
    <3> DEFINE a == OtherPods * 100
               b == 100 - i.cur
    <3>. HIDE DEF a, b
    <3>. QED BY <2>1, CeilDivBound DEF a, b
  <2>. QED
    BY <2>1, <2>2, ScaleAssumption DEF BaseCapacity, ScaleInfo, Others
<1>. HIDE DEF base
<1>2. total \in Nat
  BY <1>1, ExpectedTotalType
<1>. HIDE DEF total
<1>3. e \in Nat
  <2>1. total * Threshold \in Nat
    BY <1>2 DEF Threshold
  <2>. QED BY <2>1, CeilDivBound
<1>4. top \in Nat
  BY ScaleAssumption, ExpectedTotalType
<1>. HIDE DEF e, top
<1>5. ReplicasRequiredForRamp(ScaleInfo, Others(i), p) = IF ScaleMax > 0 THEN Lesser(e, top) ELSE e
  BY DEF ReplicasRequiredForRamp, ScaleInfo, base, total, e, top
<1>. QED BY <1>3, <1>4, <1>5 DEF Lesser

\* So is the minimum that an increment asks an autoscaler for.
LEMMA ProactiveType ==
  ASSUME NEW i, i.cur \in Percents
  PROVE  ProactiveRampMinReplicas(i) \in Nat
<1> DEFINE r == ReplicasRequiredForRamp(ScaleInfo, Others(i), Next100(i))
           a == DivideReplicas(r, 100)
           b == DivideReplicas(ScaleMax, 100)
<1>1. r \in Nat
  BY NextBound, RequiredType
<1>. HIDE DEF r
<1>2. a \in Nat /\ b \in Nat
  BY <1>1, ScaleAssumption, DivideReplicasBound
<1>. HIDE DEF a, b
<1>3. ProactiveRampMinReplicas(i) = 0 \/ ProactiveRampMinReplicas(i) = Lesser(a, b)
  BY DEF ProactiveRampMinReplicas, a, b, r
<1>. QED BY <1>2, <1>3 DEF Lesser

\* A share has at least one replica, in every state and at every percentage.
LEMMA ShareBound ==
  ASSUME NEW i, i.cur \in Percents, NEW count \in Nat
  PROVE  Share(i, count) \in Nat /\ Share(i, count) >= 1
<1>1. CanaryPercent[Tag] \in Nat /\ Next100(i) \in Nat /\ i.cur \in Nat
  BY TagKnown, CanaryAssumption, NextBound DEF Percents
<1>2. \A p \in Nat : DivideReplicas(count, p) \in Nat /\ DivideReplicas(count, p) >= 1
  BY DivideReplicasBound
<1>. QED BY <1>1, <1>2 DEF Share

\* The maximum is at least 1, but for a worker that is not routable.
LEMMA MaxBound ==
  ASSUME NEW i, i.cur \in Percents
  PROVE  /\ MaxReplicas(i) \in Nat
         /\ ~IsWorker => MaxReplicas(i) >= 1
BY ShareBound, ScaleAssumption DEF MaxReplicas

\* The minimum is at least 1, but for a worker.
LEMMA MinBound ==
  ASSUME NEW i, i.cur \in Percents
  PROVE  /\ MinReplicas(i) \in Nat
         /\ ~IsWorker => MinReplicas(i) >= 1
<1>1. MaxReplicas(i) \in Nat /\ (~IsWorker => MaxReplicas(i) >= 1)
  BY MaxBound
<1>2. /\ Larger(Share(i, ScaleMin), ProactiveRampMinReplicas(i)) \in Nat
      /\ Larger(Share(i, ScaleMin), ProactiveRampMinReplicas(i)) >= 1
  BY ShareBound, ProactiveType, ScaleAssumption DEF Larger
<1>. QED BY <1>1, <1>2 DEF MinReplicas

\* The replicas a revision wants are a natural.
LEMMA ReplicasType ==
  ASSUME NEW i, i.cur \in Percents
  PROVE  Replicas(i) \in Nat
BY ShareBound, DivideReplicasBound, ScaleAssumption DEF Replicas
-----------------------------------------------------------------------------
(* The writes of a plan.                                                   *)

\* Every order is a write.
LEMMA OrderKinds ==
  /\ \A k \in PlainKinds : Put(k, Plain) \in Orders
  /\ \A k \in AutoscalerKinds, b \in Bound : Put(k, b) \in Orders
  /\ \A k \in TaggedKinds : Del(k) \in Orders
  /\ \A n \in Nat, h \in BOOLEAN, s \in ScalerKinds : PutReplicaSet(n, h, s) \in Orders
  /\ Zero \in Orders
BY DEF Orders, Put, Del, PutReplicaSet, Zero

\* A disabled ScaledObject has bounds too.
LEMMA BoundsType ==
  ASSUME NEW min \in Nat, NEW max \in Nat, NEW off \in BOOLEAN
  PROVE  Bounds(min, max, off) \in Bound /\ KedaSettings(min, max, off) \in Bound
BY DEF Bounds, KedaSettings, Bound

\* A plan of configs puts one of each kind, in some order.
LEMMA PutsPlan ==
  ASSUME NEW kinds \in SUBSET ConfigKinds
  PROVE  /\ Puts(kinds) \in Seq(Orders) /\ Len(Puts(kinds)) \in Nat
         /\ \A n \in 1 .. Len(Puts(kinds)) : Puts(kinds)[n] \in {Put(k, Plain) : k \in kinds}
<1>1. IsFiniteSet(ConfigKinds) /\ IsFiniteSet(kinds)
  <2>1. IsFiniteSet({}) /\ IsFiniteSet({} \cup {"Secret"})
    BY FS_EmptySet, FS_AddElement
  <2>2. IsFiniteSet({} \cup {"Secret"} \cup {"ConfigMap"})
    BY <2>1, FS_AddElement
  <2>3. IsFiniteSet({} \cup {"Secret"} \cup {"ConfigMap"} \cup {"ExternalSecret"})
    BY <2>2, FS_AddElement
  <2>4. ConfigKinds = {} \cup {"Secret"} \cup {"ConfigMap"} \cup {"ExternalSecret"}
    BY DEF ConfigKinds
  <2>. QED BY <2>3, <2>4, FS_Subset
<1>2. Cardinality(kinds) \in Nat
  BY <1>1, FS_CardinalityType
<1>3. \A n \in 1 .. Cardinality(kinds) : SetToSeq(kinds)[n] \in kinds
  <2>1. ExistsBijection(1 .. Cardinality(kinds), kinds)
    BY <1>1, FS_CardinalityType
  <2>2. \E f \in [1 .. Cardinality(kinds) -> kinds] : IsInjective(f)
    BY <2>1 DEF ExistsBijection, Bijection, Injection, IsInjective
  <2>3. SetToSeq(kinds) \in [1 .. Cardinality(kinds) -> kinds]
    BY <2>2 DEF SetToSeq
  <2>. QED BY <2>3
<1> DEFINE s == Puts(kinds)
           k == Cardinality(kinds)
<1>4. s = [n \in 1 .. k |-> Put(SetToSeq(kinds)[n], Plain)]
  BY DEF Puts
<1>5. \A n \in 1 .. k : s[n] \in {Put(x, Plain) : x \in kinds}
  BY <1>3, <1>4
<1>6. \A n \in 1 .. k : s[n] \in Orders
  <2>1. kinds \subseteq PlainKinds
    BY DEF ConfigKinds, PlainKinds, TaggedKinds, AutoscalerKinds
  <2>. QED BY <1>5, <2>1, OrderKinds
<1>7. s \in [1 .. k -> Orders]
  BY <1>4, <1>6
<1>. HIDE DEF s, k
<1>8. s \in Seq(Orders)
  BY <1>2, <1>7, SeqDef DEF k
<1>9. Len(s) = k
  BY <1>2, <1>7, <1>8, LenProperties DEF k
<1>. QED BY <1>2, <1>5, <1>8, <1>9 DEF s, k

\* Writes that neither scale nor touch the replicas of a retired revision.
IsPlain(s) ==
  /\ s \in Seq(Orders) /\ Len(s) \in Nat
  /\ \A n \in 1 .. Len(s) : s[n] # Zero /\ ~Scales(s[n])

\* What s puts fits the autoscaler of the Revision.
ScalersFit(s) ==
  \A n \in 1 .. Len(s) : Scales(s[n]) =>
    /\ s[n].kind \in Owns(revision.scaler)
    /\ revision.scaler = "ambient" =>
         s[n].kind = "ScaledObject" /\ \E m \in 1 .. n - 1 : s[m] = Del("HPA")
    /\ PositiveFactors => Accepted(s[n].kind, s[n].content)

\* Writes that SyncRevision and ScaleRevision may make.
IsSync(s) ==
  /\ s \in Seq(Orders) /\ Len(s) \in Nat
  /\ \A n \in 1 .. Len(s) : s[n] # Zero
  /\ ScalersFit(s)

\* One plain plan after another is plain.
LEMMA ConcatPlain ==
  ASSUME NEW s, NEW t, IsPlain(s), IsPlain(t)
  PROVE  IsPlain(s \o t)
<1>1. /\ s \o t \in Seq(Orders) /\ Len(s \o t) = Len(s) + Len(t)
      /\ \A n \in 1 .. Len(s) + Len(t) : (s \o t)[n] = IF n <= Len(s) THEN s[n] ELSE t[n - Len(s)]
  BY ConcatProperties DEF IsPlain
<1> DEFINE u == s \o t
<1>. HIDE DEF u
<1>2. ASSUME NEW n \in 1 .. Len(u) PROVE u[n] # Zero /\ ~Scales(u[n])
  <2>1. n \in 1 .. Len(s) \/ n - Len(s) \in 1 .. Len(t)
    BY <1>1 DEF IsPlain, u
  <2>. QED BY <1>1, <2>1 DEF IsPlain, u
<1>. QED BY <1>1, <1>2 DEF IsPlain, u

\* Configs and the ReplicaSet may be written before the autoscaler.
LEMMA ConcatSync ==
  ASSUME NEW s, NEW t, IsPlain(s), IsSync(t)
  PROVE  IsSync(s \o t)
<1>1. /\ s \o t \in Seq(Orders) /\ Len(s \o t) = Len(s) + Len(t)
      /\ \A n \in 1 .. Len(s) + Len(t) : (s \o t)[n] = IF n <= Len(s) THEN s[n] ELSE t[n - Len(s)]
  BY ConcatProperties DEF IsPlain, IsSync, ScalersFit
<1> DEFINE u == s \o t
<1>. HIDE DEF u
<1>2. Len(s) \in Nat /\ Len(t) \in Nat /\ Len(u) \in Nat
  BY <1>1 DEF IsPlain, IsSync, ScalersFit, u
<1>3. ASSUME NEW n \in 1 .. Len(u)
      PROVE  /\ u[n] # Zero
             /\ Scales(u[n]) =>
                  /\ u[n].kind \in Owns(revision.scaler)
                  /\ revision.scaler = "ambient" =>
                       u[n].kind = "ScaledObject" /\ \E m \in 1 .. n - 1 : u[m] = Del("HPA")
                  /\ PositiveFactors => Accepted(u[n].kind, u[n].content)
  <2>1. CASE n <= Len(s)
    BY <1>1, <1>2, <2>1 DEF IsPlain, u
  <2>2. CASE n > Len(s)
    <3>1. n - Len(s) \in 1 .. Len(t) /\ u[n] = t[n - Len(s)]
      BY <1>1, <1>2, <2>2 DEF u
    <3>2. ASSUME NEW m \in 1 .. n - Len(s) - 1, t[m] = Del("HPA")
          PROVE  \E x \in 1 .. n - 1 : u[x] = Del("HPA")
      <4>1. m + Len(s) \in 1 .. n - 1 /\ m + Len(s) \in 1 .. Len(u) /\ ~(m + Len(s) <= Len(s))
        BY <1>1, <1>2, <2>2, <3>2 DEF u
      <4>2. u[m + Len(s)] = t[m + Len(s) - Len(s)] /\ m + Len(s) - Len(s) = m
        BY <1>1, <1>2, <4>1 DEF u
      <4>. QED BY <3>2, <4>1, <4>2
    <3>. QED BY <3>1, <3>2 DEF IsSync, ScalersFit
  <2>. QED BY <1>2, <2>1, <2>2
<1>. QED BY <1>1, <1>2, <1>3 DEF IsSync, ScalersFit, u

\* A plan without an autoscaler fits every one.
LEMMA PlainIsSync == ASSUME NEW s, IsPlain(s) PROVE IsSync(s)
BY DEF IsPlain, IsSync, ScalersFit

\* Plans of at most one write.
LEMMA ShortPlans ==
  /\ IsPlain(<<>>)
  /\ \A w \in Orders : w # Zero /\ ~Scales(w) => IsPlain(<<w>>)
  /\ \A w \in Orders : w # Zero => /\ Len(<<w>>) = 1 /\ <<w>>[1] = w /\ <<w>> \in Seq(Orders)
BY DEF IsPlain

\* SyncRevision writes no autoscaler.
LEMMA SyncRevisionPlain ==
  ASSUME NEW i, i.cur \in Percents, NEW c \in Clusters, revision.scaler \in ScalerKinds
  PROVE  IsPlain(SyncRevision(i, c))
<1> DEFINE n == IF EventDrivenDisabled(c) THEN 0 ELSE Scaled(Replicas(i), Factor[c])
           w == PutReplicaSet(n, KarpenterDoNotDisrupt(i), revision.scaler)
<1>1. n \in Nat
  BY ReplicasType, ScaledBound, FleetAssumption
<1>. HIDE DEF n
<1>2. w \in Orders /\ w # Zero /\ ~Scales(w)
  <2>1. KarpenterDoNotDisrupt(i) \in BOOLEAN
    BY DEF KarpenterDoNotDisrupt
  <2>. QED BY <1>1, <2>1, OrderKinds DEF PutReplicaSet, Zero, Scales
<1>3. IsPlain(<<w>>)
  BY <1>2, ShortPlans
<1>4. IsPlain(Puts(Sources))
  <2>1. Sources \in SUBSET ConfigKinds
    BY AutoscalingAssumption
  <2>2. \A k \in Sources : Put(k, Plain) # Zero /\ ~Scales(Put(k, Plain))
    BY <2>1 DEF ConfigKinds, Put, Zero, Scales, AutoscalerKinds
  <2>3. /\ Puts(Sources) \in Seq(Orders) /\ Len(Puts(Sources)) \in Nat
        /\ \A m \in 1 .. Len(Puts(Sources)) : Puts(Sources)[m] \in {Put(k, Plain) : k \in Sources}
    BY <2>1, PutsPlan
  <2>. HIDE DEF w
  <2>. QED BY <2>2, <2>3 DEF IsPlain
<1>5. SyncRevision(i, c) = Puts(Sources) \o <<w>>
  BY DEF SyncRevision, n
<1>. HIDE DEF w
<1>. QED BY <1>3, <1>4, <1>5, ConcatPlain

\* The bounds that are written are accepted.
LEMMA BoundsAreAccepted ==
  ASSUME NEW i, i.cur \in Percents, NEW c \in Clusters, ~IsWorker, PositiveFactors
  PROVE  LET min == Scaled(MinReplicas(i), Factor[c])
             max == Scaled(Larger(MinReplicas(i), MaxReplicas(i)), Factor[c])
         IN  min >= 1 /\ max >= 1 /\ min <= max
<1> DEFINE m == MinReplicas(i)
           x == Larger(MinReplicas(i), MaxReplicas(i))
           f == Factor[c]
<1>1. m \in Nat /\ m >= 1 /\ MaxReplicas(i) \in Nat
  BY MinBound, MaxBound
<1>2. x \in Nat /\ x >= 1 /\ m <= x
  BY <1>1 DEF Larger
<1>3. f \in Nat /\ f > 0
  BY FleetAssumption DEF PositiveFactors
<1>. HIDE DEF m, x, f
<1>a. m \in Nat /\ m > 0 /\ x \in Nat /\ x > 0
  BY <1>1, <1>2
<1>b. Scaled(m, f) >= 1 /\ Scaled(x, f) >= 1
  BY <1>a, <1>3, ScaledBound
<1>c. Scaled(m, f) <= Scaled(x, f)
  BY <1>a, <1>2, <1>3, ScaledMonotone
<1>4. Scaled(m, f) >= 1 /\ Scaled(x, f) >= 1 /\ Scaled(m, f) <= Scaled(x, f)
  BY <1>b, <1>c
<1>. QED BY <1>4 DEF m, x, f

\* One write is a plan.
LEMMA SingleSync ==
  ASSUME NEW w \in Orders, w # Zero, revision.scaler # "ambient",
         Scales(w) => w.kind \in Owns(revision.scaler),
         Scales(w) /\ PositiveFactors => Accepted(w.kind, w.content)
  PROVE  IsSync(<<w>>)
<1>1. <<w>> \in Seq(Orders) /\ Len(<<w>>) = 1 /\ <<w>>[1] = w
  BY ShortPlans
<1> DEFINE s == <<w>>
<1>. HIDE DEF s
<1>2. s \in Seq(Orders) /\ Len(s) = 1 /\ s[1] = w
  BY <1>1 DEF s
<1>3. \A n \in 1 .. Len(s) : s[n] = w
  BY <1>2
<1>. QED BY <1>2, <1>3 DEF IsSync, ScalersFit, s

\* An autoscaler is written through Put.
LEMMA ScalesPut ==
  ASSUME NEW k \in AutoscalerKinds, NEW b \in Bound
  PROVE  /\ Put(k, b) \in Orders /\ Put(k, b) # Zero /\ Scales(Put(k, b))
         /\ Put(k, b).kind = k /\ Put(k, b).content = b
BY OrderKinds DEF Put, Zero, Scales

\* A delete scales nothing.
LEMMA PlainDelete ==
  ASSUME NEW k \in TaggedKinds
  PROVE  Del(k) \in Orders /\ Del(k) # Zero /\ ~Scales(Del(k)) /\ Del(k).op = "delete"
         /\ Del(k).kind = k
BY OrderKinds DEF Del, Zero, Scales

\* Nor does a config.
LEMMA PlainPut ==
  ASSUME NEW k \in PlainKinds
  PROVE  Put(k, Plain) \in Orders /\ Put(k, Plain) # Zero /\ ~Scales(Put(k, Plain))
BY OrderKinds DEF Put, Zero, Scales, PlainKinds

\* The plan of a KEDA worker writes a ScaledObject alone.
LEMMA KedaPlanSync ==
  ASSUME NEW b \in Bound, revision.scaler = "keda"
  PROVE  IsSync(KedaWorkerPlan(b))
<1> DEFINE a1 == IF DatadogTrigger THEN <<Put("ConfigMap", Plain)>> ELSE <<>>
           a2 == <<Put("TriggerAuth", Plain)>>
           a3 == IF RequestsRate THEN <<Put("DatadogMetric", Plain)>> ELSE <<>>
           a4 == <<Put("ScaledObject", b)>>
<1>1. \A k \in PlainKinds : IsPlain(<<Put(k, Plain)>>)
  BY PlainPut, ShortPlans
<1>2. IsPlain(a1) /\ IsPlain(a2) /\ IsPlain(a3)
  <2>1. {"ConfigMap", "TriggerAuth", "DatadogMetric"} \subseteq PlainKinds
    BY DEF PlainKinds, TaggedKinds, ConfigKinds, AutoscalerKinds
  <2>2. /\ IsPlain(<<Put("ConfigMap", Plain)>>) /\ IsPlain(<<Put("TriggerAuth", Plain)>>)
        /\ IsPlain(<<Put("DatadogMetric", Plain)>>)
    BY <1>1, <2>1
  <2>. QED BY <2>2, ShortPlans
<1>3. IsSync(a4)
  <2>1. "ScaledObject" \in AutoscalerKinds
    BY DEF AutoscalerKinds
  <2>2. "ScaledObject" \in Owns(revision.scaler)
    BY DEF Owns
  <2>3. Accepted("ScaledObject", b)
    BY DEF Accepted
  <2> DEFINE w == Put("ScaledObject", b)
  <2>4. w \in Orders /\ w # Zero /\ w.kind = "ScaledObject" /\ w.content = b
    BY <2>1, ScalesPut
  <2>. HIDE DEF w
  <2>5. IsSync(<<w>>)
    BY <2>2, <2>3, <2>4, SingleSync
  <2>. QED BY <2>5 DEF w
<1>4. KedaWorkerPlan(b) = a1 \o a2 \o a3 \o a4
  BY DEF KedaWorkerPlan
<1>. HIDE DEF a1, a2, a3, a4
<1>5. IsPlain(a1 \o a2)
  BY <1>2, ConcatPlain
<1>6. IsPlain(a1 \o a2 \o a3)
  BY <1>2, <1>5, ConcatPlain
<1>7. IsSync(a1 \o a2 \o a3 \o a4)
  BY <1>3, <1>6, ConcatSync
<1>. QED BY <1>4, <1>7

\* The plan of the ambient mesh deletes the HPA before it writes a ScaledObject.
LEMMA AmbientPlanSync ==
  ASSUME NEW b \in Bound, revision.scaler = "ambient",
         PositiveFactors => b.max >= 1 /\ b.min <= b.max
  PROVE  IsSync(AmbientPlan(b))
<1> DEFINE x == Del("HPA")
           y == Put("ScaledObject", b)
           s == <<x, y>>
<1>1. x \in Orders /\ x # Zero /\ ~Scales(x)
  BY PlainDelete DEF TaggedKinds
<1>2. y \in Orders /\ y # Zero /\ y.kind = "ScaledObject" /\ y.content = b
  BY ScalesPut DEF AutoscalerKinds
<1>3. AmbientPlan(b) = s
  BY DEF AmbientPlan
<1>. HIDE DEF x, y
<1>4. s \in Seq(Orders) /\ Len(s) = 2 /\ s[1] = x /\ s[2] = y
  BY <1>1, <1>2
<1>. HIDE DEF s
<1>5. \A n \in 1 .. Len(s) : n = 1 \/ n = 2
  BY <1>4
<1>6. 1 \in 1 .. 2 - 1 /\ s[1] = Del("HPA")
  BY <1>4 DEF x
<1>7. "ScaledObject" \in Owns(revision.scaler)
  BY DEF Owns
<1>8. PositiveFactors => Accepted("ScaledObject", b)
  BY DEF Accepted
<1>9. Len(s) \in Nat /\ \A n \in 1 .. Len(s) : s[n] # Zero
  BY <1>1, <1>2, <1>4, <1>5
<1>10. ASSUME NEW n \in 1 .. Len(s), Scales(s[n])
       PROVE  /\ s[n].kind \in Owns(revision.scaler)
              /\ s[n].kind = "ScaledObject" /\ \E m \in 1 .. n - 1 : s[m] = Del("HPA")
              /\ PositiveFactors => Accepted(s[n].kind, s[n].content)
  <2>1. n = 2 /\ s[n] = y
    BY <1>1, <1>4, <1>5, <1>10
  <2>. QED BY <1>2, <1>6, <1>7, <1>8, <2>1
<1>. QED BY <1>3, <1>4, <1>9, <1>10 DEF IsSync, ScalersFit

\* ScaleRevision writes the autoscaler of the revision, with bounds the API accepts.
LEMMA ScaleRevisionSync ==
  ASSUME NEW i, i.cur \in Percents, NEW c \in Clusters, revision.scaler \in ScalerKinds,
         disabled \in [Clusters -> BOOLEAN]
  PROVE  IsSync(ScaleRevision(i, c))
<1> DEFINE off == EventDrivenDisabled(c)
           factor == IF off /\ revision.scaler = "worker" THEN 0 ELSE Factor[c]
           min == Scaled(MinReplicas(i), factor)
           max == Scaled(Larger(MinReplicas(i), MaxReplicas(i)), factor)
<1>1. off \in BOOLEAN
  BY AutoscalingAssumption DEF EventDrivenDisabled
<1>2. factor \in Nat
  BY FleetAssumption
<1>3. /\ revision.scaler # "worker" => factor = Factor[c]
  OBVIOUS
<1>4. min \in Nat /\ max \in Nat
  <2>1. MinReplicas(i) \in Nat /\ MaxReplicas(i) \in Nat
    BY MinBound, MaxBound
  <2>2. Larger(MinReplicas(i), MaxReplicas(i)) \in Nat
    BY <2>1 DEF Larger
  <2>. HIDE DEF factor
  <2>. QED BY <1>2, <2>1, <2>2, ScaledBound
<1>5. revision.scaler \notin {"worker", "keda"} /\ PositiveFactors =>
        min >= 1 /\ max >= 1 /\ min <= max
  <2>1. SUFFICES ASSUME revision.scaler \notin {"worker", "keda"}, PositiveFactors
                 PROVE  min >= 1 /\ max >= 1 /\ min <= max
    OBVIOUS
  <2>2. ~IsWorker /\ factor = Factor[c]
    BY <2>1, <1>3 DEF IsWorker
  <2>. HIDE DEF factor
  <2>. QED BY <2>1, <2>2, BoundsAreAccepted
<1>6. ScaleRevision(i, c) =
        CASE revision.scaler = "worker"  -> <<Put("WPA", Bounds(min, max, FALSE))>>
          [] revision.scaler = "keda"    -> KedaWorkerPlan(KedaSettings(min, max, off))
          [] revision.scaler = "ambient" -> AmbientPlan(KedaSettings(min, max, off))
          [] revision.scaler = "hpa" /\ ~off -> <<Put("HPA", Bounds(min, max, FALSE))>>
          [] OTHER -> <<Del("HPA")>>
  BY DEF ScaleRevision
<1>. HIDE DEF off, factor, min, max
<1>7. Bounds(min, max, FALSE) \in Bound /\ KedaSettings(min, max, off) \in Bound
  BY <1>1, <1>4, BoundsType
<1>a. /\ Bounds(min, max, FALSE).min = min /\ Bounds(min, max, FALSE).max = max
      /\ KedaSettings(min, max, off).max = max
      /\ KedaSettings(min, max, off).min <= min
  BY <1>1, <1>4 DEF Bounds, KedaSettings
<1>8. CASE revision.scaler = "worker"
  <2>1. "WPA" \in AutoscalerKinds /\ "WPA" \in Owns(revision.scaler)
    BY <1>8 DEF AutoscalerKinds, Owns
  <2>2. Accepted("WPA", Bounds(min, max, FALSE))
    BY DEF Accepted
  <2> DEFINE w == Put("WPA", Bounds(min, max, FALSE))
  <2>3. w \in Orders /\ w # Zero /\ w.kind = "WPA" /\ w.content = Bounds(min, max, FALSE)
    BY <1>7, <2>1, ScalesPut
  <2>4. ScaleRevision(i, c) = <<w>>
    BY <1>6, <1>8
  <2>. HIDE DEF w
  <2>5. IsSync(<<w>>)
    BY <1>8, <2>1, <2>2, <2>3, SingleSync
  <2>. QED BY <2>4, <2>5
<1>9. CASE revision.scaler = "keda"
  <2>1. ScaleRevision(i, c) = KedaWorkerPlan(KedaSettings(min, max, off))
    BY <1>6, <1>9
  <2>. QED BY <1>7, <1>9, <2>1, KedaPlanSync
<1>10. CASE revision.scaler = "ambient"
  <2>1. ScaleRevision(i, c) = AmbientPlan(KedaSettings(min, max, off))
    BY <1>6, <1>10
  <2> DEFINE b == KedaSettings(min, max, off)
  <2>2. b \in Bound /\ (PositiveFactors => b.max >= 1 /\ b.min <= b.max)
    BY <1>4, <1>5, <1>7, <1>a, <1>10 DEF Bound
  <2>. HIDE DEF b
  <2>3. IsSync(AmbientPlan(b))
    BY <1>10, <2>2, AmbientPlanSync
  <2>. QED BY <2>1, <2>3 DEF b
<1>11. CASE revision.scaler = "hpa" /\ ~off
  <2>1. "HPA" \in AutoscalerKinds /\ "HPA" \in Owns(revision.scaler)
    BY <1>11 DEF AutoscalerKinds, Owns
  <2>2. PositiveFactors => Accepted("HPA", Bounds(min, max, FALSE))
    BY <1>5, <1>11, <1>a DEF Accepted
  <2> DEFINE w == Put("HPA", Bounds(min, max, FALSE))
  <2>3. w \in Orders /\ w # Zero /\ w.kind = "HPA" /\ w.content = Bounds(min, max, FALSE)
    BY <1>7, <2>1, ScalesPut
  <2>4. ScaleRevision(i, c) = <<w>>
    BY <1>6, <1>11
  <2>. HIDE DEF w
  <2>5. IsSync(<<w>>)
    BY <1>11, <2>1, <2>2, <2>3, SingleSync
  <2>. QED BY <2>4, <2>5
<1>12. CASE revision.scaler = "none" \/ (revision.scaler = "hpa" /\ off)
  <2>1. ScaleRevision(i, c) = <<Del("HPA")>>
    BY <1>6, <1>12
  <2>2. Del("HPA") \in Orders /\ Del("HPA") # Zero /\ ~Scales(Del("HPA"))
    BY PlainDelete DEF TaggedKinds
  <2>. QED BY <2>1, <2>2, ShortPlans, PlainIsSync
<1>13. revision.scaler \in {"none", "hpa", "ambient", "worker", "keda"}
  BY DEF ScalerKinds
<1>. QED BY <1>1, <1>8, <1>9, <1>10, <1>11, <1>12, <1>13

\* RetireRevision sets the replicas to zero after what would start pods is gone.
LEMMA RetirePlan ==
  /\ RetireRevision \in Seq(Orders) /\ Len(RetireRevision) = 4
  /\ \A n \in 1 .. 4 : RetireRevision[n] = Zero => n = 4
  /\ \A w \in Members(RetireRevision) : w.op \in {"delete", "zero"} /\ ~Scales(w)
  /\ {Del("WPA"), Del("ScaledObject"), Zero} \subseteq Members(RetireRevision)
<1> DEFINE a == Del("WPA")
           b == Del("ScaledObject")
           d == Del("TriggerAuth")
           s == <<a, b, d, Zero>>
<1>1. /\ a \in Orders /\ a # Zero /\ a.op = "delete" /\ ~Scales(a)
      /\ b \in Orders /\ b # Zero /\ b.op = "delete" /\ ~Scales(b)
      /\ d \in Orders /\ d # Zero /\ d.op = "delete" /\ ~Scales(d)
  BY PlainDelete DEF TaggedKinds
<1>2. Zero \in Orders /\ Zero.op = "zero" /\ ~Scales(Zero)
  BY OrderKinds DEF Zero, Scales
<1>3. RetireRevision = s
  BY DEF RetireRevision
<1>. HIDE DEF a, b, d
<1>4. s \in Seq(Orders) /\ Len(s) = 4 /\ s[1] = a /\ s[2] = b /\ s[3] = d /\ s[4] = Zero
  BY <1>1, <1>2
<1>. HIDE DEF s
<1>5. \A n \in 1 .. 4 : n = 1 \/ n = 2 \/ n = 3 \/ n = 4
  OBVIOUS
<1>6. Members(s) = {a, b, d, Zero}
  BY <1>4, <1>5 DEF Members
<1>7. \A n \in 1 .. 4 : s[n] = Zero => n = 4
  BY <1>1, <1>4, <1>5
<1>. QED BY <1>1, <1>2, <1>3, <1>4, <1>6, <1>7 DEF a, b

\* DeleteRevision deletes every kind that another plan writes.
LEMMA DeletePlan ==
  /\ DeleteRevisionPlan \in Seq(Orders) /\ Len(DeleteRevisionPlan) = 9
  /\ Members(DeleteRevisionPlan) = {Del(k) : k \in TaggedKinds}
<1> DEFINE s == DeleteRevisionPlan
<1>1. \A k \in TaggedKinds : Del(k) \in Orders
  BY PlainDelete
<1>2. TaggedKinds = {"Secret", "ConfigMap", "ReplicaSet", "HPA", "WPA", "ScaledObject",
                     "TriggerAuth", "ExternalSecret", "DatadogMetric"}
  BY DEF TaggedKinds, ConfigKinds
<1>3. s = <<Del("Secret"), Del("ConfigMap"), Del("ReplicaSet"), Del("HPA"), Del("WPA"),
            Del("ScaledObject"), Del("TriggerAuth"), Del("ExternalSecret"), Del("DatadogMetric")>>
  BY DEF DeleteRevisionPlan
<1>. HIDE DEF s
<1>4. s \in Seq(Orders) /\ Len(s) = 9
  BY <1>1, <1>2, <1>3
<1>5. /\ s[1] = Del("Secret") /\ s[2] = Del("ConfigMap") /\ s[3] = Del("ReplicaSet")
      /\ s[4] = Del("HPA") /\ s[5] = Del("WPA") /\ s[6] = Del("ScaledObject")
      /\ s[7] = Del("TriggerAuth") /\ s[8] = Del("ExternalSecret") /\ s[9] = Del("DatadogMetric")
  BY <1>3
<1>6. 1 .. 9 = {1, 2, 3, 4, 5, 6, 7, 8, 9}
  OBVIOUS
<1>7. Members(s) = {Del("Secret"), Del("ConfigMap"), Del("ReplicaSet"), Del("HPA"), Del("WPA"),
                    Del("ScaledObject"), Del("TriggerAuth"), Del("ExternalSecret"), Del("DatadogMetric")}
  <2>1. Members(s) = {s[n] : n \in {1, 2, 3, 4, 5, 6, 7, 8, 9}}
    BY <1>4, <1>6 DEF Members
  <2>2. \A x : x \in Members(s) <=> \E n \in {1, 2, 3, 4, 5, 6, 7, 8, 9} : x = s[n]
    BY <2>1
  <2>3. \A x : (\E n \in {1, 2, 3, 4, 5, 6, 7, 8, 9} : x = s[n]) <=>
               \/ x = s[1] \/ x = s[2] \/ x = s[3] \/ x = s[4] \/ x = s[5] \/ x = s[6]
               \/ x = s[7] \/ x = s[8] \/ x = s[9]
    OBVIOUS
  <2>. QED BY <1>5, <2>2, <2>3
<1>8. {Del(k) : k \in TaggedKinds} =
        {Del("Secret"), Del("ConfigMap"), Del("ReplicaSet"), Del("HPA"), Del("WPA"),
         Del("ScaledObject"), Del("TriggerAuth"), Del("ExternalSecret"), Del("DatadogMetric")}
  BY <1>2
<1>. QED BY <1>4, <1>7, <1>8 DEF s

\* The plans that a handler calls.
Called(d) == {Handle(d).calls[n] : n \in 1 .. Len(Handle(d).calls)}

\* What a handler may answer: the plans it calls with what it decides.
Answers(d, h) ==
  \/ /\ h.calls = <<>> /\ h.next \in States \ {"retired", "failed"}
     /\ h.next = "deleted" => ~d.rev /\ d.state = "deleted"
  \/ /\ h.calls \in {<<"sync">>, <<"syncCanaryRules", "sync">>, <<"deleteCanaryRules", "sync">>}
     /\ h.next \in States \ {"retired", "failed", "deleted"}
     /\ d.rev /\ d.state \notin {"created", "retired", "failed"}
  \/ /\ h.calls \in {<<"retire">>, <<"deleteCanaryRules", "retire">>}
     /\ h.next \in {"retired", "failed"} /\ d.state # "created"
  \/ /\ h.calls = <<"deleteCanaryRules", "del">> /\ h.next = "deleted"
     /\ ~d.rev /\ d.state # "created"

\* The handlers of state.go, one by one.
LEMMA HandlerAnswers ==
  ASSUME NEW d, d.state \in States
  PROVE  Answers(d, Handle(d))
<1>1. CASE d.state = "created"
  <2>1. Handle(d) = Created(d)
    BY <1>1 DEF Handle
  <2>. QED BY <1>1, <2>1 DEF Answers, Created, ToRelease, States
<1>2. CASE d.state = "deploying"
  <2>1. Handle(d) = Deploying(d)
    BY <1>2 DEF Handle
  <2>. QED BY <1>2, <2>1 DEF Answers, Deploying, ToRelease, States
<1>3. CASE d.state = "deployed"
  <2>1. Handle(d) = Deployed(d)
    BY <1>3 DEF Handle
  <2>. QED BY <1>3, <2>1 DEF Answers, Deployed, ToRelease, States
<1>4. CASE d.state = "pendingtest"
  <2>1. Handle(d) = PendingTest(d)
    BY <1>4 DEF Handle
  <2>. QED BY <1>4, <2>1 DEF Answers, PendingTest, ToRelease, States
<1>5. CASE d.state = "testing"
  <2>1. Handle(d) = Testing(d)
    BY <1>5 DEF Handle
  <2>. QED BY <1>5, <2>1 DEF Answers, Testing, ToRelease, States
<1>6. CASE d.state = "tested"
  <2>1. Handle(d) = Tested(d)
    BY <1>6 DEF Handle
  <2>. QED BY <1>6, <2>1 DEF Answers, Tested, ToRelease, States
<1>7. CASE d.state = "pendingrelease"
  <2>1. Handle(d) = PendingRelease(d)
    BY <1>7 DEF Handle
  <2>. QED BY <1>7, <2>1 DEF Answers, PendingRelease, ToRelease, States
<1>8. CASE d.state = "releasing"
  <2>1. Handle(d) = Releasing(d)
    BY <1>8 DEF Handle
  <2>. QED BY <1>8, <2>1 DEF Answers, Releasing, ToRelease, States
<1>9. CASE d.state = "released"
  <2>1. Handle(d) = Releasing(d)
    BY <1>9 DEF Handle
  <2>. QED BY <1>9, <2>1 DEF Answers, Releasing, ToRelease, States
<1>10. CASE d.state = "retiring"
  <2>1. Handle(d) = Retiring(d)
    BY <1>10 DEF Handle
  <2>. QED BY <1>10, <2>1 DEF Answers, Retiring, ToRelease, States
<1>11. CASE d.state = "retired"
  <2>1. Handle(d) = Retired(d)
    BY <1>11 DEF Handle
  <2>. QED BY <1>11, <2>1 DEF Answers, Retired, ToRelease, States
<1>12. CASE d.state = "deleting"
  <2>1. Handle(d) = Deleting(d)
    BY <1>12 DEF Handle
  <2>. QED BY <1>12, <2>1 DEF Answers, Deleting, ToRelease, States
<1>13. CASE d.state = "deleted"
  <2>1. Handle(d) = Deleted(d)
    BY <1>13 DEF Handle
  <2>. QED BY <1>13, <2>1 DEF Answers, Deleted, ToRelease, States
<1>14. CASE d.state = "failing"
  <2>1. Handle(d) = Failing(d)
    BY <1>14 DEF Handle
  <2>. QED BY <1>14, <2>1 DEF Answers, Failing, ToRelease, States
<1>15. CASE d.state = "failed"
  <2>1. Handle(d) = Failed(d)
    BY <1>15 DEF Handle
  <2>. QED BY <1>15, <2>1 DEF Answers, Failed, ToRelease, States
<1>16. CASE d.state = "canarying"
  <2>1. Handle(d) = Canarying(d)
    BY <1>16 DEF Handle
  <2>. QED BY <1>16, <2>1 DEF Answers, Canarying, ToRelease, States
<1>17. CASE d.state = "canaried"
  <2>1. Handle(d) = Canaried(d)
    BY <1>17 DEF Handle
  <2>. QED BY <1>17, <2>1 DEF Answers, Canaried, ToRelease, States
<1>18. CASE d.state = "timingout"
  <2>1. Handle(d) = Timingout(d)
    BY <1>18 DEF Handle
  <2>. QED BY <1>18, <2>1 DEF Answers, Timingout, ToRelease, States
<1>. QED BY <1>1, <1>2, <1>3, <1>4, <1>5, <1>6, <1>7, <1>8, <1>9, <1>10, <1>11, <1>12, <1>13, <1>14, <1>15, <1>16, <1>17, <1>18 DEF States

\* What a handler decides, and the plans that go with it.
LEMMA Handled ==
  ASSUME NEW d, d.state \in States
  PROVE  /\ Handle(d).next \in States
         /\ "sync" \in Called(d) => d.rev /\ d.state \notin {"created", "retired", "failed"}
              /\ Handle(d).next \notin {"retired", "failed", "deleted"}
         /\ "retire" \in Called(d) => d.state # "created" /\ "sync" \notin Called(d)
         /\ "del" \in Called(d) => d.state # "created" /\ {"sync", "retire"} \cap Called(d) = {}
         /\ Handle(d).next \in {"retired", "failed"} => "retire" \in Called(d)
         /\ Handle(d).next = "deleted" => ~d.rev /\ (d.state = "deleted" \/ "del" \in Called(d))
<1> DEFINE c == Handle(d).calls
           answer == Handle(d).next
<1>1. Called(d) = {c[n] : n \in 1 .. Len(c)}
  BY DEF Called
<1>2. Answers(d, Handle(d))
  BY HandlerAnswers
<1>. HIDE DEF c, answer
<1>3. /\ c = <<>> => Called(d) = {}
      /\ \A a : c = <<a>> => Called(d) = {a}
  BY <1>1
<1>4. ASSUME NEW a, NEW b, c = <<a, b>> PROVE Called(d) = {a, b}
  <2>1. Len(c) = 2 /\ c[1] = a /\ c[2] = b
    BY <1>4
  <2>2. 1 .. 2 = {1, 2}
    OBVIOUS
  <2>. QED BY <1>1, <2>1, <2>2
<1>5. /\ c = <<"syncCanaryRules", "sync">> => Called(d) = {"syncCanaryRules", "sync"}
      /\ c = <<"deleteCanaryRules", "sync">> => Called(d) = {"deleteCanaryRules", "sync"}
      /\ c = <<"deleteCanaryRules", "retire">> => Called(d) = {"deleteCanaryRules", "retire"}
      /\ c = <<"deleteCanaryRules", "del">> => Called(d) = {"deleteCanaryRules", "del"}
  BY <1>4
<1>6. ASSUME c = <<>>, answer \in States \ {"retired", "failed"},
             answer = "deleted" => ~d.rev /\ d.state = "deleted"
      PROVE  /\ Called(d) = {} /\ answer \in States \ {"retired", "failed"}
             /\ answer = "deleted" => ~d.rev /\ d.state = "deleted"
  BY <1>3, <1>6
<1>7. ASSUME c \in {<<"sync">>, <<"syncCanaryRules", "sync">>, <<"deleteCanaryRules", "sync">>}
      PROVE  "retire" \notin Called(d) /\ "del" \notin Called(d)
  <2>1. \/ Called(d) = {"sync"} \/ Called(d) = {"syncCanaryRules", "sync"}
        \/ Called(d) = {"deleteCanaryRules", "sync"}
    BY <1>3, <1>5, <1>7
  <2>. QED BY <2>1
<1>8. ASSUME c \in {<<"retire">>, <<"deleteCanaryRules", "retire">>}
      PROVE  "retire" \in Called(d) /\ "sync" \notin Called(d) /\ "del" \notin Called(d)
  <2>1. Called(d) = {"retire"} \/ Called(d) = {"deleteCanaryRules", "retire"}
    BY <1>3, <1>5, <1>8
  <2>. QED BY <2>1
<1>9. ASSUME c = <<"deleteCanaryRules", "del">>
      PROVE  "retire" \notin Called(d) /\ "sync" \notin Called(d) /\ "del" \in Called(d)
  <2>1. Called(d) = {"deleteCanaryRules", "del"}
    BY <1>5, <1>9
  <2>. QED BY <2>1
<1>10. \/ /\ Called(d) = {} /\ answer \in States \ {"retired", "failed"}
          /\ answer = "deleted" => ~d.rev /\ d.state = "deleted"
       \/ /\ "retire" \notin Called(d) /\ "del" \notin Called(d)
          /\ answer \in States \ {"retired", "failed", "deleted"}
          /\ d.rev /\ d.state \notin {"created", "retired", "failed"}
       \/ /\ "retire" \in Called(d) /\ "sync" \notin Called(d) /\ "del" \notin Called(d)
          /\ answer \in {"retired", "failed"} /\ d.state # "created"
       \/ /\ "retire" \notin Called(d) /\ "sync" \notin Called(d) /\ "del" \in Called(d)
          /\ answer = "deleted" /\ ~d.rev /\ d.state # "created"
  BY <1>2, <1>6, <1>7, <1>8, <1>9 DEF Answers, c, answer
<1>. QED BY <1>10 DEF answer, States

\* Zero can only be the last write of s.
ZeroLast(s) ==
  /\ s \in Seq(Orders) /\ Len(s) \in Nat
  /\ \A n \in 1 .. Len(s) : s[n] = Zero => n = Len(s)

\* The writes of a plan, whatever called it.
LEMMA WrittenPlan ==
  ASSUME TypeOK, NEW i, i.cur \in Percents, NEW c \in Clusters, NEW d
  PROVE  LET W == Writes(Handle(d).calls, i, c)
         IN  /\ ZeroLast(W) /\ ScalersFit(W)
             /\ "sync" \notin Called(d) => \A w \in Members(W) : w.op \in {"delete", "zero"}
             /\ "retire" \in Called(d) /\ "sync" \notin Called(d) =>
                  {Del("WPA"), Del("ScaledObject"), Zero} \subseteq Members(W)
             /\ "del" \in Called(d) /\ {"sync", "retire"} \cap Called(d) = {} =>
                  Members(W) = {Del(k) : k \in TaggedKinds}
             /\ {"sync", "retire", "del"} \cap Called(d) = {} => W = <<>>
<1> DEFINE W == Writes(Handle(d).calls, i, c)
           C == Called(d)
           y == SyncRevision(i, c) \o ScaleRevision(i, c)
<1>1. W = IF "sync" \in C THEN IF revision.present THEN y ELSE <<>>
          ELSE IF "retire" \in C THEN RetireRevision
          ELSE IF "del" \in C THEN DeleteRevisionPlan
          ELSE <<>>
  BY DEF Writes, Called
<1>2. IsSync(y)
  <2>1. revision.scaler \in ScalerKinds /\ disabled \in [Clusters -> BOOLEAN]
    BY DEF TypeOK, Revision
  <2>2. IsPlain(SyncRevision(i, c)) /\ IsSync(ScaleRevision(i, c))
    BY <2>1, SyncRevisionPlain, ScaleRevisionSync
  <2>. QED BY <2>2, ConcatSync
<1>. HIDE DEF W, C, y
<1>3. ASSUME W = <<>>
      PROVE  ZeroLast(W) /\ ScalersFit(W) /\ Members(W) = {}
  <2>1. W \in Seq(Orders) /\ Len(W) = 0 /\ 1 .. Len(W) = {}
    BY <1>3
  <2>. QED BY <2>1 DEF ZeroLast, ScalersFit, Members
<1>4. CASE "sync" \in C
  <2>1. CASE revision.present
    <3>1. W = y
      BY <1>1, <1>4, <2>1
    <3>2. ZeroLast(W) /\ ScalersFit(W)
      BY <1>2, <3>1 DEF ZeroLast, ScalersFit, IsSync
    <3>. QED BY <1>4, <3>2 DEF C, W
  <2>2. CASE ~revision.present
    <3>1. W = <<>>
      BY <1>1, <1>4, <2>2
    <3>. QED BY <1>3, <1>4, <3>1 DEF C, W
  <2>. QED BY <2>1, <2>2
<1>5. CASE "sync" \notin C /\ "retire" \in C
  <2>1. W = RetireRevision
    BY <1>1, <1>5
  <2>2. ZeroLast(W)
    BY <2>1, RetirePlan DEF ZeroLast
  <2>3. \A n \in 1 .. Len(W) : W[n] \in Members(W)
    BY DEF Members
  <2>4. ScalersFit(W)
    BY <2>1, <2>3, RetirePlan DEF ScalersFit
  <2>. QED BY <1>5, <2>1, <2>2, <2>4, RetirePlan DEF C, W
<1>6. CASE {"sync", "retire"} \cap C = {} /\ "del" \in C
  <2>1. W = DeleteRevisionPlan
    BY <1>1, <1>6
  <2>2. \A n \in 1 .. Len(W) : W[n] \in Members(W)
    BY DEF Members
  <2>3. \A w \in Members(W) : w.op = "delete" /\ w # Zero /\ ~Scales(w)
    BY <2>1, DeletePlan, PlainDelete
  <2>4. ZeroLast(W) /\ ScalersFit(W)
    BY <2>1, <2>2, <2>3, DeletePlan DEF ZeroLast, ScalersFit
  <2>. QED BY <1>6, <2>1, <2>3, <2>4, DeletePlan DEF C, W
<1>7. CASE {"sync", "retire", "del"} \cap C = {}
  <2>1. W = <<>>
    BY <1>1, <1>7
  <2>. QED BY <1>3, <1>7, <2>1 DEF C, W
<1>. QED BY <1>4, <1>5, <1>6, <1>7
-----------------------------------------------------------------------------
\* A sequence is its head and its tail.
LEMMA HeadAndTail ==
  ASSUME NEW s \in Seq(Orders), s # <<>>
  PROVE  /\ Len(s) \in Nat /\ Len(s) >= 1 /\ Head(s) = s[1] /\ Head(s) \in Orders
         /\ Tail(s) \in Seq(Orders) /\ Len(Tail(s)) = Len(s) - 1
         /\ \A n \in 1 .. Len(s) - 1 : Tail(s)[n] = s[n + 1]
         /\ Head(s) \in Members(s)
         /\ Members(Tail(s)) \subseteq Members(s)
         /\ \A w \in Members(s) : w = Head(s) \/ w \in Members(Tail(s))
<1>1. /\ Len(s) \in Nat /\ Len(s) >= 1 /\ Head(s) = s[1]
      /\ Tail(s) \in Seq(Orders) /\ Len(Tail(s)) = Len(s) - 1
      /\ \A n \in 1 .. Len(s) - 1 : Tail(s)[n] = s[n + 1]
  BY HeadTailProperties, EmptySeq, LenProperties
<1>2. 1 \in 1 .. Len(s)
  BY <1>1
<1>3. Head(s) \in Orders /\ Head(s) \in Members(s)
  BY <1>1, <1>2, ElementOfSeq DEF Members
<1>4. ASSUME NEW n \in 1 .. Len(Tail(s)) PROVE Tail(s)[n] \in Members(s)
  <2>1. n \in 1 .. Len(s) - 1 /\ n + 1 \in 1 .. Len(s)
    BY <1>1
  <2>. QED BY <1>1, <2>1 DEF Members
<1>5. Members(Tail(s)) \subseteq Members(s)
  BY <1>4 DEF Members
<1>6. ASSUME NEW n \in 1 .. Len(s), n # 1 PROVE s[n] \in Members(Tail(s))
  <2>1. n - 1 \in 1 .. Len(s) - 1 /\ n - 1 \in 1 .. Len(Tail(s)) /\ (n - 1) + 1 = n
    BY <1>1, <1>6
  <2>2. Tail(s)[n - 1] = s[n]
    BY <1>1, <2>1
  <2>. QED BY <2>1, <2>2 DEF Members
<1>7. \A w \in Members(s) : w = Head(s) \/ w \in Members(Tail(s))
  BY <1>1, <1>6 DEF Members
<1>. QED BY <1>1, <1>3, <1>5, <1>7

\* A ReplicaSet has no more pods ready than it wants.
LEMMA ReplicaSetType ==
  ASSUME NEW r \in Nat, NEW a \in Nat, NEW h \in BOOLEAN
  PROVE  ReplicaSet(r, a, h) \in RS /\ ReplicaSet(r, a, h).replicas = r
BY DEF ReplicaSet, RS, Lesser

\* CreateOrUpdate leaves a ReplicaSet.
LEMMA UpdateReplicas ==
  ASSUME NEW o, Objects(o), NEW w \in Orders, w.op = "replicas"
  PROVE  CreateOrUpdateReplicaSet(o, w) \in RS
<1>1. w.desired \in Nat /\ w.hold \in BOOLEAN
  BY DEF Orders, Zero
<1> DEFINE old == IF Has(o, "ReplicaSet") THEN o["ReplicaSet"] ELSE NoReplicas
           r == IF w.scaler = "worker" THEN (IF Has(o, "ReplicaSet") THEN old.replicas ELSE 1)
                ELSE IF w.desired = 0 \/ old.replicas = 0 THEN w.desired
                ELSE old.replicas
<1>2. old \in RS
  <2>1. NoReplicas \in RS
    BY ReplicaSetType DEF NoReplicas
  <2>. QED BY <2>1 DEF Objects
<1>3. old.replicas \in Nat /\ old.ready \in Nat
  BY <1>2 DEF RS
<1>4. CreateOrUpdateReplicaSet(o, w) = ReplicaSet(r, old.ready, w.hold)
  BY DEF CreateOrUpdateReplicaSet
<1>. HIDE DEF old
<1>5. r \in Nat
  BY <1>1, <1>3
<1>. HIDE DEF r
<1>. QED BY <1>1, <1>3, <1>4, <1>5, ReplicaSetType

\* What one write does to the objects of a cluster.
LEMMA EffectIs ==
  ASSUME NEW o, Objects(o), NEW w \in Orders
  PROVE  LET e == Effect(o, w)
         IN  /\ Objects(e)
             /\ \A k \in AutoscalerKinds \cap DOMAIN e :
                  \/ w.op = "put" /\ w.kind = k /\ e[k] = w.content
                  \/ k \in DOMAIN o /\ e[k] = o[k]
             /\ w.op = "delete" => /\ DOMAIN e = DOMAIN o \ {w.kind}
                                   /\ Has(e, "ReplicaSet") => e["ReplicaSet"] = o["ReplicaSet"]
             /\ w.op = "zero" => /\ DOMAIN e = DOMAIN o
                                 /\ Has(e, "ReplicaSet") => e["ReplicaSet"].replicas = 0
<1> DEFINE e == Effect(o, w)
<1>1. w.op \in {"put", "delete", "replicas", "zero"}
  BY DEF Orders, Zero
<1>2. DOMAIN o \subseteq TaggedKinds
  BY DEF Objects
<1>3. CASE w.op = "put"
  <2>1. \/ w.kind \in PlainKinds
        \/ w.kind \in AutoscalerKinds /\ w.content \in Bound
    BY <1>3 DEF Orders, Zero
  <2>2. e = Replace(o, w.kind, w.content)
    BY <1>3 DEF Effect
  <2>3. DOMAIN e = DOMAIN o \cup {w.kind}
    BY <2>2 DEF Replace
  <2>4. \A k \in DOMAIN e : e[k] = IF k = w.kind THEN w.content ELSE o[k]
    BY <2>2 DEF Replace
  <2>. HIDE DEF e
  <2>5. w.kind \in TaggedKinds /\ w.kind # "ReplicaSet"
    BY <2>1 DEF PlainKinds, AutoscalerKinds, TaggedKinds
  <2>6. w.kind \in PlainKinds => w.kind \notin AutoscalerKinds
    BY DEF PlainKinds
  <2>7. Objects(e)
    BY <2>1, <2>3, <2>4, <2>5, <2>6 DEF Objects, Has
  <2>8. \A k \in AutoscalerKinds \cap DOMAIN e :
           \/ w.op = "put" /\ w.kind = k /\ e[k] = w.content
           \/ k \in DOMAIN o /\ e[k] = o[k]
    BY <1>3, <2>3, <2>4
  <2>. QED BY <1>3, <2>7, <2>8 DEF e
<1>4. CASE w.op = "delete"
  <2>1. e = Restrict(o, DOMAIN o \ {w.kind})
    BY <1>4 DEF Effect
  <2>2. DOMAIN e = DOMAIN o \ {w.kind} /\ \A k \in DOMAIN e : e[k] = o[k]
    BY <2>1 DEF Restrict
  <2>. HIDE DEF e
  <2>3. Objects(e)
    BY <2>2 DEF Objects, Has
  <2>4. Has(e, "ReplicaSet") => e["ReplicaSet"] = o["ReplicaSet"]
    BY <2>2 DEF Has
  <2>5. \A k \in AutoscalerKinds \cap DOMAIN e : k \in DOMAIN o /\ e[k] = o[k]
    BY <2>2
  <2>. QED BY <1>4, <2>2, <2>3, <2>4, <2>5 DEF e
<1>5. CASE w.op = "replicas"
  <2> DEFINE r == CreateOrUpdateReplicaSet(o, w)
  <2>1. r \in RS
    BY <1>5, UpdateReplicas
  <2>2. e = Replace(o, "ReplicaSet", r)
    BY <1>5 DEF Effect
  <2>. HIDE DEF r
  <2>3. DOMAIN e = DOMAIN o \cup {"ReplicaSet"}
    BY <2>2 DEF Replace
  <2>4. \A k \in DOMAIN e : e[k] = IF k = "ReplicaSet" THEN r ELSE o[k]
    BY <2>2 DEF Replace
  <2>. HIDE DEF e
  <2>5. "ReplicaSet" \in TaggedKinds /\ "ReplicaSet" \notin AutoscalerKinds
    BY DEF TaggedKinds, AutoscalerKinds
  <2>6. Objects(e)
    BY <2>1, <2>3, <2>4, <2>5 DEF Objects, Has
  <2>7. \A k \in AutoscalerKinds \cap DOMAIN e : k \in DOMAIN o /\ e[k] = o[k]
    BY <2>3, <2>4, <2>5
  <2>. QED BY <1>5, <2>6, <2>7 DEF e
<1>6. CASE w.op = "zero"
  <2>1. e = IF Has(o, "ReplicaSet") THEN [o EXCEPT !["ReplicaSet"] = ReplicaSet(0, 0, @.hold)] ELSE o
    BY <1>6 DEF Effect
  <2>2. CASE ~Has(o, "ReplicaSet")
    <3>1. e = o
      BY <2>1, <2>2
    <3>. HIDE DEF e
    <3>. QED BY <1>6, <2>2, <3>1 DEF e
  <2>3. CASE Has(o, "ReplicaSet")
    <3> DEFINE r == ReplicaSet(0, 0, o["ReplicaSet"].hold)
    <3>1. r \in RS /\ r.replicas = 0
      <4>1. o["ReplicaSet"].hold \in BOOLEAN
        BY <2>3 DEF Objects, RS
      <4>. QED BY <4>1, ReplicaSetType
    <3>2. e = [o EXCEPT !["ReplicaSet"] = r]
      BY <2>1, <2>3
    <3>. HIDE DEF r
    <3>3. DOMAIN e = DOMAIN o
      BY <3>2
    <3>4. \A k \in DOMAIN o : e[k] = IF k = "ReplicaSet" THEN r ELSE o[k]
      BY <3>2
    <3>. HIDE DEF e
    <3>5. "ReplicaSet" \notin AutoscalerKinds
      BY DEF AutoscalerKinds
    <3>6. Objects(e)
      BY <2>3, <3>1, <3>3, <3>4, <3>5 DEF Objects, Has
    <3>7. e["ReplicaSet"].replicas = 0
      BY <2>3, <3>1, <3>4 DEF Has
    <3>8. \A k \in AutoscalerKinds \cap DOMAIN e : k \in DOMAIN o /\ e[k] = o[k]
      BY <3>3, <3>4, <3>5
    <3>. QED BY <1>6, <3>3, <3>6, <3>7, <3>8 DEF e
  <2>. QED BY <2>2, <2>3
<1>. QED BY <1>1, <1>3, <1>4, <1>5, <1>6

\* What Write(c) does.
LEMMA WriteWrites ==
  ASSUME Typed, NEW c \in Clusters, Write(c)
  PROVE  /\ UNCHANGED <<revision, status, disabled, pc, inc, next, broken, events>>
         /\ DOMAIN object' = Clusters /\ todo' \in [Clusters -> Seq(Orders)]
         /\ todo[c] \in Seq(Orders) /\ todo[c] # <<>>
         /\ object'[c] = Effect(object[c], Head(todo[c])) /\ todo'[c] = Tail(todo[c])
         /\ \A x \in Clusters \ {c} : object'[x] = object[x] /\ todo'[x] = todo[x]
         /\ pc = "writing"
<1>1. DOMAIN object = Clusters /\ todo \in [Clusters -> Seq(Orders)]
  BY DEF Typed, TypeOK, Structure
<1>2. /\ object' = [object EXCEPT ![c] = Effect(object[c], Head(todo[c]))]
      /\ todo' = [todo EXCEPT ![c] = Tail(todo[c])] /\ todo[c] # <<>>
      /\ UNCHANGED <<revision, status, disabled, pc, inc, next, broken, events>>
  BY DEF Write
<1>3. todo[c] \in Seq(Orders) /\ Tail(todo[c]) \in Seq(Orders)
  BY <1>1, <1>2, HeadAndTail
<1>4. pc = "writing"
  BY <1>2 DEF Typed, TypeOK, Structure
<1>. QED BY <1>1, <1>2, <1>3, <1>4

\* A failed write leaves nothing to write in its cluster.
LEMMA FailureStops ==
  ASSUME Typed, NEW c \in Clusters, WriteFails(c)
  PROVE  /\ UNCHANGED <<revision, status, object, disabled, pc, inc, next>>
         /\ broken' = TRUE /\ events' \in 0 .. MaxEvents
         /\ todo' \in [Clusters -> Seq(Orders)] /\ todo'[c] = <<>>
         /\ \A x \in Clusters \ {c} : todo'[x] = todo[x]
         /\ pc = "writing"
<1>1. todo \in [Clusters -> Seq(Orders)]
  BY DEF Typed, Structure
<1>2. <<>> \in Seq(Orders)
  OBVIOUS
<1>3. pc = "writing"
  BY DEF WriteFails, Typed, TypeOK, Structure
<1>4. events' \in 0 .. MaxEvents
  BY AutoscalingAssumption DEF WriteFails, Event, Typed, TypeOK
<1>. QED BY <1>1, <1>2, <1>3, <1>4 DEF WriteFails

\* What a reconcile decides at its start.
LEMMA BeginDecides ==
  ASSUME Typed, NEW late, NEW pending, NEW permits, Begin(late, pending, permits)
  PROVE  /\ UNCHANGED <<revision, status, object, disabled, events>>
         /\ pc = "idle" /\ pc' = "writing" /\ broken' = FALSE
         /\ revision.present \/ status.known
         /\ inc' \in Status
         /\ \E i, d : /\ i.cur \in Percents
                      /\ d.state = status.state /\ d.rev = revision.present
                      /\ next' = Handle(d).next
                      /\ todo' = [c \in Clusters |-> Writes(Handle(d).calls, i, c)]
<1> DEFINE i == Update(status, Observation)
           d == Deployment(i, Observation, late, pending, permits)
<1>1. status \in Status
  BY DEF Typed, TypeOK
<1>2. i \in Status /\ i.state = status.state
  <2>1. 0 \in Percents
    BY DEF Percents
  <2>2. i = [status EXCEPT !.cur = 0] \/ i = status
    BY DEF Update
  <2>. HIDE DEF i
  <2>. QED BY <1>1, <2>1, <2>2 DEF Status
<1>3. d.state = i.state /\ d.rev = revision.present
  BY DEF Deployment
<1>4. /\ inc' = [i EXCEPT !.known = TRUE]
      /\ next' = Handle(d).next
      /\ todo' = [c \in Clusters |-> Writes(Handle(d).calls, i, c)]
      /\ UNCHANGED <<revision, status, object, disabled, events>>
      /\ pc = "idle" /\ pc' = "writing" /\ broken' = FALSE
      /\ revision.present \/ status.known
  BY DEF Begin
<1>. HIDE DEF i, d
<1>5. inc' \in Status /\ i.cur \in Percents
  BY <1>2, <1>4 DEF Status
<1>. QED BY <1>2, <1>3, <1>4, <1>5

\* What the controllers of cluster c do.
Acts(c) == (\E k \in AutoscalerKinds : Autoscale(c, k)) \/ PodsStart(c) \/ PodsLost(c)

\* The autoscalers and the pods change the replicas of one ReplicaSet.
LEMMA ClusterActs ==
  ASSUME Typed, NEW c \in Clusters,
         Acts(c)
  PROVE  /\ UNCHANGED <<revision, disabled, status, pc, inc, next, todo, broken>>
         /\ events' \in 0 .. MaxEvents
         /\ DOMAIN object' = Clusters
         /\ \A x \in Clusters \ {c} : object'[x] = object[x]
         /\ Has(object[c], "ReplicaSet") /\ DOMAIN object'[c] = DOMAIN object[c]
         /\ \A k \in DOMAIN object[c] \ {"ReplicaSet"} : object'[c][k] = object[c][k]
         /\ object'[c]["ReplicaSet"] \in RS
<1>1. /\ DOMAIN object = Clusters /\ Objects(object[c]) /\ events \in 0 .. MaxEvents
  BY DEF Typed, TypeOK, Structure
<1>2. /\ UNCHANGED <<revision, disabled, status, pc, inc, next, todo, broken>>
      /\ events' \in 0 .. MaxEvents /\ Has(object[c], "ReplicaSet")
  BY <1>1, AutoscalingAssumption DEF Acts, Autoscale, PodsStart, PodsLost, reconcile, Event
<1> DEFINE old == object[c]["ReplicaSet"]
<1>3. old \in RS /\ old.replicas \in Nat /\ old.ready \in Nat /\ old.hold \in BOOLEAN
  BY <1>1, <1>2 DEF Objects, RS
<1>4. \E r \in RS : object' = [object EXCEPT ![c] = [object[c] EXCEPT !["ReplicaSet"] = r]]
  <2>1. CASE \E k \in AutoscalerKinds : Autoscale(c, k)
    <3>1. PICK k \in AutoscalerKinds : Autoscale(c, k)
      BY <2>1
    <3>2. PICK n \in Allowed(c, k) :
            object' = [object EXCEPT ![c]["ReplicaSet"] = ReplicaSet(n, @.ready, @.hold)]
      BY <3>1 DEF Autoscale
    <3>3. object[c][k] \in Bound
      BY <1>1, <3>1 DEF Autoscale, Objects, Has
    <3>4. n \in Nat
      BY <3>2, <3>3 DEF Allowed, Bound
    <3>5. ReplicaSet(n, old.ready, old.hold) \in RS
      BY <1>3, <3>4, ReplicaSetType
    <3>. QED BY <3>2, <3>5
  <2>2. CASE PodsStart(c)
    <3>1. object' = [object EXCEPT ![c]["ReplicaSet"].ready = old.replicas]
      BY <2>2 DEF PodsStart, Replicated
    <3>2. [old EXCEPT !.ready = old.replicas] \in RS
      BY <1>3 DEF RS
    <3>. QED BY <3>1, <3>2
  <2>3. CASE PodsLost(c)
    <3>1. object' = [object EXCEPT ![c]["ReplicaSet"].ready = 0]
      BY <2>3 DEF PodsLost
    <3>2. [old EXCEPT !.ready = 0] \in RS
      BY <1>3 DEF RS
    <3>. QED BY <3>1, <3>2
  <2>. QED BY <2>1, <2>2, <2>3 DEF Acts
<1>5. PICK r \in RS : object' = [object EXCEPT ![c] = [object[c] EXCEPT !["ReplicaSet"] = r]]
  BY <1>4
<1>6. object'[c] = [object[c] EXCEPT !["ReplicaSet"] = r]
  BY <1>1, <1>5
<1>. QED BY <1>1, <1>2, <1>5, <1>6 DEF Has

\* The percentage that a reconcile may end with.
LEMMA PercentAfterType ==
  ASSUME Typed, NEW i, i.cur \in Percents
  PROVE  PercentAfter(i, Observation) \subseteq Percents
<1> DEFINE bound == IF i.state \in Canaries THEN CanaryPercent[Tag] ELSE 100
           gate  == CanRampTo(ScaleInfo, Others(i), NextIncrement(Tag, i.cur, bound),
                              CurrentSum(Observation))
           p == CurrentPercentTarget(i, Tag, 100, gate)
<1>1. i.cur \in Nat /\ 0 \in Percents /\ Percents = 0 .. 100
  BY DEF Percents
<1>2. bound \in Nat
  BY TagKnown, CanaryAssumption
<1>3. gate \in BOOLEAN
  BY DEF CanRampTo
<1>. HIDE DEF gate
<1>4. p \in 0 .. 100
  BY <1>1, <1>3, TagKnown, TargetBound
<1>. HIDE DEF p
<1>5. PercentAfter(i, Observation) =
        IF i.state \in Canaries \cup Live THEN {p}
        ELSE IF IsReleasable(i) /\ i.rev THEN {q \in {0, i.cur} : q <= i.cur}
        ELSE {0}
  BY DEF PercentAfter, p, gate
<1>. QED BY <1>1, <1>4, <1>5

\* What a reconcile persists at its end.
LEMMA FinishPersists ==
  ASSUME Typed, Finish
  PROVE  /\ UNCHANGED <<revision, object, disabled, todo, events>>
         /\ pc = "writing" /\ pc' = "idle" /\ \A c \in Clusters : todo[c] = <<>>
         /\ inc' = NewStatus /\ next' = "created" /\ broken' = FALSE
         /\ \/ broken /\ status' = status
            \/ ~broken /\ next = "deleted" /\ ~revision.present /\ status' = NewStatus
            \/ /\ ~broken /\ ~(next = "deleted" /\ ~revision.present)
               /\ status' \in Status /\ status'.known /\ status'.state = next
<1>1. inc \in Status /\ next \in States /\ revision \in Revision /\ broken \in BOOLEAN
  BY DEF Typed, TypeOK
<1>2. /\ UNCHANGED <<revision, object, disabled, todo, events>>
      /\ pc = "writing" /\ pc' = "idle" /\ \A c \in Clusters : todo[c] = <<>>
      /\ inc' = NewStatus /\ next' = "created" /\ broken' = FALSE
  BY DEF Finish, Written
<1>3. CASE broken
  BY <1>2, <1>3 DEF Finish
<1>4. CASE ~broken
  <2> DEFINE r == [state |-> next, cur |-> inc.cur, peak |-> inc.peak, rev |-> revision.present]
             i == Update(r, Observation)
  <2>1. PICK p \in PercentAfter(i, Observation) :
          status' = IF next = "deleted" /\ ~revision.present THEN NewStatus
                    ELSE [known |-> TRUE, state |-> UpdateCurrentPercent(i, p).state,
                          cur |-> UpdateCurrentPercent(i, p).cur,
                          peak |-> UpdateCurrentPercent(i, p).peak]
    BY <1>4 DEF Finish
  <2>2. i = [r EXCEPT !.cur = 0] \/ i = r
    BY DEF Update
  <2>3. r \in [state : States, cur : Percents, peak : Percents, rev : BOOLEAN] /\ r.state = next
    BY <1>1 DEF Status, Revision
  <2>4. 0 \in Percents
    BY DEF Percents
  <2>. HIDE DEF r, i
  <2>5. i \in [state : States, cur : Percents, peak : Percents, rev : BOOLEAN] /\ i.state = next
    BY <2>2, <2>3, <2>4
  <2>6. p \in Percents
    BY <2>1, <2>5, PercentAfterType
  <2> DEFINE j == UpdateCurrentPercent(i, p)
             peak == IF p > i.peak THEN p ELSE i.peak
  <2>7. peak \in Percents
    BY <2>5, <2>6
  <2>8. j = [i EXCEPT !.cur = p, !.peak = peak]
    BY DEF UpdateCurrentPercent
  <2>. HIDE DEF peak, j
  <2>9. j.state = next /\ j.cur \in Percents /\ j.peak \in Percents
    BY <2>5, <2>6, <2>7, <2>8
  <2>10. status' = IF next = "deleted" /\ ~revision.present THEN NewStatus
                   ELSE [known |-> TRUE, state |-> j.state, cur |-> j.cur, peak |-> j.peak]
    BY <2>1 DEF j
  <2>11. CASE next = "deleted" /\ ~revision.present
    BY <1>2, <1>4, <2>10, <2>11
  <2>12. CASE ~(next = "deleted" /\ ~revision.present)
    <3>1. status' = [known |-> TRUE, state |-> j.state, cur |-> j.cur, peak |-> j.peak]
      BY <2>10, <2>12
    <3>2. status' \in Status /\ status'.known /\ status'.state = next
      BY <1>1, <2>9, <3>1 DEF Status
    <3>. QED BY <1>2, <1>4, <2>12, <3>2
  <2>. QED BY <2>11, <2>12
<1>. QED BY <1>1, <1>3, <1>4

\* What users and operators do.
Outside ==
  CreateRevision \/ DeleteRevision \/ EditRevision \/ \E c \in Clusters : DisableEventDriven(c)

\* None of it happens during a reconcile.
LEMMA OutsideActs ==
  ASSUME Typed, Outside
  PROVE  /\ UNCHANGED <<object, reconcile>> /\ pc = "idle"
         /\ revision' \in Revision /\ disabled' \in [Clusters -> BOOLEAN]
         /\ events' \in 0 .. MaxEvents
         /\ \/ revision'.scaler = revision.scaler
            \/ ~status.known
            \/ <<revision.scaler, revision'.scaler>> \in Switches
<1>1. revision \in Revision /\ disabled \in [Clusters -> BOOLEAN] /\ events \in 0 .. MaxEvents
  BY DEF Typed, TypeOK
<1>2. Scalers \subseteq ScalerKinds /\ MaxEvents \in Nat
  BY AutoscalingAssumption
<1>3. CASE CreateRevision
  <2>1. PICK s \in IF status.known THEN {revision.scaler} ELSE Scalers :
          revision' = [present |-> TRUE, scaler |-> s, elig |-> TRUE, failed |-> FALSE]
    BY <1>3 DEF CreateRevision
  <2>2. s \in ScalerKinds /\ (status.known => s = revision.scaler)
    BY <1>1, <1>2, <2>1 DEF Revision
  <2>3. revision' \in Revision /\ revision'.scaler = s
    BY <2>1, <2>2 DEF Revision
  <2>. QED BY <1>1, <1>3, <2>2, <2>3 DEF CreateRevision
<1>4. CASE DeleteRevision
  <2>1. revision' = [revision EXCEPT !.present = FALSE]
    BY <1>4 DEF DeleteRevision
  <2>2. revision' \in Revision /\ revision'.scaler = revision.scaler
    BY <1>1, <2>1 DEF Revision
  <2>. QED BY <1>1, <1>2, <1>4, <2>2 DEF DeleteRevision, Event
<1>5. CASE EditRevision
  <2>1. /\ revision' \in Revision
        /\ revision'.scaler = revision.scaler \/ <<revision.scaler, revision'.scaler>> \in Switches
    <3>1. CASE revision' = [revision EXCEPT !.elig = ~revision.elig]
      <4>1. (~revision.elig) \in BOOLEAN
        OBVIOUS
      <4>. QED BY <1>1, <3>1, <4>1 DEF Revision
    <3>2. CASE revision' = [revision EXCEPT !.failed = ~revision.failed]
      <4>1. (~revision.failed) \in BOOLEAN
        OBVIOUS
      <4>. QED BY <1>1, <3>2, <4>1 DEF Revision
    <3>3. CASE \E s \in Scalers : /\ <<revision.scaler, s>> \in Switches
                                  /\ revision' = [revision EXCEPT !.scaler = s]
      BY <1>1, <1>2, <3>3 DEF Revision
    <3>. QED BY <1>5, <3>1, <3>2, <3>3 DEF EditRevision
  <2>. QED BY <1>1, <1>2, <1>5, <2>1 DEF EditRevision, Event
<1>6. ASSUME NEW c \in Clusters, DisableEventDriven(c)
      PROVE  /\ UNCHANGED <<object, revision, reconcile>> /\ pc = "idle"
             /\ disabled' \in [Clusters -> BOOLEAN] /\ events' \in 0 .. MaxEvents
  <2>1. disabled' = [disabled EXCEPT ![c] = ~disabled[c]]
    BY <1>6 DEF DisableEventDriven
  <2>2. (~disabled[c]) \in BOOLEAN
    OBVIOUS
  <2>3. disabled' \in [Clusters -> BOOLEAN]
    BY <1>1, <2>1, <2>2
  <2>. QED BY <1>1, <1>2, <1>6, <2>3 DEF DisableEventDriven, Event
<1>. QED BY <1>1, <1>3, <1>4, <1>5, <1>6 DEF Outside

\* The steps, by who takes them.
LEMMA NextIs ==
  ASSUME [Next]_vars
  PROVE  \/ \E late \in Timeouts, pending \in {FALSE, CanaryPercent[Tag] > 0},
               permits \in Schedules : Begin(late, pending, permits)
         \/ Finish
         \/ \E c \in Clusters : Write(c) \/ WriteFails(c) \/ Acts(c)
         \/ Outside
         \/ UNCHANGED vars
BY DEF Next, Cluster, Acts, Outside

\* At first nothing is written.
LEMMA InitTyped == Init => Typed
<1> SUFFICES ASSUME Init PROVE Typed
  OBVIOUS
<1>1. /\ revision \in [present : {TRUE}, scaler : Scalers, elig : {TRUE}, failed : {FALSE}]
      /\ status = NewStatus /\ inc = NewStatus
      /\ object = [c \in Clusters |-> [k \in {} |-> Plain]]
      /\ disabled = [c \in Clusters |-> FALSE]
      /\ pc = "idle" /\ next = "created" /\ broken = FALSE /\ events = 0
      /\ todo = [c \in Clusters |-> <<>>]
  BY DEF Init
<1>2. revision \in Revision
  BY <1>1, AutoscalingAssumption DEF Revision
<1>3. NewStatus \in Status /\ next \in States
  BY <1>1 DEF NewStatus, Status, States, Percents
<1>4. \A c \in Clusters : DOMAIN object[c] = {}
  BY <1>1
<1>5. \A c \in Clusters : Objects(object[c])
  BY <1>4 DEF Objects, Has
<1>a. todo \in [Clusters -> Seq(Orders)] /\ \A c \in Clusters : todo[c] = <<>>
  <2> DEFINE nothing == <<>>
  <2>1. nothing \in Seq(Orders) /\ todo = [c \in Clusters |-> nothing]
    BY <1>1
  <2>. HIDE DEF nothing
  <2>2. todo \in [Clusters -> Seq(Orders)] /\ \A c \in Clusters : todo[c] = nothing
    BY <2>1
  <2>. QED BY <2>2 DEF nothing
<1>6. /\ DOMAIN object = Clusters /\ disabled \in [Clusters -> BOOLEAN] /\ events \in 0 .. MaxEvents
      /\ pc \in {"idle", "writing"} /\ broken \in BOOLEAN
  <2>1. DOMAIN object = Clusters /\ pc \in {"idle", "writing"}
    BY <1>1
  <2>2. events \in 0 .. MaxEvents
    BY <1>1, AutoscalingAssumption
  <2>3. disabled \in [Clusters -> BOOLEAN] /\ broken \in BOOLEAN
    BY <1>1
  <2>. QED BY <2>1, <2>2, <2>3
<1>7. \A c \in Clusters : \A n \in 1 .. Len(todo[c]) : FALSE
  BY <1>a
<1>8. TypeOK
  BY <1>1, <1>2, <1>3, <1>4, <1>6 DEF TypeOK, Has
<1>9. Structure
  BY <1>a, <1>5, <1>7 DEF Structure
<1>. QED BY <1>8, <1>9 DEF Typed

\* Every step keeps the types, one action after the other.
LEMMA NextTyped ==
  ASSUME Typed, [Next]_vars
  PROVE  Typed'
<1>0. TypeOK /\ Structure
  BY DEF Typed
<1>1. ASSUME Structure', revision' \in Revision, status' \in Status, inc' \in Status,
             next' \in States, DOMAIN object' = Clusters, disabled' \in [Clusters -> BOOLEAN],
             pc' \in {"idle", "writing"}, broken' \in BOOLEAN, events' \in 0 .. MaxEvents
      PROVE  Typed'
  <2>1. \A c \in Clusters : Objects(object'[c])
    BY <1>1 DEF Structure
  <2>2. \A c \in Clusters :
          /\ DOMAIN object'[c] \subseteq TaggedKinds
          /\ Has(object'[c], "ReplicaSet") => Replicated(c)'.ready \in 0 .. Replicated(c)'.replicas
    BY <2>1 DEF Objects, RS, Replicated, Has
  <2>. QED BY <1>1, <2>2 DEF Typed, TypeOK
<1>2. ASSUME NEW late \in Timeouts, NEW pending \in {FALSE, CanaryPercent[Tag] > 0},
             NEW permits \in Schedules, Begin(late, pending, permits)
      PROVE  Typed'
  <2>1. /\ UNCHANGED <<revision, status, object, disabled, events>>
        /\ pc = "idle" /\ pc' = "writing" /\ broken' = FALSE /\ inc' \in Status
    BY <1>2, BeginDecides
  <2>2. PICK i, d : /\ i.cur \in Percents
                    /\ d.state = status.state /\ d.rev = revision.present
                    /\ next' = Handle(d).next
                    /\ todo' = [c \in Clusters |-> Writes(Handle(d).calls, i, c)]
    BY <1>2, BeginDecides
  <2>3. d.state \in States
    BY <1>0, <2>2 DEF TypeOK, Status
  <2>4. next' \in States
    BY <2>2, <2>3, Handled
  <2>5. \A c \in Clusters : ZeroLast(Writes(Handle(d).calls, i, c))
    BY <1>0, <2>2, WrittenPlan
  <2>6. \A c \in Clusters : ZeroLast(todo'[c])
    BY <2>2, <2>5
  <2>7. todo' \in [Clusters -> Seq(Orders)]
    BY <2>2, <2>6 DEF ZeroLast
  <2>8. Structure'
    BY <1>0, <2>1, <2>6, <2>7 DEF Structure, ZeroLast
  <2>. QED BY <1>0, <1>1, <2>1, <2>4, <2>8 DEF TypeOK
<1>3. CASE Finish
  <2>1. /\ UNCHANGED <<revision, object, disabled, todo, events>>
        /\ pc = "writing" /\ pc' = "idle" /\ \A c \in Clusters : todo[c] = <<>>
        /\ inc' = NewStatus /\ next' = "created" /\ broken' = FALSE
        /\ status' = status \/ status' = NewStatus \/ status' \in Status
    BY <1>3, FinishPersists
  <2>2. NewStatus \in Status /\ "created" \in States
    BY DEF NewStatus, Status, States, Percents
  <2>3. Structure'
    BY <1>0, <2>1 DEF Structure
  <2>. QED BY <1>0, <1>1, <2>1, <2>2, <2>3 DEF TypeOK
<1>4. ASSUME NEW c \in Clusters, Write(c) PROVE Typed'
  <2>1. /\ UNCHANGED <<revision, status, disabled, pc, inc, next, broken, events>>
        /\ DOMAIN object' = Clusters /\ todo' \in [Clusters -> Seq(Orders)]
        /\ todo[c] \in Seq(Orders) /\ todo[c] # <<>>
        /\ object'[c] = Effect(object[c], Head(todo[c])) /\ todo'[c] = Tail(todo[c])
        /\ \A x \in Clusters \ {c} : object'[x] = object[x] /\ todo'[x] = todo[x]
        /\ pc = "writing"
    BY <1>4, WriteWrites
  <2>2. /\ Len(todo[c]) \in Nat /\ Len(todo[c]) >= 1 /\ Head(todo[c]) \in Orders
        /\ Len(Tail(todo[c])) = Len(todo[c]) - 1
        /\ \A n \in 1 .. Len(todo[c]) - 1 : Tail(todo[c])[n] = todo[c][n + 1]
    BY <2>1, HeadAndTail
  <2>3. Objects(object[c])
    BY <1>0 DEF Structure
  <2>4. Objects(object'[c])
    <3> DEFINE o == object[c]
               w == Head(todo[c])
    <3>1. Objects(o) /\ w \in Orders /\ object'[c] = Effect(o, w)
      BY <2>1, <2>2, <2>3
    <3>. HIDE DEF o, w
    <3>2. Objects(Effect(o, w))
      BY <3>1, EffectIs
    <3>. QED BY <3>1, <3>2
  <2>5. \A x \in Clusters : Objects(object'[x])
    BY <1>0, <2>1, <2>4 DEF Structure
  <2>6. ASSUME NEW n \in 1 .. Len(todo'[c]), todo'[c][n] = Zero PROVE n = Len(todo'[c])
    <3>1. n \in 1 .. Len(todo[c]) - 1 /\ n + 1 \in 1 .. Len(todo[c])
      BY <2>1, <2>2, <2>6
    <3>2. todo[c][n + 1] = Zero
      BY <2>1, <2>2, <2>6, <3>1
    <3>3. n + 1 = Len(todo[c])
      BY <1>0, <3>1, <3>2 DEF Structure
    <3>. QED BY <2>1, <2>2, <3>1, <3>3
  <2>7. \A x \in Clusters : \A n \in 1 .. Len(todo'[x]) : todo'[x][n] = Zero => n = Len(todo'[x])
    <3>1. SUFFICES ASSUME NEW x \in Clusters
                   PROVE  \A n \in 1 .. Len(todo'[x]) : todo'[x][n] = Zero => n = Len(todo'[x])
      OBVIOUS
    <3>2. CASE x = c
      BY <2>6, <3>2
    <3>3. CASE x # c
      <4>1. todo'[x] = todo[x]
        BY <2>1, <3>3
      <4>. QED BY <1>0, <4>1 DEF Structure
    <3>. QED BY <3>2, <3>3
  <2>8. Structure'
    BY <2>1, <2>5, <2>7 DEF Structure
  <2>. QED BY <1>0, <1>1, <2>1, <2>8 DEF TypeOK
<1>5. ASSUME NEW c \in Clusters, WriteFails(c) PROVE Typed'
  <2>1. /\ UNCHANGED <<revision, status, object, disabled, pc, inc, next>>
        /\ broken' = TRUE /\ events' \in 0 .. MaxEvents
        /\ todo' \in [Clusters -> Seq(Orders)] /\ todo'[c] = <<>>
        /\ \A x \in Clusters \ {c} : todo'[x] = todo[x]
        /\ pc = "writing"
    BY <1>5, FailureStops
  <2>2. \A n \in 1 .. Len(todo'[c]) : FALSE
    BY <2>1
  <2>3. Structure'
    BY <1>0, <2>1, <2>2 DEF Structure
  <2>. QED BY <1>0, <1>1, <2>1, <2>3 DEF TypeOK
<1>6. ASSUME NEW c \in Clusters, Acts(c) PROVE Typed'
  <2>1. /\ UNCHANGED <<revision, disabled, status, pc, inc, next, todo, broken>>
        /\ events' \in 0 .. MaxEvents /\ DOMAIN object' = Clusters
        /\ \A x \in Clusters \ {c} : object'[x] = object[x]
        /\ DOMAIN object'[c] = DOMAIN object[c]
        /\ \A k \in DOMAIN object[c] \ {"ReplicaSet"} : object'[c][k] = object[c][k]
        /\ object'[c]["ReplicaSet"] \in RS
    BY <1>6, ClusterActs
  <2>2. Objects(object[c]) /\ "ReplicaSet" \notin AutoscalerKinds
    BY <1>0 DEF Structure, AutoscalerKinds
  <2>3. Objects(object'[c])
    BY <2>1, <2>2 DEF Objects, Has
  <2>4. \A x \in Clusters : Objects(object'[x])
    BY <1>0, <2>1, <2>3 DEF Structure
  <2>5. Structure'
    BY <1>0, <2>1, <2>4 DEF Structure
  <2>. QED BY <1>0, <1>1, <2>1, <2>5 DEF TypeOK
<1>7. CASE Outside
  <2>1. /\ UNCHANGED <<object, reconcile>>
        /\ revision' \in Revision /\ disabled' \in [Clusters -> BOOLEAN]
        /\ events' \in 0 .. MaxEvents
    BY <1>7, OutsideActs
  <2>2. UNCHANGED <<object, status, pc, inc, next, todo, broken>>
    BY <2>1 DEF reconcile
  <2>3. Structure'
    BY <1>0, <2>2 DEF Structure
  <2>. QED BY <1>0, <1>1, <2>1, <2>2, <2>3 DEF TypeOK
<1>8. CASE UNCHANGED vars
  BY <1>0, <1>8 DEF Typed, TypeOK, Structure, vars, Replicated
<1>. QED BY <1>2, <1>3, <1>4, <1>5, <1>6, <1>7, <1>8, NextIs

\* Nothing is left of an empty plan.
LEMMA NoMembers == Members(<<>>) = {}
BY DEF Members

\* At first nothing is known and nothing exists.
LEMMA InitForgotten == Init => Forgotten
BY DEF Init, Forgotten, NewStatus

\* A revision is forgotten only by the reconcile that deleted everything it had.
LEMMA NextForgotten ==
  ASSUME Typed, Forgotten, [Next]_vars
  PROVE  Forgotten'
<1>0. TypeOK /\ Structure
  BY DEF Typed
<1>1. ASSUME NEW late \in Timeouts, NEW pending \in {FALSE, CanaryPercent[Tag] > 0},
             NEW permits \in Schedules, Begin(late, pending, permits)
      PROVE  Forgotten'
  <2>1. /\ UNCHANGED <<revision, status, object, disabled, events>>
        /\ pc = "idle" /\ pc' = "writing" /\ broken' = FALSE
    BY <1>1, BeginDecides
  <2>2. PICK i, d : /\ i.cur \in Percents
                    /\ d.state = status.state /\ d.rev = revision.present
                    /\ next' = Handle(d).next
                    /\ todo' = [c \in Clusters |-> Writes(Handle(d).calls, i, c)]
    BY <1>1, BeginDecides
  <2>3. d.state \in States
    BY <1>0, <2>2 DEF TypeOK, Status
  <2>4. \A c \in Clusters : todo'[c] = Writes(Handle(d).calls, i, c)
    BY <2>2
  <2>5. ASSUME ~status.known, NEW c \in Clusters
        PROVE  todo'[c] = <<>>
    <3>1. d.state = "created"
      BY <2>2, <2>5 DEF Forgotten
    <3>2. {"sync", "retire", "del"} \cap Called(d) = {}
      BY <2>3, <3>1, Handled
    <3>. QED BY <1>0, <2>2, <2>4, <3>2, WrittenPlan
  <2>6. ASSUME next' = "deleted", NEW c \in Clusters
        PROVE  ~revision.present /\ Members(todo'[c]) = {Del(k) : k \in TaggedKinds}
    <3>1. d.state # "deleted"
      BY <2>2 DEF Forgotten
    <3>2. ~d.rev /\ "del" \in Called(d) /\ {"sync", "retire"} \cap Called(d) = {}
      BY <2>2, <2>3, <2>6, <3>1, Handled
    <3>. QED BY <1>0, <2>2, <2>4, <3>2, WrittenPlan
  <2>7. ASSUME next' = "deleted"
        PROVE  /\ ~revision.present
               /\ \A c \in Clusters :
                    /\ \A w \in Members(todo'[c]) : w.op = "delete"
                    /\ \A k \in DOMAIN object[c] : Del(k) \in Members(todo'[c])
    <3>1. ~revision.present
      <4>1. d.state # "deleted"
        BY <2>2 DEF Forgotten
      <4>. QED BY <2>2, <2>3, <2>7, <4>1, Handled
    <3>2. SUFFICES ASSUME NEW c \in Clusters
                   PROVE  /\ \A w \in Members(todo'[c]) : w.op = "delete"
                          /\ \A k \in DOMAIN object[c] : Del(k) \in Members(todo'[c])
      BY <3>1
    <3>3. Members(todo'[c]) = {Del(k) : k \in TaggedKinds}
      BY <2>6, <2>7
    <3>4. DOMAIN object[c] \subseteq TaggedKinds
      BY <1>0 DEF TypeOK
    <3>. QED BY <3>3, <3>4, PlainDelete
  <2>8. /\ ~status'.known =>
             status'.state = "created" /\ \A c \in Clusters : DOMAIN object'[c] = {} /\ todo'[c] = <<>>
        /\ status'.state # "deleted"
    BY <2>1, <2>5 DEF Forgotten
  <2>. QED BY <2>1, <2>7, <2>8 DEF Forgotten, Rest
<1>2. CASE Finish
  <2>1. /\ UNCHANGED <<revision, object, disabled, todo, events>>
        /\ pc = "writing" /\ pc' = "idle" /\ \A c \in Clusters : todo[c] = <<>>
    BY <1>2, FinishPersists
  <2>2. \/ broken /\ status' = status
        \/ ~broken /\ next = "deleted" /\ ~revision.present /\ status' = NewStatus
        \/ /\ ~broken /\ ~(next = "deleted" /\ ~revision.present)
           /\ status' \in Status /\ status'.known /\ status'.state = next
    BY <1>2, FinishPersists
  <2>3. CASE broken /\ status' = status
    BY <2>1, <2>3 DEF Forgotten
  <2>4. CASE ~broken /\ next = "deleted" /\ status' = NewStatus
    <3>1. \A c \in Clusters : Rest(c) = {}
      BY <2>1, NoMembers DEF Rest
    <3>2. \A c \in Clusters : DOMAIN object[c] = {}
      BY <2>1, <2>4, <3>1 DEF Forgotten
    <3>. QED BY <2>1, <2>4, <3>2 DEF Forgotten, NewStatus
  <2>5. CASE /\ ~broken /\ ~(next = "deleted" /\ ~revision.present)
             /\ status'.known /\ status'.state = next
    BY <2>1, <2>5 DEF Forgotten
  <2>. QED BY <2>2, <2>3, <2>4, <2>5
<1>3. ASSUME NEW c \in Clusters, Write(c) PROVE Forgotten'
  <2>1. /\ UNCHANGED <<revision, status, disabled, pc, inc, next, broken, events>>
        /\ todo[c] \in Seq(Orders) /\ todo[c] # <<>>
        /\ object'[c] = Effect(object[c], Head(todo[c])) /\ todo'[c] = Tail(todo[c])
        /\ \A x \in Clusters \ {c} : object'[x] = object[x] /\ todo'[x] = todo[x]
        /\ pc = "writing"
    BY <1>3, WriteWrites
  <2>2. status.known
    BY <2>1 DEF Forgotten
  <2> DEFINE o == object[c]
             w == Head(todo[c])
  <2>3. /\ w \in Orders /\ w \in Rest(c) /\ Members(todo'[c]) \subseteq Rest(c)
        /\ \A v \in Rest(c) : v = w \/ v \in Members(todo'[c])
    BY <2>1, HeadAndTail DEF Rest
  <2>4. Objects(o) /\ object'[c] = Effect(o, w)
    BY <1>0, <2>1 DEF Structure
  <2>5. ASSUME next = "deleted"
        PROVE  /\ \A v \in Members(todo'[c]) : v.op = "delete"
               /\ ~broken => \A k \in DOMAIN object'[c] : Del(k) \in Members(todo'[c])
    <3>1. w.op = "delete" /\ \A v \in Rest(c) : v.op = "delete"
      BY <2>1, <2>3, <2>5 DEF Forgotten
    <3>2. DOMAIN object'[c] = DOMAIN o \ {w.kind}
      <4>. HIDE DEF o, w
      <4>. QED BY <2>3, <2>4, <3>1, EffectIs
    <3>3. ASSUME ~broken, NEW k \in DOMAIN object'[c]
          PROVE  Del(k) \in Members(todo'[c])
      <4>1. k \in DOMAIN o /\ k # w.kind /\ Del(k) \in Rest(c)
        BY <2>1, <2>5, <3>2, <3>3 DEF Forgotten
      <4>2. Del(k) # w
        BY <4>1 DEF Del
      <4>. QED BY <2>3, <4>1, <4>2
    <3>. QED BY <2>3, <3>1, <3>3
  <2>6. ASSUME next = "deleted", NEW x \in Clusters
        PROVE  /\ \A v \in Members(todo'[x]) : v.op = "delete"
               /\ ~broken => \A k \in DOMAIN object'[x] : Del(k) \in Members(todo'[x])
    <3>1. CASE x = c
      BY <2>5, <2>6, <3>1
    <3>2. CASE x # c
      <4>1. object'[x] = object[x] /\ todo'[x] = todo[x]
        BY <2>1, <3>2
      <4>. QED BY <2>1, <2>6, <4>1 DEF Forgotten, Rest
    <3>. QED BY <3>1, <3>2
  <2>. QED BY <2>1, <2>2, <2>6 DEF Forgotten, Rest
<1>4. ASSUME NEW c \in Clusters, WriteFails(c) PROVE Forgotten'
  <2>1. /\ UNCHANGED <<revision, status, object, disabled, pc, inc, next>>
        /\ broken' = TRUE /\ todo'[c] = <<>>
        /\ \A x \in Clusters \ {c} : todo'[x] = todo[x]
        /\ pc = "writing"
    BY <1>4, FailureStops
  <2>2. Members(todo'[c]) = {}
    BY <2>1, NoMembers
  <2>3. ASSUME next = "deleted", NEW x \in Clusters
        PROVE  \A v \in Members(todo'[x]) : v.op = "delete"
    <3>1. CASE x = c
      BY <2>2, <3>1
    <3>2. CASE x # c
      <4>1. todo'[x] = todo[x]
        BY <2>1, <3>2
      <4>. QED BY <2>1, <2>3, <4>1 DEF Forgotten, Rest
    <3>. QED BY <3>1, <3>2
  <2>4. \A x \in Clusters : todo[x] = <<>> => todo'[x] = <<>>
    BY <2>1
  <2>. QED BY <2>1, <2>3, <2>4 DEF Forgotten, Rest
<1>5. ASSUME NEW c \in Clusters, Acts(c) PROVE Forgotten'
  <2>1. /\ UNCHANGED <<revision, disabled, status, pc, inc, next, todo, broken>>
        /\ \A x \in Clusters \ {c} : object'[x] = object[x]
        /\ DOMAIN object'[c] = DOMAIN object[c]
    BY <1>5, ClusterActs
  <2>2. \A x \in Clusters : DOMAIN object'[x] = DOMAIN object[x] /\ Rest(x)' = Rest(x)
    BY <2>1 DEF Rest
  <2>. QED BY <2>1, <2>2 DEF Forgotten
<1>6. CASE Outside
  <2>1. UNCHANGED <<object, status, pc, inc, next, todo, broken>> /\ pc = "idle"
    BY <1>6, OutsideActs DEF reconcile
  <2>. QED BY <2>1 DEF Forgotten, Rest
<1>7. CASE UNCHANGED vars
  BY <1>7 DEF Forgotten, Rest, vars
<1>. QED BY <1>1, <1>2, <1>3, <1>4, <1>5, <1>6, <1>7, NextIs

\* At first nothing is retired.
LEMMA InitStopped == Init => Stopped
BY DEF Init, Stopped, NewStatus, Settling

\* Retiring: Write makes one order, and what it was in the way of is gone.
LEMMA NextStopped ==
  ASSUME Typed, Stopped, [Next]_vars
  PROVE  Stopped'
<1>0. TypeOK /\ Structure
  BY DEF Typed
<1>1. ASSUME NEW late \in Timeouts, NEW pending \in {FALSE, CanaryPercent[Tag] > 0},
             NEW permits \in Schedules, Begin(late, pending, permits)
      PROVE  Stopped'
  <2>1. /\ UNCHANGED <<revision, status, object, disabled, events>>
        /\ pc = "idle" /\ pc' = "writing" /\ broken' = FALSE
    BY <1>1, BeginDecides
  <2>2. PICK i, d : /\ i.cur \in Percents
                    /\ d.state = status.state /\ d.rev = revision.present
                    /\ next' = Handle(d).next
                    /\ todo' = [c \in Clusters |-> Writes(Handle(d).calls, i, c)]
    BY <1>1, BeginDecides
  <2>3. d.state \in States
    BY <1>0, <2>2 DEF TypeOK, Status
  <2>4. \A c \in Clusters : todo'[c] = Writes(Handle(d).calls, i, c)
    BY <2>2
  <2>5. ASSUME status.state \in Settling, NEW c \in Clusters
        PROVE  \A w \in Members(todo'[c]) : w.op \in {"delete", "zero"}
    <3>1. "sync" \notin Called(d)
      BY <2>2, <2>3, <2>5, Handled DEF Settling
    <3>. QED BY <1>0, <2>2, <2>4, <3>1, WrittenPlan
  <2>6. ASSUME next' \in Settling, NEW c \in Clusters
        PROVE  /\ \A w \in Members(todo'[c]) : w.op \in {"delete", "zero"}
               /\ {Del("WPA"), Del("ScaledObject"), Zero} \subseteq Members(todo'[c])
    <3>1. "sync" \notin Called(d) /\ "retire" \in Called(d)
      BY <2>2, <2>3, <2>6, Handled DEF Settling
    <3>. QED BY <1>0, <2>2, <2>4, <3>1, WrittenPlan
  <2>7. next' \in Settling => \A c \in Clusters : Down(c)'
    BY <2>6 DEF Down, Rest
  <2>. QED BY <2>1, <2>5, <2>6, <2>7 DEF Stopped, Rest, Replicated
<1>2. CASE Finish
  <2>1. /\ UNCHANGED <<revision, object, disabled, todo, events>>
        /\ pc = "writing" /\ pc' = "idle" /\ \A c \in Clusters : todo[c] = <<>>
    BY <1>2, FinishPersists
  <2>2. \A c \in Clusters : Rest(c) = {} /\ Rest(c)' = {}
    BY <2>1, NoMembers DEF Rest
  <2>3. \/ broken /\ status' = status
        \/ ~broken /\ next = "deleted" /\ ~revision.present /\ status' = NewStatus
        \/ /\ ~broken /\ ~(next = "deleted" /\ ~revision.present)
           /\ status' \in Status /\ status'.known /\ status'.state = next
    BY <1>2, FinishPersists
  <2>4. CASE broken /\ status' = status
    BY <2>1, <2>4 DEF Stopped, Rest, Replicated
  <2>5. CASE status' = NewStatus
    BY <2>1, <2>5 DEF Stopped, NewStatus, Settling
  <2>6. CASE ~broken /\ status'.state = next
    <3>1. ASSUME next \in Settling, NEW c \in Clusters
          PROVE  /\ ~Has(object[c], "WPA") /\ ~Has(object[c], "ScaledObject")
                 /\ Has(object[c], "ReplicaSet") => Replicated(c).replicas = 0
      <4>1. Down(c)
        BY <2>1, <2>6, <3>1 DEF Stopped
      <4>. QED BY <2>2, <4>1 DEF Down
    <3>. QED BY <2>1, <2>2, <2>6, <3>1 DEF Stopped, Replicated
  <2>. QED BY <2>3, <2>4, <2>5, <2>6
<1>3. ASSUME NEW c \in Clusters, Write(c) PROVE Stopped'
  <2>1. /\ UNCHANGED <<revision, status, disabled, pc, inc, next, broken, events>>
        /\ todo[c] \in Seq(Orders) /\ todo[c] # <<>>
        /\ object'[c] = Effect(object[c], Head(todo[c])) /\ todo'[c] = Tail(todo[c])
        /\ \A x \in Clusters \ {c} : object'[x] = object[x] /\ todo'[x] = todo[x]
        /\ pc = "writing"
    BY <1>3, WriteWrites
  <2> DEFINE o == object[c]
             w == Head(todo[c])
             e == object'[c]
  <2>2. /\ w \in Orders /\ w \in Rest(c) /\ Rest(c)' \subseteq Rest(c)
        /\ \A v \in Rest(c) : v = w \/ v \in Rest(c)'
    BY <2>1, HeadAndTail DEF Rest
  <2>3. w = Zero => Rest(c)' = {}
    <3>1. /\ Len(todo[c]) \in Nat /\ Len(todo[c]) >= 1 /\ w = todo[c][1]
          /\ Len(todo'[c]) = Len(todo[c]) - 1
      BY <2>1, HeadAndTail
    <3>. HIDE DEF w
    <3>2. 1 \in 1 .. Len(todo[c]) /\ \A n \in 1 .. Len(todo[c]) : todo[c][n] = Zero => n = Len(todo[c])
      BY <1>0, <3>1 DEF Structure
    <3>3. w = Zero => Len(todo[c]) = 1
      BY <3>1, <3>2
    <3>4. w = Zero => Len(todo'[c]) = 0
      BY <3>1, <3>3
    <3>5. 1 .. 0 = {}
      OBVIOUS
    <3>. QED BY <3>4, <3>5 DEF Rest, Members
  <2>4. Objects(o) /\ e = Effect(o, w)
    BY <1>0, <2>1 DEF Structure
  <2>5. ASSUME w.op \in {"delete", "zero"}
        PROVE  /\ w.op = "delete" => /\ DOMAIN e = DOMAIN o \ {w.kind}
                                     /\ Has(e, "ReplicaSet") => e["ReplicaSet"] = o["ReplicaSet"]
               /\ w.op = "zero" => /\ DOMAIN e = DOMAIN o
                                   /\ Has(e, "ReplicaSet") => e["ReplicaSet"].replicas = 0
    <3>. HIDE DEF o, w, e
    <3>. QED BY <2>2, <2>4, EffectIs
  <2>6. ASSUME status.state \in Settling
        PROVE  /\ ~Has(e, "WPA") /\ ~Has(e, "ScaledObject")
               /\ Has(e, "ReplicaSet") => e["ReplicaSet"].replicas = 0
               /\ \A v \in Rest(c)' : v.op \in {"delete", "zero"}
    <3>1. /\ ~Has(o, "WPA") /\ ~Has(o, "ScaledObject")
          /\ Has(o, "ReplicaSet") => o["ReplicaSet"].replicas = 0
          /\ \A v \in Rest(c) : v.op \in {"delete", "zero"}
      BY <2>6 DEF Stopped, Replicated
    <3>. HIDE DEF o, w, e
    <3>. QED BY <2>2, <2>5, <3>1 DEF Has
  <2>7. ASSUME next \in Settling
        PROVE  \A v \in Rest(c)' : v.op \in {"delete", "zero"}
    BY <2>1, <2>2, <2>7 DEF Stopped
  <2>8. ASSUME next \in Settling, ~broken
        PROVE  Down(c)'
    <3>1. /\ Has(o, "WPA") => Del("WPA") \in Rest(c)
          /\ Has(o, "ScaledObject") => Del("ScaledObject") \in Rest(c)
          /\ Has(o, "ReplicaSet") /\ o["ReplicaSet"].replicas # 0 => Zero \in Rest(c)
          /\ Has(o, "WPA") \/ Has(o, "ScaledObject") => Zero \in Rest(c)
      BY <2>1, <2>8 DEF Stopped, Down, Replicated
    <3>2. w.op \in {"delete", "zero"}
      BY <2>1, <2>2, <2>8 DEF Stopped
    <3>3. /\ Has(e, "WPA") => Has(o, "WPA") /\ w # Del("WPA")
          /\ Has(e, "ScaledObject") => Has(o, "ScaledObject") /\ w # Del("ScaledObject")
      <4>. HIDE DEF o, w, e
      <4>. QED BY <2>5, <3>2 DEF Has, Del
    <3>4. /\ Has(e, "WPA") => Del("WPA") \in Rest(c)'
          /\ Has(e, "ScaledObject") => Del("ScaledObject") \in Rest(c)'
      BY <2>2, <3>1, <3>3
    <3>5. Has(e, "ReplicaSet") /\ e["ReplicaSet"].replicas # 0 => Zero \in Rest(c)'
      <4>1. SUFFICES ASSUME Has(e, "ReplicaSet"), e["ReplicaSet"].replicas # 0
                     PROVE  Zero \in Rest(c)'
        OBVIOUS
      <4>. HIDE DEF o, w, e
      <4>2. w.op = "delete" /\ Has(o, "ReplicaSet") /\ o["ReplicaSet"].replicas # 0
        BY <2>5, <3>2, <4>1 DEF Has
      <4>3. w # Zero
        BY <4>2 DEF Zero
      <4>. QED BY <2>2, <3>1, <4>2, <4>3
    <3>6. Has(e, "WPA") \/ Has(e, "ScaledObject") => Zero \in Rest(c)'
      <4>1. w # Zero \/ ~(Has(e, "WPA") \/ Has(e, "ScaledObject"))
        BY <2>3, <3>4
      <4>. QED BY <2>2, <3>1, <3>3, <4>1
    <3>. QED BY <3>4, <3>5, <3>6 DEF Down, Replicated
  <2>9. \A x \in Clusters \ {c} : object'[x] = object[x] /\ Rest(x)' = Rest(x)
    BY <2>1 DEF Rest
  <2>10. ASSUME NEW x \in Clusters
         PROVE  /\ status.state \in Settling =>
                     /\ ~Has(object'[x], "WPA") /\ ~Has(object'[x], "ScaledObject")
                     /\ Has(object'[x], "ReplicaSet") => object'[x]["ReplicaSet"].replicas = 0
                     /\ \A v \in Rest(x)' : v.op \in {"delete", "zero"}
                /\ next \in Settling =>
                     /\ \A v \in Rest(x)' : v.op \in {"delete", "zero"}
                     /\ ~broken => Down(x)'
    <3>1. CASE x = c
      BY <2>6, <2>7, <2>8, <3>1
    <3>2. CASE x # c
      BY <2>1, <2>9, <3>2 DEF Stopped, Down, Replicated
    <3>. QED BY <3>1, <3>2
  <2>. HIDE DEF o, w, e
  <2>. QED BY <2>1, <2>10 DEF Stopped, Replicated
<1>4. ASSUME NEW c \in Clusters, WriteFails(c) PROVE Stopped'
  <2>1. /\ UNCHANGED <<revision, status, object, disabled, pc, inc, next>>
        /\ broken' = TRUE /\ todo'[c] = <<>>
        /\ \A x \in Clusters \ {c} : todo'[x] = todo[x]
        /\ pc = "writing"
    BY <1>4, FailureStops
  <2>2. \A x \in Clusters : Rest(x)' \subseteq Rest(x)
    <3>1. Rest(c)' = {}
      BY <2>1, NoMembers DEF Rest
    <3>2. \A x \in Clusters \ {c} : Rest(x)' = Rest(x)
      BY <2>1 DEF Rest
    <3>. QED BY <3>1, <3>2
  <2>. QED BY <2>1, <2>2 DEF Stopped, Replicated
<1>5. ASSUME NEW c \in Clusters, Acts(c) PROVE Stopped'
  <2>1. /\ UNCHANGED <<revision, disabled, status, pc, inc, next, todo, broken>>
        /\ \A x \in Clusters \ {c} : object'[x] = object[x]
        /\ DOMAIN object'[c] = DOMAIN object[c] /\ Has(object[c], "ReplicaSet")
    BY <1>5, ClusterActs
  <2>2. \A x \in Clusters : DOMAIN object'[x] = DOMAIN object[x] /\ Rest(x)' = Rest(x)
    BY <2>1 DEF Rest
  <2>3. \/ Has(object[c], "WPA") \/ Has(object[c], "ScaledObject")
        \/ Replicated(c)'.replicas = Replicated(c).replicas
        \/ Replicated(c).replicas # 0
    <3>1. DOMAIN object = Clusters
      BY <1>0 DEF TypeOK
    <3>2. CASE \E k \in AutoscalerKinds : Autoscale(c, k)
      <4>1. PICK k \in AutoscalerKinds : Autoscale(c, k)
        BY <3>2
      <4>2. Has(object[c], k) /\ \E r \in Allowed(c, k) : r # Replicated(c).replicas
        BY <4>1 DEF Autoscale
      <4>. QED BY <4>2 DEF Allowed, AutoscalerKinds
    <3>3. CASE PodsStart(c) \/ PodsLost(c)
      <4>1. PICK n : object' = [object EXCEPT ![c]["ReplicaSet"].ready = n]
        BY <3>3 DEF PodsStart, PodsLost
      <4>2. object'[c] = [object[c] EXCEPT !["ReplicaSet"].ready = n]
        BY <3>1, <4>1
      <4>3. object'[c]["ReplicaSet"] = [object[c]["ReplicaSet"] EXCEPT !.ready = n]
        BY <2>1, <4>2 DEF Has
      <4>4. object'[c]["ReplicaSet"].replicas = object[c]["ReplicaSet"].replicas
        <5>1. object[c]["ReplicaSet"] \in RS
          BY <1>0, <2>1 DEF Structure, Objects
        <5>. QED BY <4>3, <5>1 DEF RS
      <4>. QED BY <4>4 DEF Replicated
    <3>. QED BY <1>5, <3>2, <3>3 DEF Acts
  <2>4. ASSUME next \in Settling, pc = "writing", ~broken, NEW x \in Clusters
        PROVE  Down(x)'
    <3>1. Down(x)
      BY <2>4 DEF Stopped
    <3>2. CASE x = c
      BY <2>1, <2>2, <2>3, <3>1, <3>2 DEF Down, Replicated, Has
    <3>3. CASE x # c
      BY <2>1, <2>2, <3>1, <3>3 DEF Down, Replicated
    <3>. QED BY <3>2, <3>3
  <2>5. ASSUME status.state \in Settling, NEW x \in Clusters
        PROVE  /\ ~Has(object'[x], "WPA") /\ ~Has(object'[x], "ScaledObject")
               /\ Has(object'[x], "ReplicaSet") => Replicated(x)'.replicas = 0
    <3>1. /\ ~Has(object[x], "WPA") /\ ~Has(object[x], "ScaledObject")
          /\ Has(object[x], "ReplicaSet") => Replicated(x).replicas = 0
      BY <2>5 DEF Stopped
    <3>2. CASE x = c
      BY <2>1, <2>3, <3>1, <3>2 DEF Has
    <3>3. CASE x # c
      BY <2>1, <3>1, <3>3 DEF Replicated
    <3>. QED BY <3>2, <3>3
  <2>. QED BY <2>1, <2>2, <2>4, <2>5 DEF Stopped
<1>6. CASE Outside
  <2>1. UNCHANGED <<object, status, pc, inc, next, todo, broken>> /\ pc = "idle"
    BY <1>6, OutsideActs DEF reconcile
  <2>. QED BY <2>1 DEF Stopped, Rest, Replicated
<1>7. CASE UNCHANGED vars
  BY <1>7 DEF Stopped, Rest, Down, Replicated, vars
<1>. QED BY <1>1, <1>2, <1>3, <1>4, <1>5, <1>6, <1>7, NextIs

\* At first there is no autoscaler.
LEMMA InitAlone == Init => Alone /\ Accepts
<1> SUFFICES ASSUME Init PROVE Alone /\ Accepts
  OBVIOUS
<1>1. \A c \in Clusters : DOMAIN object[c] = {} /\ todo[c] = <<>>
  BY DEF Init
<1>2. \A c \in Clusters : 1 .. Len(todo[c]) = {} /\ Rest(c) = {}
  BY <1>1, NoMembers DEF Rest
<1>3. ASSUME NEW c \in Clusters PROVE AloneIn(c) /\ AcceptsIn(c)
  <2>1. DOMAIN object[c] = {} /\ 1 .. Len(todo[c]) = {} /\ Rest(c) = {}
    BY <1>1, <1>2
  <2>2. AloneIn(c)
    BY <2>1 DEF AloneIn, Has
  <2>3. AcceptsIn(c)
    BY <2>1 DEF AcceptsIn
  <2>. QED BY <2>2, <2>3
<1>. QED BY <1>3 DEF Alone, Accepts

\* What each plan that Begin starts puts.
LEMMA BeginFits ==
  ASSUME Typed, NEW late, NEW pending, NEW permits, Begin(late, pending, permits)
  PROVE  \A c \in Clusters : ScalersFit(todo'[c])
<1>1. PICK i, d : /\ i.cur \in Percents
                  /\ todo' = [c \in Clusters |-> Writes(Handle(d).calls, i, c)]
  BY BeginDecides
<1>2. TypeOK
  BY DEF Typed
<1>. QED BY <1>1, <1>2, WrittenPlan

\* A write leaves the revision one autoscaler: the HPA is gone when KEDA comes.
LEMMA WriteAlone ==
  ASSUME Typed, NEW c \in Clusters, AloneIn(c), Write(c)
  PROVE  AloneIn(c)'
<1>1. /\ UNCHANGED <<revision, status, disabled, pc, inc, next, broken, events>>
      /\ todo[c] \in Seq(Orders) /\ todo[c] # <<>>
      /\ object'[c] = Effect(object[c], Head(todo[c])) /\ todo'[c] = Tail(todo[c])
  BY WriteWrites
<1> DEFINE o == object[c]
           w == Head(todo[c])
           e == object'[c]
           s == todo[c]
           r == todo'[c]
<1>2. /\ w \in Orders /\ w = s[1] /\ Len(s) \in Nat /\ Len(s) >= 1 /\ Len(r) = Len(s) - 1
      /\ \A n \in 1 .. Len(s) - 1 : r[n] = s[n + 1]
  BY <1>1, HeadAndTail
<1>3. Objects(o) /\ e = Effect(o, w)
  BY <1>1 DEF Typed, Structure
<1>4. revision.scaler \in ScalerKinds /\ revision' = revision
  BY <1>1 DEF Typed, TypeOK, Revision
<1>5. /\ AutoscalerKinds \cap DOMAIN o \subseteq Owns(revision.scaler)
      /\ ~(Has(o, "HPA") /\ Has(o, "ScaledObject"))
      /\ \A n \in 1 .. Len(s) : Scales(s[n]) =>
           /\ s[n].kind \in Owns(revision.scaler)
           /\ revision.scaler = "ambient" =>
                /\ s[n].kind = "ScaledObject"
                /\ ~Has(o, "HPA") \/ \E m \in 1 .. n - 1 : s[m] = Del("HPA")
  BY DEF AloneIn
<1>6. AloneIn(c)' = (/\ AutoscalerKinds \cap DOMAIN e \subseteq Owns(revision.scaler)
                     /\ ~(Has(e, "HPA") /\ Has(e, "ScaledObject"))
                     /\ \A n \in 1 .. Len(r) : Scales(r[n]) =>
                          /\ r[n].kind \in Owns(revision.scaler)
                          /\ revision.scaler = "ambient" =>
                               /\ r[n].kind = "ScaledObject"
                               /\ ~Has(e, "HPA") \/ \E m \in 1 .. n - 1 : r[m] = Del("HPA"))
  BY <1>4 DEF AloneIn
<1>. HIDE DEF o, w, e, s, r
<1>7. /\ \A k \in AutoscalerKinds \cap DOMAIN e :
           (w.op = "put" /\ w.kind = k) \/ k \in DOMAIN o
      /\ w.op = "delete" => DOMAIN e = DOMAIN o \ {w.kind}
  <2>1. /\ \A k \in AutoscalerKinds \cap DOMAIN Effect(o, w) :
             \/ w.op = "put" /\ w.kind = k /\ Effect(o, w)[k] = w.content
             \/ k \in DOMAIN o /\ Effect(o, w)[k] = o[k]
        /\ w.op = "delete" => DOMAIN Effect(o, w) = DOMAIN o \ {w.kind}
    <3>1. Objects(o) /\ w \in Orders
      BY <1>2, <1>3
    <3>. QED BY <3>1, EffectIs
  <2>. QED BY <1>3, <2>1
<1>8. 1 \in 1 .. Len(s) /\ 1 .. 1 - 1 = {}
  BY <1>2
<1>9. Scales(w) => /\ w.kind \in Owns(revision.scaler)
                   /\ revision.scaler = "ambient" => w.kind = "ScaledObject" /\ ~Has(o, "HPA")
  BY <1>2, <1>5, <1>8
<1>10. AutoscalerKinds \cap DOMAIN e \subseteq Owns(revision.scaler)
  BY <1>5, <1>7, <1>9 DEF Scales
<1>11. Has(e, "HPA") => Has(o, "HPA") \/ (Scales(w) /\ w.kind = "HPA")
  BY <1>7 DEF Has, Scales, AutoscalerKinds
<1>12. ~(Has(e, "HPA") /\ Has(e, "ScaledObject"))
  <2>1. CASE revision.scaler = "ambient"
    <3>1. ASSUME Has(e, "HPA"), Has(e, "ScaledObject") PROVE FALSE
      <4>1. Has(o, "HPA") /\ ~Scales(w)
        BY <1>9, <1>11, <2>1, <3>1
      <4>2. Has(o, "ScaledObject")
        BY <1>7, <3>1, <4>1 DEF Has, Scales, AutoscalerKinds
      <4>. QED BY <1>5, <4>1, <4>2
    <3>. QED BY <3>1
  <2>2. CASE revision.scaler # "ambient"
    <3>1. ~({"HPA", "ScaledObject"} \subseteq Owns(revision.scaler))
      BY <1>4, <2>2 DEF Owns, ScalerKinds
    <3>. QED BY <1>10, <3>1 DEF Has, AutoscalerKinds
  <2>. QED BY <2>1, <2>2
<1>13. ASSUME NEW n \in 1 .. Len(r), Scales(r[n])
       PROVE  /\ r[n].kind \in Owns(revision.scaler)
              /\ revision.scaler = "ambient" =>
                   /\ r[n].kind = "ScaledObject"
                   /\ ~Has(e, "HPA") \/ \E m \in 1 .. n - 1 : r[m] = Del("HPA")
  <2>1. n \in 1 .. Len(s) - 1 /\ n + 1 \in 1 .. Len(s) /\ n \in Nat
    BY <1>2
  <2>2. r[n] = s[n + 1]
    BY <1>2, <2>1
  <2>3. /\ r[n].kind \in Owns(revision.scaler)
        /\ revision.scaler = "ambient" =>
             /\ r[n].kind = "ScaledObject"
             /\ ~Has(o, "HPA") \/ \E m \in 1 .. (n + 1) - 1 : s[m] = Del("HPA")
    BY <1>5, <1>13, <2>1, <2>2
  <2>4. ASSUME revision.scaler = "ambient", ~Has(o, "HPA")
        PROVE  ~Has(e, "HPA")
    BY <1>9, <1>11, <2>4
  <2>5. ASSUME NEW m \in 1 .. (n + 1) - 1, s[m] = Del("HPA")
        PROVE  ~Has(e, "HPA") \/ \E x \in 1 .. n - 1 : r[x] = Del("HPA")
    <3>1. CASE m = 1
      <4>1. w.op = "delete" /\ w.kind = "HPA"
        BY <1>2, <2>5, <3>1 DEF Del
      <4>. QED BY <1>7, <4>1 DEF Has
    <3>2. CASE m # 1
      <4>1. m - 1 \in 1 .. n - 1 /\ m - 1 \in 1 .. Len(s) - 1 /\ (m - 1) + 1 = m
        BY <1>2, <2>1, <3>2
      <4>. QED BY <1>2, <2>5, <4>1
    <3>. QED BY <3>1, <3>2
  <2>. QED BY <2>3, <2>4, <2>5
<1>. QED BY <1>6, <1>10, <1>12, <1>13

\* Every step does, if an autoscaler takes over what was before it.
LEMMA NextAlone ==
  ASSUME TakesOver, Typed, Forgotten, Alone, [Next]_vars
  PROVE  Alone'
<1>0. TypeOK /\ Structure /\ \A c \in Clusters : AloneIn(c)
  BY DEF Typed, Alone
<1>1. ASSUME \A c \in Clusters : AloneIn(c)' PROVE Alone'
  BY <1>1 DEF Alone, AloneIn
<1>2. ASSUME NEW late \in Timeouts, NEW pending \in {FALSE, CanaryPercent[Tag] > 0},
             NEW permits \in Schedules, Begin(late, pending, permits)
      PROVE  Alone'
  <2>1. UNCHANGED <<revision, object>>
    BY <1>2, BeginDecides
  <2>2. \A c \in Clusters : ScalersFit(todo'[c])
    BY <1>2, BeginFits
  <2>3. \A c \in Clusters : AloneIn(c)'
    BY <1>0, <2>1, <2>2 DEF AloneIn, ScalersFit
  <2>. QED BY <1>1, <2>3
<1>3. CASE Finish
  <2>1. UNCHANGED <<revision, object, todo>>
    BY <1>3, FinishPersists
  <2>. QED BY <2>1 DEF Alone, AloneIn
<1>4. ASSUME NEW c \in Clusters, Write(c) PROVE Alone'
  <2>1. UNCHANGED revision /\ \A x \in Clusters \ {c} : object'[x] = object[x] /\ todo'[x] = todo[x]
    BY <1>4, WriteWrites
  <2>2. AloneIn(c)'
    BY <1>0, <1>4, WriteAlone
  <2>3. \A x \in Clusters \ {c} : AloneIn(x)'
    BY <1>0, <2>1 DEF AloneIn
  <2>. QED BY <1>1, <2>2, <2>3
<1>5. ASSUME NEW c \in Clusters, WriteFails(c) PROVE Alone'
  <2>1. /\ UNCHANGED <<revision, object>> /\ todo'[c] = <<>>
        /\ \A x \in Clusters \ {c} : todo'[x] = todo[x]
    BY <1>5, FailureStops
  <2>2. 1 .. Len(todo'[c]) = {}
    BY <2>1
  <2>3. AloneIn(c)'
    BY <1>0, <2>1, <2>2 DEF AloneIn
  <2>4. \A x \in Clusters \ {c} : AloneIn(x)'
    BY <1>0, <2>1 DEF AloneIn
  <2>. QED BY <1>1, <2>3, <2>4
<1>6. ASSUME NEW c \in Clusters, Acts(c) PROVE Alone'
  <2>1. /\ UNCHANGED <<revision, todo>>
        /\ \A x \in Clusters \ {c} : object'[x] = object[x]
        /\ DOMAIN object'[c] = DOMAIN object[c]
    BY <1>6, ClusterActs
  <2>2. \A x \in Clusters : DOMAIN object'[x] = DOMAIN object[x]
    BY <2>1
  <2>3. \A x \in Clusters : AloneIn(x)'
    BY <1>0, <2>1, <2>2 DEF AloneIn, Has
  <2>. QED BY <1>1, <2>3
<1>7. CASE Outside
  <2>1. /\ UNCHANGED <<object, status, todo>> /\ pc = "idle"
        /\ \/ revision'.scaler = revision.scaler
           \/ ~status.known
           \/ <<revision.scaler, revision'.scaler>> \in Switches
    BY <1>7, OutsideActs DEF reconcile
  <2>2. \A c \in Clusters : todo[c] = <<>>
    BY <1>0, <2>1 DEF Structure
  <2>3. \A c \in Clusters : 1 .. Len(todo[c]) = {}
    BY <2>2
  <2>4. ASSUME NEW c \in Clusters
        PROVE  AutoscalerKinds \cap DOMAIN object[c] \subseteq Owns(revision'.scaler)
    <3>1. CASE revision'.scaler = revision.scaler
      BY <1>0, <3>1 DEF AloneIn
    <3>2. CASE ~status.known
      BY <3>2 DEF Forgotten
    <3>3. CASE <<revision.scaler, revision'.scaler>> \in Switches
      <4>1. Owns(revision.scaler) \subseteq Owns(revision'.scaler)
        BY <3>3 DEF TakesOver
      <4>. QED BY <1>0, <4>1 DEF AloneIn
    <3>. QED BY <2>1, <3>1, <3>2, <3>3
  <2>5. \A c \in Clusters : AloneIn(c)'
    BY <1>0, <2>1, <2>3, <2>4 DEF AloneIn
  <2>. QED BY <1>1, <2>5
<1>8. CASE UNCHANGED vars
  BY <1>8 DEF Alone, AloneIn, vars
<1>. QED BY <1>2, <1>3, <1>4, <1>5, <1>6, <1>7, <1>8, NextIs

\* A write keeps the bounds of a plan, or those that were there.
LEMMA WriteAccepts ==
  ASSUME Typed, NEW c \in Clusters, AcceptsIn(c), Write(c)
  PROVE  AcceptsIn(c)'
<1>1. /\ revision' = revision
      /\ todo[c] \in Seq(Orders) /\ todo[c] # <<>>
      /\ object'[c] = Effect(object[c], Head(todo[c])) /\ todo'[c] = Tail(todo[c])
  BY WriteWrites
<1> DEFINE o == object[c]
           w == Head(todo[c])
           e == object'[c]
<1>2. w \in Orders /\ w \in Rest(c) /\ Rest(c)' \subseteq Rest(c)
  BY <1>1, HeadAndTail DEF Rest
<1>3. Objects(o) /\ e = Effect(o, w)
  BY <1>1 DEF Typed, Structure
<1>4. /\ \A k \in AutoscalerKinds \cap DOMAIN o : Accepted(k, o[k])
      /\ Scales(w) => Accepted(w.kind, w.content)
  BY <1>2 DEF AcceptsIn
<1>5. \A v \in Rest(c)' : Scales(v) => Accepted(v.kind, v.content)
  BY <1>2 DEF AcceptsIn
<1>. HIDE DEF o, w, e
<1>6. \A k \in AutoscalerKinds \cap DOMAIN e :
        \/ w.op = "put" /\ w.kind = k /\ e[k] = w.content
        \/ k \in DOMAIN o /\ e[k] = o[k]
  <2>1. Objects(o) /\ w \in Orders
    BY <1>2, <1>3
  <2>2. \A k \in AutoscalerKinds \cap DOMAIN Effect(o, w) :
          \/ w.op = "put" /\ w.kind = k /\ Effect(o, w)[k] = w.content
          \/ k \in DOMAIN o /\ Effect(o, w)[k] = o[k]
    BY <2>1, EffectIs
  <2>. QED BY <1>3, <2>2
<1>7. \A k \in AutoscalerKinds \cap DOMAIN e : Accepted(k, e[k])
  BY <1>4, <1>6 DEF Scales
<1>8. /\ \A k \in AutoscalerKinds \cap DOMAIN object'[c] : Accepted(k, object'[c][k])
      /\ \A v \in Rest(c)' : Scales(v) => Accepted(v.kind, v.content)
  BY <1>5, <1>7 DEF e
<1>. QED BY <1>1, <1>8 DEF AcceptsIn, Accepted

\* Every step keeps the bounds acceptable.
LEMMA NextAccepts ==
  ASSUME PositiveFactors, NotFromKeda, Typed, Forgotten, Accepts, [Next]_vars
  PROVE  Accepts'
<1>0. TypeOK /\ Structure /\ \A c \in Clusters : AcceptsIn(c)
  BY DEF Typed, Accepts
<1>1. ASSUME \A c \in Clusters : AcceptsIn(c)' PROVE Accepts'
  BY <1>1 DEF Accepts
<1>2. ASSUME NEW late \in Timeouts, NEW pending \in {FALSE, CanaryPercent[Tag] > 0},
             NEW permits \in Schedules, Begin(late, pending, permits)
      PROVE  Accepts'
  <2>1. UNCHANGED <<revision, object>>
    BY <1>2, BeginDecides
  <2>2. \A c \in Clusters : ScalersFit(todo'[c])
    BY <1>2, BeginFits
  <2>3. \A c \in Clusters : \A w \in Rest(c)' : Scales(w) => Accepted(w.kind, w.content)
    BY <2>2 DEF ScalersFit, Rest, Members
  <2>4. \A c \in Clusters : AcceptsIn(c)'
    BY <1>0, <2>1, <2>3 DEF AcceptsIn, Accepted
  <2>. QED BY <1>1, <2>4
<1>3. CASE Finish
  <2>1. UNCHANGED <<revision, object, todo>>
    BY <1>3, FinishPersists
  <2>. QED BY <2>1 DEF Accepts, AcceptsIn, Accepted, Rest
<1>4. ASSUME NEW c \in Clusters, Write(c) PROVE Accepts'
  <2>1. revision' = revision /\ \A x \in Clusters \ {c} : object'[x] = object[x] /\ todo'[x] = todo[x]
    BY <1>4, WriteWrites
  <2>2. AcceptsIn(c)'
    BY <1>0, <1>4, WriteAccepts
  <2>3. \A x \in Clusters \ {c} : AcceptsIn(x)'
    BY <1>0, <2>1 DEF AcceptsIn, Accepted, Rest
  <2>. QED BY <1>1, <2>2, <2>3
<1>5. ASSUME NEW c \in Clusters, WriteFails(c) PROVE Accepts'
  <2>1. /\ UNCHANGED <<revision, object>> /\ todo'[c] = <<>>
        /\ \A x \in Clusters \ {c} : todo'[x] = todo[x]
    BY <1>5, FailureStops
  <2>2. Rest(c)' = {}
    BY <2>1, NoMembers DEF Rest
  <2>3. AcceptsIn(c)'
    BY <1>0, <2>1, <2>2 DEF AcceptsIn, Accepted
  <2>4. \A x \in Clusters \ {c} : AcceptsIn(x)'
    BY <1>0, <2>1 DEF AcceptsIn, Accepted, Rest
  <2>. QED BY <1>1, <2>3, <2>4
<1>6. ASSUME NEW c \in Clusters, Acts(c) PROVE Accepts'
  <2>1. /\ UNCHANGED <<revision, todo>>
        /\ \A x \in Clusters \ {c} : object'[x] = object[x]
        /\ DOMAIN object'[c] = DOMAIN object[c]
        /\ \A k \in DOMAIN object[c] \ {"ReplicaSet"} : object'[c][k] = object[c][k]
    BY <1>6, ClusterActs
  <2>2. "ReplicaSet" \notin AutoscalerKinds
    BY DEF AutoscalerKinds
  <2>3. AcceptsIn(c)'
    BY <1>0, <2>1, <2>2 DEF AcceptsIn, Accepted, Rest
  <2>4. \A x \in Clusters \ {c} : AcceptsIn(x)'
    BY <1>0, <2>1 DEF AcceptsIn, Accepted, Rest
  <2>. QED BY <1>1, <2>3, <2>4
<1>7. CASE Outside
  <2>1. /\ UNCHANGED <<object, status, todo>> /\ pc = "idle"
        /\ \/ revision'.scaler = revision.scaler
           \/ ~status.known
           \/ <<revision.scaler, revision'.scaler>> \in Switches
    BY <1>7, OutsideActs DEF reconcile
  <2>2. \A c \in Clusters : Rest(c)' = {}
    BY <1>0, <2>1, NoMembers DEF Structure, Rest
  <2>3. ASSUME NEW c \in Clusters, NEW k \in AutoscalerKinds \cap DOMAIN object[c]
        PROVE  Accepted(k, object[c][k])'
    <3>1. Accepted(k, object[c][k])
      BY <1>0 DEF AcceptsIn
    <3>2. revision'.scaler = revision.scaler \/ revision.scaler # "keda" \/ revision'.scaler = "keda"
      <4>1. status.known
        BY <2>3 DEF Forgotten
      <4>. QED BY <2>1, <4>1 DEF NotFromKeda
    <3>. QED BY <2>1, <3>1, <3>2 DEF Accepted
  <2>4. \A c \in Clusters : AcceptsIn(c)'
    BY <2>1, <2>2, <2>3 DEF AcceptsIn
  <2>. QED BY <1>1, <2>4
<1>8. CASE UNCHANGED vars
  BY <1>8 DEF Accepts, AcceptsIn, Accepted, Rest, vars
<1>. QED BY <1>2, <1>3, <1>4, <1>5, <1>6, <1>7, <1>8, NextIs
-----------------------------------------------------------------------------
\* The types always hold, and between reconciles no write is left: Begin makes the
\* whole list, WriteFails drops all of it in its cluster, Finish waits for every one.
THEOREM AlwaysTyped == Spec => []Typed
BY InitTyped, NextTyped, PTL DEF Spec

\* Types: percentages never exceed 100, nor the ready pods the replicas, whatever the
\* strategies of controllers/scaling and the clusters of the target.
THEOREM WellTyped == Spec => []TypeOK
BY AlwaysTyped, PTL DEF Typed

\* A revision the manager has forgotten left no object in any cluster: DeleteRevision
\* lists every kind, and a delete that failed keeps the status.
THEOREM NothingLeftBehind == Spec => []DeleteLeavesNothing
<1>1. Forgotten => DeleteLeavesNothing
  BY DEF Forgotten, DeleteLeavesNothing
<1>. QED BY <1>1, AlwaysTyped, InitForgotten, NextForgotten, PTL DEF Spec

\* Nothing runs of a retired or failed revision, in any cluster: RetireRevision
\* deletes what starts pods before it sets the replicas to zero, and a plan that
\* fails in between does not reach the state.
THEOREM StaysDown == Spec => []RetiredStaysDown
<1>1. Stopped => RetiredStaysDown
  BY DEF Stopped, Settling, RetiredStaysDown
<1>. QED BY <1>1, AlwaysTyped, InitStopped, NextStopped, PTL DEF Spec

\* An autoscaler that is alone is one.
LEMMA AloneIsOne == Typed /\ Alone => OneScaler
<1> SUFFICES ASSUME Typed, Alone, NEW c \in Clusters
             PROVE  Cardinality(AutoscalerKinds \cap DOMAIN object[c]) <= 1
  BY DEF OneScaler
<1> DEFINE S == AutoscalerKinds \cap DOMAIN object[c]
<1>1. revision.scaler \in ScalerKinds
  BY DEF Typed, TypeOK, Revision
<1>2. S \subseteq Owns(revision.scaler) /\ ~({"HPA", "ScaledObject"} \subseteq S)
  BY DEF Alone, AloneIn, Has
<1>. HIDE DEF S
<1>3. \E k \in AutoscalerKinds : S \subseteq {k}
  BY <1>1, <1>2 DEF Owns, ScalerKinds, AutoscalerKinds
<1>4. PICK k \in AutoscalerKinds : S \subseteq {k}
  BY <1>3
<1>5. IsFiniteSet({k}) /\ Cardinality({k}) = 1
  BY FS_Singleton
<1>6. Cardinality(S) <= 1
  BY <1>4, <1>5, FS_Subset
<1>. QED BY <1>6 DEF S

\* Two autoscalers never act on one ReplicaSet, also while ScaleRevision moves it
\* from one to another, if the new plan takes over what the old one wrote (TakesOver).
THEOREM AlwaysOneScaler == TakesOver => (Spec => []OneScaler)
<1> SUFFICES ASSUME TakesOver PROVE Spec => []OneScaler
  OBVIOUS
<1>1. Init => Alone
  BY InitAlone
<1>2. Typed /\ Forgotten /\ Alone /\ [Next]_vars => Alone'
  BY NextAlone
<1>. QED BY <1>1, <1>2, AloneIsOne, AlwaysTyped, InitForgotten, NextForgotten, PTL DEF Spec

\* The API accepts every HPA and ScaledObject: genScalePlan gives at least one
\* replica and a maximum no smaller than the minimum, also when they are divided,
\* scaled and rounded per cluster, if no scaling factor is 0 (PositiveFactors) and a
\* revision does not stop being a KEDA worker (NotFromKeda).
THEOREM BoundsAlwaysAccepted == PositiveFactors /\ NotFromKeda => (Spec => []BoundsAccepted)
<1> SUFFICES ASSUME PositiveFactors, NotFromKeda PROVE Spec => []BoundsAccepted
  OBVIOUS
<1>1. Init => Accepts
  BY InitAlone
<1>2. Typed /\ Forgotten /\ Accepts /\ [Next]_vars => Accepts'
  BY NextAccepts
<1>3. Accepts => BoundsAccepted
  BY DEF Accepts, AcceptsIn, Accepted, BoundsAccepted, AutoscalerKinds
<1>. QED BY <1>1, <1>2, <1>3, AlwaysTyped, InitForgotten, NextForgotten, PTL DEF Spec
=============================================================================
