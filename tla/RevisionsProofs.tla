-------------------------- MODULE RevisionsProofs --------------------------
(***************************************************************************)
(* How old the alert may be that fails a revision, and what a mirror has   *)
(* that has the Revision, for every TTL of the cache, every latency of     *)
(* Prometheus, any number of targets, mirrors, lists of configs and other  *)
(* reconciles, and any order in which their answers are stored.            *)
(***************************************************************************)
EXTENDS Revisions, TLAPS

\* What the age of an answer depends on; most steps leave all of it alone.
clocks == <<firing, quiet, cache, call, pc, seen, alarmed>>

-----------------------------------------------------------------------------
(***************************************************************************)
(* The inductive invariant.  Wherever a positive answer is (on its way, in *)
(* the cache, with the reconcile), the alert was firing when it was given, *)
(* and not longer ago than that place allows.                              *)
(***************************************************************************)
ClocksOK ==
  /\ quiet \in Nat
  /\ cache \in [known : BOOLEAN, value : BOOLEAN, age : Nat]
  /\ call \in [Callers -> [on : BOOLEAN, value : BOOLEAN, wait : 0 .. Latency]]
  /\ firing \in BOOLEAN /\ alarmed \in BOOLEAN

FiringIsNow == firing => quiet = 0

\* An answer on its way is as old as its call.
AnswerAge == \A c \in Callers : call[c].on /\ call[c].value => quiet <= call[c].wait

\* A cached one was on its way before it was stored.
CacheAge == Fresh(cache) /\ cache.value => quiet <= cache.age + Latency

\* The one a reconcile judges by may come from the cache.
VerdictAge ==
  pc \in {"judge", "fail"} /\ alarmed => quiet <= TTL - 1 + Latency + call["this"].wait

\* Where the reconcile is: it has a call only while it waits, and fails for a reason.
Reconciling ==
  /\ call["this"].on => pc = "asked"
  /\ pc = "fail" => seen.timingOut \/ alarmed

IInv ==
  /\ ClocksOK
  /\ FiringIsNow
  /\ AnswerAge
  /\ CacheAge
  /\ VerdictAge
  /\ Reconciling

-----------------------------------------------------------------------------
\* No query is on its way in the beginning.
LEMMA InitIInv == Init => IInv
<1> SUFFICES ASSUME Init PROVE IInv
  OBVIOUS
<1>1. /\ quiet \in Nat /\ (firing => quiet = 0) /\ firing \in BOOLEAN
      /\ cache = [known |-> FALSE, value |-> FALSE, age |-> TTL]
      /\ call = [c \in Callers |-> NoCall]
      /\ pc = "idle" /\ alarmed = FALSE
  BY RevisionsAssumption DEF Init, MaxAge
<1>2. NoCall \in [on : BOOLEAN, value : BOOLEAN, wait : 0 .. Latency]
  BY RevisionsAssumption DEF NoCall
<1>3. call["this"] = NoCall /\ \A c \in Callers : call[c] = NoCall
  BY <1>1 DEF Callers
<1>4. ClocksOK
  BY <1>1, <1>2, RevisionsAssumption DEF ClocksOK
<1>. QED
  BY <1>1, <1>3, <1>4
     DEF IInv, FiringIsNow, AnswerAge, CacheAge, VerdictAge, Reconciling, Fresh, NoCall

\* The invariant reads the clocks only.
LEMMA ClocksStep == IInv /\ UNCHANGED clocks => IInv'
BY DEF clocks, IInv, ClocksOK, FiringIsNow, AnswerAge, CacheAge, VerdictAge, Reconciling,
       Fresh

\* So does a step of the reconcile that neither asks nor answers, unless it goes on
\* to a verdict.
LEMMA ReconcileMoves ==
  ASSUME IInv, UNCHANGED <<firing, quiet, cache, call>>, pc # "asked",
         pc' \notin {"judge", "fail"}, alarmed' \in BOOLEAN
  PROVE  IInv'
BY DEF IInv, ClocksOK, FiringIsNow, AnswerAge, CacheAge, VerdictAge, Reconciling, Fresh

-----------------------------------------------------------------------------
(***************************************************************************)
(* The cache.  Both lemmas hold of any caller: the other reconciles' ones  *)
(* are exactly these, this one's goes on with the answer.                  *)
(***************************************************************************)

\* A query that misses is answered by what Prometheus sees now; one that hits leaves
\* the cache alone.
LEMMA AskStep ==
  ASSUME IInv, NEW c \in Callers, Ask(c), quiet' = quiet, firing' = firing
  PROVE  /\ cache' = cache
         /\ call' \in [Callers -> [on : BOOLEAN, value : BOOLEAN, wait : 0 .. Latency]]
         /\ \A d \in Callers \ {c} : call'[d] = call[d]
         /\ Fresh(cache) => ~call'[c].on /\ call'[c].wait = 0
         /\ AnswerAge'
<1>1. ClocksOK /\ FiringIsNow /\ AnswerAge
  BY DEF IInv
<1>2. CASE Fresh(cache)
  <2>1. cache' = cache /\ call' = [call EXCEPT ![c] = NoCall]
    BY <1>2 DEF Ask, Hit
  <2>2. NoCall \in [on : BOOLEAN, value : BOOLEAN, wait : 0 .. Latency]
    BY RevisionsAssumption DEF NoCall
  <2>3. call'[c] = NoCall /\ \A d \in Callers \ {c} : call'[d] = call[d]
    BY <1>1, <2>1 DEF ClocksOK
  <2>4. AnswerAge'
    BY <1>1, <2>3 DEF AnswerAge, NoCall
  <2>. QED BY <1>1, <1>2, <2>1, <2>2, <2>3, <2>4 DEF ClocksOK, NoCall
<1>3. CASE ~Fresh(cache)
  <2> DEFINE asked == [on |-> TRUE, value |-> firing, wait |-> 0]
  <2>1. cache' = cache /\ call' = [call EXCEPT ![c] = asked]
    BY <1>3 DEF Ask
  <2>2. asked \in [on : BOOLEAN, value : BOOLEAN, wait : 0 .. Latency]
    BY <1>1, RevisionsAssumption DEF ClocksOK
  <2>3. call'[c] = asked /\ \A d \in Callers \ {c} : call'[d] = call[d]
    BY <1>1, <2>1 DEF ClocksOK
  <2>4. AnswerAge'
    BY <1>1, <2>3 DEF AnswerAge, FiringIsNow
  <2>. QED BY <1>1, <1>3, <2>1, <2>2, <2>3, <2>4 DEF ClocksOK
<1>. QED BY <1>2, <1>3

\* An answer is stored at the age of its call, which is the latency at most.
LEMMA AnswerStep ==
  ASSUME IInv, NEW c \in Callers, Answer(c), quiet' = quiet
  PROVE  /\ cache' \in [known : BOOLEAN, value : BOOLEAN, age : Nat]
         /\ call' \in [Callers -> [on : BOOLEAN, value : BOOLEAN, wait : 0 .. Latency]]
         /\ \A d \in Callers \ {c} : call'[d] = call[d]
         /\ ~call'[c].on /\ call'[c].wait = call[c].wait
         /\ call[c].value => quiet <= call[c].wait
         /\ AnswerAge' /\ CacheAge'
<1> DEFINE k == call[c]
           after == [k EXCEPT !.on = FALSE, !.value = FALSE]
<1>1. ClocksOK /\ AnswerAge
  BY DEF IInv
<1>2. /\ k.on /\ cache' = [known |-> TRUE, value |-> k.value, age |-> 0]
      /\ call' = [call EXCEPT ![c] = after]
  BY DEF Answer, Stored
<1>3. k \in [on : BOOLEAN, value : BOOLEAN, wait : 0 .. Latency]
  BY <1>1 DEF ClocksOK
<1>4. /\ after \in [on : BOOLEAN, value : BOOLEAN, wait : 0 .. Latency]
      /\ ~after.on /\ after.wait = k.wait
  BY <1>3
<1>. HIDE DEF after
<1>5. call'[c] = after /\ \A d \in Callers \ {c} : call'[d] = call[d]
  BY <1>1, <1>2 DEF ClocksOK
<1>6. k.value => quiet <= k.wait
  BY <1>1, <1>2 DEF AnswerAge
<1>7. AnswerAge'
  BY <1>1, <1>4, <1>5 DEF AnswerAge
<1>8. CacheAge'
  <2>1. quiet \in Nat /\ k.wait \in 0 .. Latency /\ Latency \in Nat
    BY <1>1, <1>3, RevisionsAssumption DEF ClocksOK
  <2>2. k.value => quiet <= Latency
    BY <1>6, <2>1
  <2>3. cache'.value = k.value /\ cache'.age = 0
    BY <1>2
  <2>. QED BY <2>1, <2>2, <2>3 DEF CacheAge
<1>. QED BY <1>1, <1>2, <1>3, <1>4, <1>5, <1>6, <1>7, <1>8 DEF ClocksOK

\* Another reconcile asks.
LEMMA OtherAsksStep == \A c \in Others : IInv /\ OtherAsks(c) => IInv'
<1> SUFFICES ASSUME NEW c \in Others, IInv, OtherAsks(c) PROVE IInv'
  OBVIOUS
<1>1. /\ c \in Callers /\ "this" \in Callers \ {c}
      /\ Ask(c) /\ UNCHANGED <<firing, quiet, pc, seen, alarmed>>
  BY RevisionsAssumption DEF OtherAsks, Callers, local
<1>2. /\ cache' = cache /\ AnswerAge' /\ call'["this"] = call["this"]
      /\ call' \in [Callers -> [on : BOOLEAN, value : BOOLEAN, wait : 0 .. Latency]]
  BY <1>1, AskStep
<1>. QED BY <1>1, <1>2 DEF IInv, ClocksOK, FiringIsNow, CacheAge, VerdictAge, Reconciling, Fresh

\* Another reconcile is answered.
LEMMA OtherAnsweredStep == \A c \in Others : IInv /\ OtherAnswered(c) => IInv'
<1> SUFFICES ASSUME NEW c \in Others, IInv, OtherAnswered(c) PROVE IInv'
  OBVIOUS
<1>1. /\ c \in Callers /\ "this" \in Callers \ {c}
      /\ Answer(c) /\ UNCHANGED <<firing, quiet, pc, seen, alarmed>>
  BY RevisionsAssumption DEF OtherAnswered, Callers, local
<1>2. /\ AnswerAge' /\ CacheAge' /\ call'["this"] = call["this"]
      /\ cache' \in [known : BOOLEAN, value : BOOLEAN, age : Nat]
      /\ call' \in [Callers -> [on : BOOLEAN, value : BOOLEAN, wait : 0 .. Latency]]
  BY <1>1, AnswerStep
<1>. QED BY <1>1, <1>2 DEF IInv, ClocksOK, FiringIsNow, VerdictAge, Reconciling

-----------------------------------------------------------------------------
\* This reconcile asks, and judges at once if the cache has the answer.
LEMMA AskThisStep == IInv /\ IsRevisionTriggered => IInv'
<1> SUFFICES ASSUME IInv, IsRevisionTriggered PROVE IInv'
  OBVIOUS
<1>1. /\ "this" \in Callers
      /\ Ask("this") /\ UNCHANGED <<firing, quiet>>
      /\ IF Fresh(cache) THEN alarmed' = cache.value /\ pc' = "judge"
         ELSE pc' = "asked" /\ alarmed' = alarmed
  BY DEF IsRevisionTriggered, Callers
<1>2. /\ cache' = cache /\ AnswerAge'
      /\ call' \in [Callers -> [on : BOOLEAN, value : BOOLEAN, wait : 0 .. Latency]]
      /\ Fresh(cache) => ~call'["this"].on /\ call'["this"].wait = 0
  BY <1>1, AskStep
<1>3. ClocksOK' /\ FiringIsNow' /\ CacheAge'
  BY <1>1, <1>2 DEF IInv, ClocksOK, FiringIsNow, CacheAge, Fresh
<1>4. VerdictAge'
  <2> SUFFICES ASSUME Fresh(cache), cache.value
               PROVE  quiet <= TTL - 1 + Latency + 0
    BY <1>1, <1>2 DEF VerdictAge
  <2>1. quiet <= cache.age + Latency /\ cache.age < TTL
    BY DEF IInv, CacheAge, Fresh
  <2>2. quiet \in Nat /\ cache.age \in Nat /\ TTL \in Nat /\ Latency \in Nat
    BY RevisionsAssumption DEF IInv, ClocksOK
  <2>. QED BY <2>1, <2>2
<1>5. Reconciling'
  BY <1>1, <1>2 DEF Reconciling
<1>. QED BY <1>2, <1>3, <1>4, <1>5 DEF IInv

\* The answer comes.
LEMMA AnsweredStep == IInv /\ Answered => IInv'
<1> SUFFICES ASSUME IInv, Answered PROVE IInv'
  OBVIOUS
<1>1. /\ "this" \in Callers
      /\ Answer("this") /\ UNCHANGED <<firing, quiet>>
      /\ alarmed' = call["this"].value /\ pc' = "judge"
  BY DEF Answered, Callers
<1>2. /\ AnswerAge' /\ CacheAge'
      /\ cache' \in [known : BOOLEAN, value : BOOLEAN, age : Nat]
      /\ call' \in [Callers -> [on : BOOLEAN, value : BOOLEAN, wait : 0 .. Latency]]
      /\ ~call'["this"].on /\ call'["this"].wait = call["this"].wait
      /\ call["this"].value => quiet <= call["this"].wait
  BY <1>1, AnswerStep
<1>3. /\ call["this"] \in [on : BOOLEAN, value : BOOLEAN, wait : 0 .. Latency]
      /\ quiet \in Nat
  BY <1>1 DEF IInv, ClocksOK
<1>4. ClocksOK' /\ FiringIsNow'
  BY <1>1, <1>2, <1>3 DEF IInv, ClocksOK, FiringIsNow
<1>5. VerdictAge'
  <2>1. TTL \in Nat \ {0} /\ Latency \in Nat /\ call["this"].wait \in Nat
    BY <1>3, RevisionsAssumption
  <2>2. call["this"].value => quiet <= TTL - 1 + Latency + call["this"].wait
    BY <1>2, <1>3, <2>1
  <2>. QED BY <1>1, <1>2, <2>2 DEF VerdictAge
<1>6. Reconciling'
  BY <1>1, <1>2 DEF Reconciling
<1>. QED BY <1>2, <1>4, <1>5, <1>6 DEF IInv

\* The verdict is for a reason, and no older than what it was reached from.
LEMMA JudgeStep == IInv /\ Judge => IInv'
<1> SUFFICES ASSUME IInv, Judge PROVE IInv'
  OBVIOUS
<1>1. pc = "judge" /\ UNCHANGED <<firing, quiet, cache, call>>
  BY DEF Judge
<1>2. CASE seen.timingOut \/ (alarmed /\ ~IgnoreSLOs /\ seen.unaccepted)
  <2>1. pc' = "fail" /\ UNCHANGED <<seen, alarmed>>
    BY <1>2 DEF Judge, local
  <2>. QED BY <1>1, <1>2, <2>1
           DEF IInv, ClocksOK, FiringIsNow, AnswerAge, CacheAge, VerdictAge, Reconciling, Fresh
<1>3. CASE ~(seen.timingOut \/ (alarmed /\ ~IgnoreSLOs /\ seen.unaccepted))
  <2>1. pc' = "idle" /\ alarmed' = FALSE
    BY <1>3 DEF Judge, Done
  <2>. QED BY <1>1, <2>1, ReconcileMoves
<1>. QED BY <1>2, <1>3

\* A failing call ends the reconcile and what it asked for.
LEMMA StepFailsStep == IInv /\ StepFails => IInv'
<1> SUFFICES ASSUME IInv, StepFails PROVE IInv'
  OBVIOUS
<1>1. /\ pc' = "idle" /\ alarmed' = FALSE
      /\ call' = [call EXCEPT !["this"] = NoCall]
      /\ UNCHANGED <<firing, quiet, cache>>
  BY DEF StepFails, Done
<1>2. NoCall \in [on : BOOLEAN, value : BOOLEAN, wait : 0 .. Latency]
  BY RevisionsAssumption DEF NoCall
<1>3. /\ call' \in [Callers -> [on : BOOLEAN, value : BOOLEAN, wait : 0 .. Latency]]
      /\ call'["this"] = NoCall /\ \A c \in Callers \ {"this"} : call'[c] = call[c]
  BY <1>1, <1>2 DEF IInv, ClocksOK, Callers
<1>4. AnswerAge'
  BY <1>1, <1>3 DEF IInv, AnswerAge, NoCall
<1>5. ClocksOK' /\ FiringIsNow' /\ CacheAge'
  BY <1>1, <1>3 DEF IInv, ClocksOK, FiringIsNow, CacheAge, Fresh
<1>6. VerdictAge' /\ Reconciling'
  <2>1. ~call'["this"].on
    BY <1>3 DEF NoCall
  <2>. QED BY <1>1, <2>1 DEF VerdictAge, Reconciling
<1>. QED BY <1>4, <1>5, <1>6 DEF IInv

-----------------------------------------------------------------------------
\* A tick, and everybody who waits has waited for one more.
LEMMA TickStep == IInv /\ Tick => IInv'
<1> SUFFICES ASSUME IInv, Tick PROVE IInv'
  OBVIOUS
<1>0. /\ ClocksOK /\ FiringIsNow /\ AnswerAge /\ CacheAge /\ VerdictAge /\ Reconciling
      /\ TTL \in Nat \ {0} /\ Latency \in Nat \ {0} /\ MaxAge \in Nat
  BY RevisionsAssumption DEF IInv, MaxAge
<1>1. /\ \A c \in Callers : Waiting(c) => call[c].wait < Latency
      /\ quiet' = IF firing THEN 0 ELSE Older(quiet, MaxAge)
      /\ cache' = [cache EXCEPT !.age = Older(@, TTL)]
      /\ call' = [c \in Callers |->
                    IF Waiting(c) THEN [call[c] EXCEPT !.wait = @ + 1] ELSE NoCall]
      /\ UNCHANGED <<firing, pc, seen, alarmed>>
  BY DEF Tick, local
<1>2. quiet \in Nat /\ quiet' \in Nat /\ (quiet' <= quiet + 1 \/ quiet' <= quiet)
  <2>1. quiet \in Nat
    BY <1>0 DEF ClocksOK
  <2>2. CASE quiet < MaxAge
    BY <1>1, <2>1, <2>2 DEF Older
  <2>3. CASE ~(quiet < MaxAge)
    BY <1>0, <1>1, <2>1, <2>3 DEF Older
  <2>. QED BY <2>2, <2>3
<1>3. ASSUME NEW c \in Callers
      PROVE  /\ call'[c] \in [on : BOOLEAN, value : BOOLEAN, wait : 0 .. Latency]
             /\ Waiting(c) => /\ call'[c].wait = call[c].wait + 1
                              /\ call'[c].on = call[c].on
                              /\ call'[c].value = call[c].value
             /\ ~Waiting(c) => ~call'[c].on
  <2>1. call[c] \in [on : BOOLEAN, value : BOOLEAN, wait : 0 .. Latency]
    BY <1>0 DEF ClocksOK
  <2>2. CASE Waiting(c)
    <3>1. call'[c] = [call[c] EXCEPT !.wait = call[c].wait + 1]
      BY <1>1, <2>2
    <3>2. call[c].wait + 1 \in 0 .. Latency
      BY <1>0, <1>1, <2>1, <2>2
    <3>3. call'[c] \in [on : BOOLEAN, value : BOOLEAN, wait : 0 .. Latency]
      BY <2>1, <3>1, <3>2
    <3>4. /\ call'[c].wait = call[c].wait + 1
          /\ call'[c].on = call[c].on /\ call'[c].value = call[c].value
      BY <2>1, <3>1
    <3>. QED BY <2>2, <3>3, <3>4
  <2>3. CASE ~Waiting(c)
    <3>1. call'[c] = NoCall
      BY <1>1, <2>3
    <3>2. NoCall \in [on : BOOLEAN, value : BOOLEAN, wait : 0 .. Latency] /\ ~NoCall.on
      BY RevisionsAssumption DEF NoCall
    <3>. QED BY <2>3, <3>1, <3>2
  <2>. QED BY <2>2, <2>3
<1>4. ClocksOK'
  <2>1. call' \in [Callers -> [on : BOOLEAN, value : BOOLEAN, wait : 0 .. Latency]]
    BY <1>1, <1>3
  <2>2. cache' \in [known : BOOLEAN, value : BOOLEAN, age : Nat]
    BY <1>0, <1>1 DEF ClocksOK, Older
  <2>. QED BY <1>0, <1>1, <1>2, <2>1, <2>2 DEF ClocksOK
<1>5. FiringIsNow'
  BY <1>1 DEF FiringIsNow
<1>6. AnswerAge'
  <2> SUFFICES ASSUME NEW c \in Callers, call'[c].on, call'[c].value
               PROVE  quiet' <= call'[c].wait
    BY DEF AnswerAge
  <2>1. Waiting(c) /\ call[c].on /\ call[c].value /\ call'[c].wait = call[c].wait + 1
    BY <1>3
  <2>2. quiet <= call[c].wait
    BY <1>0, <2>1 DEF AnswerAge
  <2>3. call[c].wait \in Nat
    BY <1>0 DEF ClocksOK
  <2>. QED BY <1>2, <2>1, <2>2, <2>3
<1>7. CacheAge'
  <2> SUFFICES ASSUME Fresh(cache)', cache'.value
               PROVE  quiet' <= cache'.age + Latency
    BY DEF CacheAge
  <2>1. /\ cache \in [known : BOOLEAN, value : BOOLEAN, age : Nat]
        /\ cache'.known /\ cache'.age < TTL
    BY <1>0 DEF ClocksOK, Fresh
  <2>2. /\ cache'.known = cache.known /\ cache'.value = cache.value
        /\ cache'.age = IF cache.age < TTL THEN cache.age + 1 ELSE TTL
    BY <1>1, <2>1 DEF Older
  <2>3. cache.age < TTL /\ cache'.age = cache.age + 1 /\ cache.age \in Nat
    BY <1>0, <2>1, <2>2
  <2>4. quiet <= cache.age + Latency
    BY <1>0, <2>1, <2>2, <2>3 DEF CacheAge, Fresh
  <2>. QED BY <1>0, <1>2, <2>3, <2>4
<1>8. VerdictAge'
  <2> SUFFICES ASSUME pc \in {"judge", "fail"}, alarmed
               PROVE  quiet' <= TTL - 1 + Latency + call'["this"].wait
    BY <1>1 DEF VerdictAge
  <2>1. "this" \in Callers /\ Waiting("this")
    BY DEF Callers, Waiting
  <2>2. call'["this"].wait = call["this"].wait + 1 /\ call["this"].wait \in Nat
    BY <1>0, <1>3, <2>1 DEF ClocksOK
  <2>3. quiet <= TTL - 1 + Latency + call["this"].wait
    BY <1>0 DEF VerdictAge
  <2>. QED BY <1>0, <1>2, <2>2, <2>3
<1>9. Reconciling'
  <2>1. call'["this"].on => call["this"].on
    BY <1>3 DEF Callers
  <2>. QED BY <1>0, <1>1, <2>1 DEF Reconciling
<1>. QED BY <1>4, <1>5, <1>6, <1>7, <1>8, <1>9 DEF IInv

\* An alert that begins or ends fires now.
LEMMA AlertStep == IInv /\ Alert => IInv'
<1> SUFFICES ASSUME IInv, Alert PROVE IInv'
  OBVIOUS
<1>1. /\ firing' = ~firing /\ quiet' = 0
      /\ UNCHANGED <<cache, call, pc, seen, alarmed>>
  BY DEF Alert, local
<1>2. /\ ClocksOK /\ Reconciling
      /\ TTL \in Nat \ {0} /\ Latency \in Nat
  BY RevisionsAssumption DEF IInv
<1>3. ClocksOK' /\ FiringIsNow' /\ Reconciling'
  BY <1>1, <1>2 DEF ClocksOK, FiringIsNow, Reconciling
<1>4. \A c \in Callers : call[c].wait \in Nat
  BY <1>2 DEF ClocksOK
<1>5. AnswerAge'
  BY <1>1, <1>4 DEF AnswerAge
<1>6. CacheAge'
  <2>1. cache.age \in Nat
    BY <1>2 DEF ClocksOK
  <2>. QED BY <1>1, <1>2, <2>1 DEF CacheAge
<1>7. VerdictAge'
  <2>1. call["this"].wait \in Nat
    BY <1>4 DEF Callers
  <2>. QED BY <1>1, <1>2, <2>1 DEF VerdictAge
<1>. QED BY <1>3, <1>5, <1>6, <1>7 DEF IInv

-----------------------------------------------------------------------------
\* The reconcile's other steps come before the question or after the verdict.
LEMMA OtherStepsOfReconcile ==
  IInv /\ (Begin \/ Delete \/ SyncReleaseManager \/ MirrorRevision \/ Fail) => IInv'
<1> SUFFICES ASSUME IInv, Begin \/ Delete \/ SyncReleaseManager \/ MirrorRevision \/ Fail
             PROVE  IInv'
  OBVIOUS
<1>0. alarmed \in BOOLEAN
  BY DEF IInv, ClocksOK
<1>1. CASE Begin
  BY <1>0, <1>1, ReconcileMoves DEF Begin, local
<1>2. CASE Delete
  BY <1>2, ReconcileMoves DEF Delete, Done
<1>3. CASE SyncReleaseManager
  BY <1>0, <1>3, ReconcileMoves DEF SyncReleaseManager
<1>4. CASE MirrorRevision
  BY <1>0, <1>4, ReconcileMoves DEF MirrorRevision
<1>5. CASE Fail
  BY <1>5, ReconcileMoves DEF Fail, Done
<1>. QED BY <1>1, <1>2, <1>3, <1>4, <1>5

\* Managers and users touch none of the clocks.
LEMMA OutsideSteps ==
  \/ \E g \in Names : \/ Manage(g) \/ Forget(g) \/ DeleteSelf(g) \/ Finalize(g)
                      \/ MarkDeletable(g) \/ RemoveManager(g)
  \/ CreateRevision \/ DeleteRevision \/ Unfail
  => UNCHANGED clocks
BY DEF Manage, Forget, DeleteSelf, Finalize, MarkDeletable, RemoveManager, CreateRevision,
       DeleteRevision, Unfail, clocks, local

\* The ages hold all the time.
THEOREM AgesBounded == Spec => []IInv
<1>1. IInv /\ [Next]_vars => IInv'
  <2> SUFFICES ASSUME IInv, [Next]_vars PROVE IInv'
    OBVIOUS
  <2>1. CASE Begin \/ Delete \/ SyncReleaseManager \/ MirrorRevision \/ Fail
    BY <2>1, OtherStepsOfReconcile
  <2>2. CASE IsRevisionTriggered \/ Answered \/ Judge \/ StepFails
    BY <2>2, AskThisStep, AnsweredStep, JudgeStep, StepFailsStep
  <2>3. CASE \E c \in Others : OtherAsks(c) \/ OtherAnswered(c)
    BY <2>3, OtherAsksStep, OtherAnsweredStep
  <2>4. CASE Alert \/ Tick
    BY <2>4, AlertStep, TickStep
  <2>5. CASE \/ \E g \in Names : \/ Manage(g) \/ Forget(g) \/ DeleteSelf(g) \/ Finalize(g)
                                  \/ MarkDeletable(g) \/ RemoveManager(g)
             \/ CreateRevision \/ DeleteRevision \/ Unfail
    BY <2>5, OutsideSteps, ClocksStep
  <2>6. CASE UNCHANGED vars
    BY <2>6, ClocksStep DEF vars, clocks, local
  <2>. QED BY <2>1, <2>2, <2>3, <2>4, <2>5, <2>6 DEF Next, Reconcile
<1>. QED BY InitIInv, <1>1, PTL DEF Spec

\* No revision is failed by an alert older than the cache's TTL and two queries,
\* whatever was cached, by whom, and in whatever order the answers came.
THEOREM OnlyRecentAlertsFail == Spec => FailedByRecentAlert
<1>1. IInv /\ pc = "fail" => seen.timingOut \/ quiet < MaxAge
  <2> SUFFICES ASSUME IInv, pc = "fail", ~seen.timingOut PROVE quiet < MaxAge
    OBVIOUS
  <2>1. alarmed /\ quiet <= TTL - 1 + Latency + call["this"].wait
    BY DEF IInv, Reconciling, VerdictAge
  <2>2. quiet \in Nat /\ call["this"].wait \in 0 .. Latency
    BY DEF IInv, ClocksOK, Callers
  <2>. QED BY <2>1, <2>2, RevisionsAssumption DEF MaxAge
<1>2. IInv /\ [Next]_vars =>
        [pc = "fail" /\ revision.failed' /\ ~revision.failed =>
           seen.timingOut \/ quiet < MaxAge]_vars
  BY <1>1
<1>. QED BY AgesBounded, <1>2, PTL DEF Spec, FailedByRecentAlert

-----------------------------------------------------------------------------
(***************************************************************************)
(* The types, and the mirrors.  The reconcile's place says more than its   *)
(* type: there is a next target to sync, or a mirror to copy to, which has *)
(* the lists before the one at hand.                                       *)
(***************************************************************************)
Placed ==
  /\ pc = "idle" => seen = NothingSeen
  /\ pc = "sync" => seen.targets < Len(Targets)
  /\ IF pc = "mirror" THEN copying.mirror <= Len(Mirrors) ELSE copying = FirstCopy

CopiedSoFar ==
  pc = "mirror" =>
    \A k \in 1 .. copying.list - 1 : Sources[k] \subseteq mirror[Mirrors[copying.mirror]]

\* The parts of TypeOK that the reconcile's steps work on.
Places == pc \in Steps /\ seen \in Seen
          /\ copying \in [mirror : 1 .. Len(Mirrors) + 1, list : 1 .. Len(Sources) + 1]

\* The sequences are what they are taken for, and FirstCopy is a place in them.
LEMMA Lists ==
  /\ Len(Targets) \in Nat \ {0} /\ \A n \in 1 .. Len(Targets) : Targets[n] \in Names
  /\ Len(Mirrors) \in Nat /\ \A n \in 1 .. Len(Mirrors) : Mirrors[n] \in Range(Mirrors)
  /\ Len(Sources) \in Nat /\ \A k \in 1 .. Len(Sources) : Sources[k] \subseteq Configs
  /\ Mirrors # <<>> => Len(Mirrors) > 0
  /\ FirstCopy \in [mirror : 1 .. Len(Mirrors) + 1, list : 1 .. Len(Sources) + 1]
<1>1. Len(Targets) \in Nat \ {0} /\ \A n \in 1 .. Len(Targets) : Targets[n] \in Names
  BY RevisionsAssumption DEF Names, Range
<1>2. /\ Len(Mirrors) \in Nat /\ \A n \in 1 .. Len(Mirrors) : Mirrors[n] \in Range(Mirrors)
      /\ Mirrors # <<>> => Len(Mirrors) > 0
  BY RevisionsAssumption DEF Range
<1>3. Len(Sources) \in Nat /\ \A k \in 1 .. Len(Sources) : Sources[k] \in Range(Sources)
  BY RevisionsAssumption DEF Range
<1>4. \A k \in 1 .. Len(Sources) : Sources[k] \subseteq Configs
  BY <1>3 DEF Configs
<1>. QED BY <1>1, <1>2, <1>3, <1>4 DEF FirstCopy

\* What a list adds are configs, or the Revision after the last one.
LEMMA ListedTypes ==
  ASSUME NEW k \in 1 .. Len(Sources) + 1
  PROVE  Listed(k) \subseteq Configs \cup {"Revision"}
BY Lists DEF Listed

\* The next place is one, on a mirror there is, unless the mirrors are done.
LEMMA NextPlace ==
  ASSUME NEW at \in [mirror : 1 .. Len(Mirrors), list : 1 .. Len(Sources) + 1],
         NEW to \in {NextCopy(at), SkipMirror(at)}
  PROVE  /\ to \in [mirror : 1 .. Len(Mirrors) + 1, list : 1 .. Len(Sources) + 1]
         /\ to.mirror <= Len(Mirrors)
<1>1. Len(Mirrors) \in Nat /\ Len(Sources) \in Nat /\ at.mirror \in 1 .. Len(Mirrors)
      /\ at.list \in 1 .. Len(Sources) + 1
  BY Lists
<1>2. /\ SkipMirror(at) \in [mirror : 1 .. Len(Mirrors) + 1, list : 1 .. Len(Sources) + 1]
      /\ SkipMirror(at).mirror <= Len(Mirrors)
  <2>1. CASE at.mirror < Len(Mirrors)
    BY <1>1, <2>1 DEF SkipMirror
  <2>2. CASE ~(at.mirror < Len(Mirrors))
    BY <1>1, <2>2 DEF SkipMirror, FirstCopy
  <2>. QED BY <2>1, <2>2
<1>3. CASE at.list <= Len(Sources)
  BY <1>1, <1>2, <1>3 DEF NextCopy
<1>4. CASE ~(at.list <= Len(Sources))
  BY <1>2, <1>4 DEF NextCopy
<1>. QED BY <1>3, <1>4

\* In the beginning nothing is copied anywhere.
LEMMA InitTypes == Init => TypeOK /\ Placed /\ CopiedSoFar /\ MirrorWhole
<1> SUFFICES ASSUME Init PROVE TypeOK /\ Placed /\ CopiedSoFar /\ MirrorWhole
  OBVIOUS
<1>1. /\ TTL \in Nat \ {0} /\ Latency \in Nat \ {0} /\ MaxEvents \in Nat
      /\ Len(Targets) \in Nat /\ MaxAge \in Nat
      /\ FirstCopy \in [mirror : 1 .. Len(Mirrors) + 1, list : 1 .. Len(Sources) + 1]
  BY RevisionsAssumption, Lists DEF MaxAge
<1>2. NewStatus \in Status
  BY DEF NewStatus, Status
<1>3. NoManager \in [phase : {"none", "alive", "dying"}, sawNone : BOOLEAN, status : Status]
  BY <1>2 DEF NoManager
<1>4. NothingSeen \in Seen
  BY <1>1 DEF NothingSeen, Seen
<1>5. NoCall \in [on : BOOLEAN, value : BOOLEAN, wait : 0 .. Latency]
  BY <1>1 DEF NoCall
<1>6. revision \in [present : BOOLEAN, labelled : BOOLEAN, failed : BOOLEAN,
                    marks : SUBSET Names]
  BY DEF Init, NoRevision
<1>7. quiet \in 0 .. MaxAge /\ firing \in BOOLEAN
  BY <1>1 DEF Init
<1>8. /\ world \in Worlds /\ events \in 0 .. MaxEvents
      /\ pc \in Steps /\ seen \in Seen /\ alarmed \in BOOLEAN
      /\ copying \in [mirror : 1 .. Len(Mirrors) + 1, list : 1 .. Len(Sources) + 1]
      /\ cache \in [known : BOOLEAN, value : BOOLEAN, age : 0 .. TTL]
  <2>1. world \in Worlds /\ alarmed = FALSE /\ pc = "idle" /\ events = 0
    BY DEF Init
  <2>2. seen = NothingSeen /\ copying = FirstCopy
    BY DEF Init
  <2>3. cache = [known |-> FALSE, value |-> FALSE, age |-> TTL]
    BY DEF Init
  <2>4. cache \in [known : BOOLEAN, value : BOOLEAN, age : 0 .. TTL]
    BY <1>1, <2>3
  <2>5. copying \in [mirror : 1 .. Len(Mirrors) + 1, list : 1 .. Len(Sources) + 1]
    BY <1>1, <2>2
  <2>6. events \in 0 .. MaxEvents /\ pc \in Steps
    BY <1>1, <2>1 DEF Steps
  <2>. QED BY <1>4, <2>1, <2>2, <2>4, <2>5, <2>6
<1>9. /\ manager \in [Names -> [phase : {"none", "alive", "dying"}, sawNone : BOOLEAN,
                                status : Status]]
      /\ call \in [Callers -> [on : BOOLEAN, value : BOOLEAN, wait : 0 .. Latency]]
  BY <1>3, <1>5 DEF Init
<1>10. mirror \in [Range(Mirrors) -> SUBSET (Configs \cup {"Revision"})]
  BY DEF Init
<1>11. TypeOK
  BY <1>6, <1>7, <1>8, <1>9, <1>10 DEF TypeOK
<1>. QED BY <1>11 DEF Init, Placed, CopiedSoFar, MirrorWhole

\* What a manager's status may be, and what a reconcile makes of a missing manager.
Managers == [Names -> [phase : {"none", "alive", "dying"}, sawNone : BOOLEAN, status : Status]]

\* Every step leaves the managers managers.
LEMMA ManagersStep == TypeOK /\ Placed /\ [Next]_vars => manager' \in Managers
<1> SUFFICES ASSUME TypeOK, Placed, [Next]_vars PROVE manager' \in Managers
  OBVIOUS
<1> DEFINE M == [phase : {"none", "alive", "dying"}, sawNone : BOOLEAN, status : Status]
<1>1. manager \in [Names -> M]
  BY DEF TypeOK
<1>2. NewStatus \in Status /\ NoManager \in M /\ [NoManager EXCEPT !.phase = "alive"] \in M
  BY DEF NewStatus, Status, NoManager
<1>3. ASSUME NEW s \in Status PROVE StatusAfter(s) \subseteq Status
  <2>1. CASE revision.failed
    BY <2>1 DEF StatusAfter, Status
  <2>2. CASE ~revision.failed /\ s.state \in {"created", "failed"}
    <3>1. StatusAfter(s) = {[s EXCEPT !.state = "releasing", !.up = TRUE]}
      BY <2>2 DEF StatusAfter
    <3>2. [s EXCEPT !.state = "releasing", !.up = TRUE] \in Status
      BY DEF Status
    <3>. QED BY <3>1, <3>2
  <2>3. CASE ~revision.failed /\ s.state = "releasing" /\ s.peak = 0
    <3>1. StatusAfter(s) = {[s EXCEPT !.peak = 100], [s EXCEPT !.state = "timingout"]}
      BY <2>3 DEF StatusAfter
    <3>2. [s EXCEPT !.peak = 100] \in Status
      BY DEF Status
    <3>3. [s EXCEPT !.state = "timingout"] \in Status
      BY DEF Status
    <3>. QED BY <3>1, <3>2, <3>3
  <2>4. CASE ~revision.failed /\ s.state \notin {"created", "failed"}
             /\ ~(s.state = "releasing" /\ s.peak = 0)
    BY <2>4 DEF StatusAfter
  <2>. QED BY <2>1, <2>2, <2>3, <2>4
<1>4. CASE SyncReleaseManager
  <2> DEFINE g == Targets[seen.targets + 1]
  <2>1. manager' = [manager EXCEPT ![g] = GetOrCreateReleaseManager(g)]
    BY <1>4 DEF SyncReleaseManager
  <2>2. pc = "sync" /\ seen \in Seen
    BY <1>4 DEF SyncReleaseManager, TypeOK
  <2>3. g \in Names
    BY <2>2, Lists DEF Placed, Seen
  <2>4. GetOrCreateReleaseManager(g) \in M
    BY <1>1, <1>2, <2>3 DEF GetOrCreateReleaseManager
  <2>. QED BY <1>1, <2>1, <2>4 DEF Managers
<1>5. ASSUME NEW g \in Names, Manage(g) PROVE manager' \in Managers
  <2>1. manager[g] \in M
    BY <1>1
  <2>2. CASE Visible
    <3>1. PICK s \in StatusAfter(manager[g].status) :
            manager' = [manager EXCEPT ![g].status = s, ![g].sawNone = FALSE]
      BY <1>5, <2>2 DEF Manage
    <3>2. s \in Status
      BY <1>3, <2>1
    <3>. QED BY <1>1, <3>1, <3>2 DEF Managers
  <2>3. CASE ~Visible
    BY <1>1, <1>5, <2>3 DEF Manage, Managers
  <2>. QED BY <2>2, <2>3
<1>6. ASSUME NEW g \in Names, Forget(g) \/ DeleteSelf(g) \/ Finalize(g) \/ RemoveManager(g)
      PROVE  manager' \in Managers
  BY <1>1, <1>2, <1>6 DEF Forget, DeleteSelf, Finalize, RemoveManager, Managers
<1>7. ASSUME UNCHANGED manager PROVE manager' \in Managers
  BY <1>1, <1>7 DEF Managers
<1>8. ASSUME \/ Begin \/ Delete \/ MirrorRevision \/ IsRevisionTriggered \/ Answered
             \/ Judge \/ Fail \/ StepFails
             \/ CreateRevision \/ DeleteRevision \/ Unfail \/ Alert \/ Tick
             \/ \E g \in Names : MarkDeletable(g)
             \/ \E c \in Others : OtherAsks(c) \/ OtherAnswered(c)
             \/ UNCHANGED vars
      PROVE  UNCHANGED manager
  BY <1>8 DEF Begin, Delete, MirrorRevision, IsRevisionTriggered, Answered, Judge, Fail,
              StepFails, CreateRevision, DeleteRevision, Unfail, Alert, Tick, MarkDeletable,
              OtherAsks, OtherAnswered, vars
<1>. QED BY <1>4, <1>5, <1>6, <1>7, <1>8 DEF Next, Reconcile

\* The reconcile finds its next place.
LEMMA PlacesStep ==
  ASSUME TypeOK, Placed, Begin \/ Reconcile \/ StepFails
  PROVE  Places' /\ Placed'
<1>1. /\ pc \in Steps /\ seen \in Seen
      /\ copying \in [mirror : 1 .. Len(Mirrors) + 1, list : 1 .. Len(Sources) + 1]
      /\ FirstCopy \in [mirror : 1 .. Len(Mirrors) + 1, list : 1 .. Len(Sources) + 1]
  BY Lists DEF TypeOK
<1>2. NothingSeen \in Seen /\ NothingSeen.targets < Len(Targets)
  BY Lists DEF NothingSeen, Seen
<1>3. ASSUME Done PROVE Places' /\ Placed'
  BY <1>1, <1>2, <1>3 DEF Done, Places, Placed, Steps
<1>4. CASE Begin
  <2>1. pc = "idle" /\ pc' \in {"delete", "sync"} /\ UNCHANGED <<seen, copying>>
    BY <1>4 DEF Begin, local
  <2>. QED BY <1>1, <1>2, <2>1 DEF Places, Placed, Steps
<1>5. CASE Delete \/ Fail \/ StepFails
  BY <1>3, <1>5 DEF Delete, Fail, StepFails
<1>6. CASE SyncReleaseManager
  <2> DEFINE g == Targets[seen.targets + 1]
  <2>1. /\ pc = "sync" /\ seen' = AddTarget(seen, g, manager'[g].status)
        /\ UNCHANGED copying
        /\ pc' = IF seen'.targets < Len(Targets) THEN "sync"
                 ELSE IF seen'.up /\ "mirror" \in world /\ Mirrors # <<>> THEN "mirror" ELSE "ask"
    BY <1>6 DEF SyncReleaseManager
  <2>2. seen.targets \in Nat /\ seen.targets < Len(Targets) /\ copying = FirstCopy
    BY <1>1, <2>1, Lists DEF Placed, Seen
  <2>3. g \in Names /\ manager'[g].status \in Status
    BY <1>6, <2>2, Lists, ManagersStep DEF Next, Reconcile, Managers
  <2>4. seen' \in Seen
    BY <1>1, <2>1, <2>2, <2>3, Lists DEF AddTarget, Seen, Status, Unaccepted, Decides
  <2>5. FirstCopy.mirror <= Len(Mirrors) \/ Mirrors = <<>>
    BY Lists DEF FirstCopy
  <2>. QED BY <1>1, <2>1, <2>2, <2>4, <2>5 DEF Places, Placed, Steps
<1>7. CASE MirrorRevision
  <2>1. /\ pc = "mirror" /\ UNCHANGED seen
        /\ copying' \in {NextCopy(copying), SkipMirror(copying)}
        /\ pc' = IF copying' = FirstCopy THEN "ask" ELSE "mirror"
    BY <1>7 DEF MirrorRevision
  <2>2. copying \in [mirror : 1 .. Len(Mirrors), list : 1 .. Len(Sources) + 1]
    BY <1>1, <2>1, Lists DEF Placed
  <2>3. /\ copying' \in [mirror : 1 .. Len(Mirrors) + 1, list : 1 .. Len(Sources) + 1]
        /\ copying'.mirror <= Len(Mirrors)
    BY <2>1, <2>2, NextPlace
  <2>. QED BY <1>1, <2>1, <2>3 DEF Places, Placed, Steps
<1>8. CASE IsRevisionTriggered \/ Answered
  <2>1. /\ pc \in {"ask", "asked"} /\ pc' \in {"judge", "asked"} /\ UNCHANGED <<seen, copying>>
    BY <1>8 DEF IsRevisionTriggered, Answered
  <2>. QED BY <1>1, <2>1 DEF Places, Placed, Steps
<1>9. CASE Judge
  <2>1. pc = "judge" /\ (Done \/ (pc' = "fail" /\ UNCHANGED <<seen, copying>>))
    BY <1>9 DEF Judge, local
  <2>. QED BY <1>1, <1>3, <2>1 DEF Places, Placed, Steps
<1>. QED BY <1>4, <1>5, <1>6, <1>7, <1>8, <1>9 DEF Reconcile

\* The other variables of TypeOK: a step of the clocks keeps within the bounds, and
\* what is written to the Revision and to a mirror is of their types.
LEMMA RestStep ==
  ASSUME TypeOK, Placed, [Next]_vars
  PROVE  /\ world' \in Worlds /\ events' \in 0 .. MaxEvents
         /\ revision' \in [present : BOOLEAN, labelled : BOOLEAN, failed : BOOLEAN,
                           marks : SUBSET Names]
         /\ mirror' \in [Range(Mirrors) -> SUBSET (Configs \cup {"Revision"})]
         /\ quiet' \in 0 .. MaxAge
         /\ cache'.age \in Nat => cache'.age \in 0 .. TTL
<1>1. /\ world \in Worlds /\ events \in 0 .. MaxEvents
      /\ revision \in [present : BOOLEAN, labelled : BOOLEAN, failed : BOOLEAN,
                       marks : SUBSET Names]
      /\ mirror \in [Range(Mirrors) -> SUBSET (Configs \cup {"Revision"})]
      /\ quiet \in 0 .. MaxAge
      /\ cache \in [known : BOOLEAN, value : BOOLEAN, age : 0 .. TTL]
  BY DEF TypeOK
<1>2. TTL \in Nat /\ MaxAge \in Nat /\ MaxEvents \in Nat
  BY RevisionsAssumption DEF MaxAge
<1>3. world' \in Worlds
  BY <1>1 DEF Next, Begin, Reconcile, Delete, SyncReleaseManager, MirrorRevision,
              IsRevisionTriggered, Answered, Judge, Fail, StepFails, Manage, Forget,
              DeleteSelf, Finalize, MarkDeletable, RemoveManager, CreateRevision,
              DeleteRevision, Unfail, Alert, OtherAsks, OtherAnswered, Tick, vars
<1>4. Event \/ UNCHANGED events
  BY DEF Next, Begin, Reconcile, Delete, SyncReleaseManager, MirrorRevision,
         IsRevisionTriggered, Answered, Judge, Fail, StepFails, Manage, Forget,
         DeleteSelf, Finalize, MarkDeletable, RemoveManager, CreateRevision,
         DeleteRevision, Unfail, Alert, OtherAsks, OtherAnswered, Tick, vars
<1>5. events' \in 0 .. MaxEvents
  BY <1>1, <1>2, <1>4 DEF Event
<1>6. \/ UNCHANGED revision \/ revision' = NoRevision
      \/ revision' = [revision EXCEPT !.labelled = TRUE]
      \/ revision' = [revision EXCEPT !.failed = TRUE]
      \/ revision' = [revision EXCEPT !.failed = FALSE]
      \/ revision' = [NoRevision EXCEPT !.present = TRUE]
      \/ \E g \in Names : revision' = [revision EXCEPT !.marks = revision.marks \cup {g}]
  BY DEF Next, Begin, Reconcile, Delete, SyncReleaseManager, MirrorRevision,
         IsRevisionTriggered, Answered, Judge, Fail, StepFails, Manage, Forget,
         DeleteSelf, Finalize, MarkDeletable, RemoveManager, CreateRevision,
         DeleteRevision, Unfail, Alert, OtherAsks, OtherAnswered, Tick, vars
<1>7. revision' \in [present : BOOLEAN, labelled : BOOLEAN, failed : BOOLEAN,
                     marks : SUBSET Names]
  <2>1. NoRevision \in [present : BOOLEAN, labelled : BOOLEAN, failed : BOOLEAN,
                        marks : SUBSET Names]
    BY DEF NoRevision
  <2>2. ASSUME NEW g \in Names,
               revision' = [revision EXCEPT !.marks = revision.marks \cup {g}]
        PROVE  revision' \in [present : BOOLEAN, labelled : BOOLEAN, failed : BOOLEAN,
                              marks : SUBSET Names]
    BY <1>1, <2>2
  <2>. QED BY <1>1, <1>6, <2>1, <2>2
<1>8. UNCHANGED mirror \/ MirrorRevision
  BY DEF Next, Begin, Reconcile, Delete, SyncReleaseManager,
         IsRevisionTriggered, Answered, Judge, Fail, StepFails, Manage, Forget,
         DeleteSelf, Finalize, MarkDeletable, RemoveManager, CreateRevision,
         DeleteRevision, Unfail, Alert, OtherAsks, OtherAnswered, Tick, vars
<1>9. ASSUME MirrorRevision
      PROVE  mirror' \in [Range(Mirrors) -> SUBSET (Configs \cup {"Revision"})]
  <2>1. copying.list \in 1 .. Len(Sources) + 1
    BY DEF TypeOK
  <2>2. Listed(copying.list) \subseteq Configs \cup {"Revision"}
    BY <2>1, ListedTypes
  <2>3. PICK m, some : /\ some \subseteq Listed(copying.list)
                       /\ mirror' = [mirror EXCEPT ![m] = mirror[m] \cup some]
    BY <1>9 DEF MirrorRevision
  <2>. QED BY <1>1, <2>2, <2>3
<1>10. \/ UNCHANGED quiet \/ quiet' = 0 \/ quiet' = Older(quiet, MaxAge)
  BY DEF Next, Begin, Reconcile, Delete, SyncReleaseManager, MirrorRevision,
         IsRevisionTriggered, Answered, Judge, Fail, StepFails, Manage, Forget,
         DeleteSelf, Finalize, MarkDeletable, RemoveManager, CreateRevision,
         DeleteRevision, Unfail, Alert, OtherAsks, OtherAnswered, Tick, vars
<1>11. quiet' \in 0 .. MaxAge
  BY <1>1, <1>2, <1>10 DEF Older
<1>12. \/ UNCHANGED cache \/ cache'.age = 0
       \/ cache' = [cache EXCEPT !.age = Older(cache.age, TTL)]
  <2>1. ASSUME NEW c, Ask(c) PROVE UNCHANGED cache
    BY <2>1 DEF Ask, Hit
  <2>2. ASSUME NEW c, Answer(c) PROVE cache'.age = 0
    BY <2>2 DEF Answer, Stored
  <2>. QED BY <2>1, <2>2
           DEF Next, Begin, Reconcile, Delete, SyncReleaseManager, MirrorRevision,
               IsRevisionTriggered, Answered, Judge, Fail, StepFails, Manage, Forget,
               DeleteSelf, Finalize, MarkDeletable, RemoveManager, CreateRevision,
               DeleteRevision, Unfail, Alert, OtherAsks, OtherAnswered, Tick, vars
<1>13. cache'.age \in 0 .. TTL
  BY <1>1, <1>2, <1>12 DEF Older
<1>. QED BY <1>3, <1>5, <1>7, <1>8, <1>9, <1>11, <1>13, <1>1

\* Nobody but the reconcile moves it.
LEMMA OthersLeavePlaces ==
  [Next]_vars => Begin \/ Reconcile \/ StepFails \/ UNCHANGED <<mirror, pc, seen, copying>>
BY DEF Next, Manage, Forget, DeleteSelf, Finalize, MarkDeletable, RemoveManager,
       CreateRevision, DeleteRevision, Unfail, Alert, OtherAsks, OtherAnswered, Tick, vars,
       local

\* A mirror is given one list after the other, and the Revision when it has them all.
LEMMA CopyStep ==
  ASSUME TypeOK, Placed, CopiedSoFar, MirrorWhole, MirrorRevision
  PROVE  CopiedSoFar' /\ MirrorWhole'
<1>1. /\ pc = "mirror" /\ copying.mirror \in 1 .. Len(Mirrors)
      /\ copying.list \in 1 .. Len(Sources) + 1
      /\ mirror \in [Range(Mirrors) -> SUBSET (Configs \cup {"Revision"})]
      /\ Len(Sources) \in Nat /\ Len(Mirrors) \in Nat
  BY Lists DEF TypeOK, Placed, MirrorRevision
<1> DEFINE m == Mirrors[copying.mirror]
           k == copying.list
<1>2. m \in Range(Mirrors)
  BY <1>1, Lists
<1>3. \A i \in 1 .. k - 1 : Sources[i] \subseteq mirror[m]
  BY <1>1 DEF CopiedSoFar
<1>4. PICK some \in SUBSET Listed(k) :
        /\ mirror' = [mirror EXCEPT ![m] = mirror[m] \cup some]
        /\ \/ some = Listed(k) /\ copying' = NextCopy(copying)
           \/ copying' = SkipMirror(copying)
  BY <1>1 DEF MirrorRevision
<1>5. mirror'[m] = mirror[m] \cup some /\ \A n \in Range(Mirrors) \ {m} : mirror'[n] = mirror[n]
  BY <1>1, <1>2, <1>4
<1>6. ASSUME "Revision" \in mirror'[m] PROVE Configs \subseteq mirror'[m]
  <2>1. CASE "Revision" \in mirror[m]
    BY <1>2, <1>5, <2>1 DEF MirrorWhole
  <2>2. CASE "Revision" \notin mirror[m] /\ k <= Len(Sources)
    BY <1>4, <1>5, <1>6, <2>2, <1>1, Lists, RevisionsAssumption DEF Listed, Configs
  <2>3. CASE k > Len(Sources)
    <3>1. \A i \in 1 .. Len(Sources) : Sources[i] \subseteq mirror[m]
      BY <1>1, <1>3, <2>3
    <3>2. \A x \in Configs : \E i \in 1 .. Len(Sources) : x \in Sources[i]
      BY RevisionsAssumption DEF Configs, Range
    <3>. QED BY <1>5, <3>1, <3>2
  <2>. QED BY <1>1, <2>1, <2>2, <2>3
<1>7. MirrorWhole'
  BY <1>5, <1>6 DEF MirrorWhole
<1>8. \A at \in {copying} : SkipMirror(at).list = 1
  BY DEF SkipMirror, FirstCopy
<1>9. CopiedSoFar'
  <2>1. CASE k <= Len(Sources) /\ some = Listed(k) /\ copying' = NextCopy(copying)
    <3>1. copying' = [copying EXCEPT !.list = k + 1]
      BY <2>1 DEF NextCopy
    <3>2. copying'.list - 1 = k /\ copying'.mirror = copying.mirror
      BY <1>1, <3>1 DEF TypeOK
    <3>3. Sources[k] \subseteq mirror'[m]
      BY <1>5, <2>1 DEF Listed
    <3>4. \A i \in 1 .. k : Sources[i] \subseteq mirror'[m]
      BY <1>1, <1>3, <1>5, <3>3
    <3>. QED BY <3>2, <3>4 DEF CopiedSoFar
  <2>2. CASE copying' = SkipMirror(copying)
    BY <1>8, <2>2 DEF CopiedSoFar
  <2>3. CASE k > Len(Sources) /\ copying' = NextCopy(copying)
    BY <1>1, <2>2, <2>3 DEF NextCopy
  <2>. QED BY <1>1, <1>4, <2>1, <2>2, <2>3
<1>. QED BY <1>7, <1>9

\* The types, with the place of the reconcile, hold all the time.
THEOREM TypesAndPlaces == Spec => [](TypeOK /\ Placed)
<1>1. TypeOK /\ Placed /\ IInv /\ IInv' /\ [Next]_vars => (TypeOK /\ Placed)'
  <2> SUFFICES ASSUME TypeOK, Placed, IInv, IInv', [Next]_vars PROVE (TypeOK /\ Placed)'
    OBVIOUS
  <2>1. Places' /\ Placed'
    <3>1. CASE Begin \/ Reconcile \/ StepFails
      BY <3>1, PlacesStep
    <3>2. CASE UNCHANGED <<mirror, pc, seen, copying>>
      BY <3>2 DEF TypeOK, Places, Placed
    <3>. QED BY <3>1, <3>2, OthersLeavePlaces
  <2>2. manager' \in Managers
    BY ManagersStep
  <2>3. ClocksOK'
    BY DEF IInv
  <2>4. cache' \in [known : BOOLEAN, value : BOOLEAN, age : 0 .. TTL]
    BY <2>3, RestStep DEF ClocksOK
  <2>. QED BY <2>1, <2>2, <2>3, <2>4, RestStep DEF TypeOK, Places, Managers, ClocksOK
<1>. QED BY AgesBounded, InitTypes, <1>1, PTL DEF Spec

\* The variables are of their types; no query takes longer than the latency bound.
THEOREM TypesOfRevisions == Spec => []TypeOK
BY TypesAndPlaces, PTL

\* A mirror that has the Revision has all of its configs, however many lists there are,
\* wherever copying one of them fails, and whichever mirrors cannot be reached.
THEOREM MirrorsWhole == Spec => []MirrorWhole
<1>1. /\ TypeOK /\ Placed /\ CopiedSoFar /\ MirrorWhole /\ [Next]_vars
      => (CopiedSoFar /\ MirrorWhole)'
  <2> SUFFICES ASSUME TypeOK, Placed, CopiedSoFar, MirrorWhole, [Next]_vars
               PROVE  (CopiedSoFar /\ MirrorWhole)'
    OBVIOUS
  <2>1. CASE MirrorRevision
    BY <2>1, CopyStep
  <2>2. CASE UNCHANGED mirror /\ (pc' = "mirror" => copying'.list = 1)
    BY <2>2 DEF CopiedSoFar, MirrorWhole
  <2>3. CASE Begin \/ Delete \/ SyncReleaseManager \/ IsRevisionTriggered \/ Answered
             \/ Judge \/ Fail \/ StepFails
    BY <2>2, <2>3 DEF Begin, Delete, SyncReleaseManager, IsRevisionTriggered, Answered,
                      Judge, Fail, StepFails, Done, Placed, FirstCopy
  <2>4. CASE UNCHANGED <<mirror, pc, copying>>
    BY <2>4 DEF CopiedSoFar, MirrorWhole
  <2>. QED BY <2>1, <2>3, <2>4, OthersLeavePlaces DEF Reconcile
<1>. QED BY TypesAndPlaces, InitTypes, <1>1, PTL DEF Spec
=============================================================================
