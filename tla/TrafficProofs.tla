--------------------------- MODULE TrafficProofs ---------------------------
(***************************************************************************)
(* What holds of one round of prepareRevisions for every number of         *)
(* incarnations, every release strategy, every canary percentage and every *)
(* starting split.                                                         *)
(***************************************************************************)
EXTENDS Traffic, Sums, TrafficSplitProofs, TLAPS

\* The values of a split in the making.
Splits == [inc : [1 .. N -> Incarnation], weight : [1 .. N -> 0 .. 100],
           rem : 0 .. 100, panic : BOOLEAN]

-----------------------------------------------------------------------------
\* Giving one incarnation a weight, and leaving r, makes a split again.
LEMMA SplitUpdate ==
  ASSUME NEW s \in Splits, NEW t \in 1 .. N, NEW i \in Incarnation,
         NEW w \in 0 .. 100, NEW r \in 0 .. 100
  PROVE  [s EXCEPT !.inc[t] = i, !.weight[t] = w, !.rem = r] \in Splits
BY DEF Splits

(***************************************************************************)
(* What one iteration of the loop may do, from split s to split v: it does *)
(* not panic, touches only incarnation t, takes what it gives to t from    *)
(* what is left, and withdraws t's eligibility only if t ends with nothing *)
(* behind the ramping incarnation.                                         *)
(***************************************************************************)
GivesTo(t, after, s, v) ==
  /\ v \in Splits
  /\ v.panic = s.panic
  /\ \A n \in 1 .. N \ {t} : v.inc[n] = s.inc[n] /\ v.weight[n] = s.weight[n]
  /\ v.inc[t].state = s.inc[t].state /\ v.inc[t].rev = s.inc[t].rev
  /\ v.inc[t].cur = v.weight[t]
  /\ v.rem = s.rem - v.weight[t]
  /\ after => v.inc[t].cur <= s.inc[t].cur
  /\ s.inc[t].state \in Canaries => v.inc[t].cur <= CanaryPercent[t]
  /\ v.inc[t].elig # s.inc[t].elig => after /\ v.inc[t].cur = 0

\* An iteration does no more than that, for any incarnation and any split.
LEMMA VisitEffect ==
  ASSUME NEW s \in Splits, NEW t \in 1 .. N, NEW after \in BOOLEAN, NEW gate \in BOOLEAN
  PROVE  GivesTo(t, after, s, Visit(s, t, after, gate))
<1> DEFINE i == s.inc[t]
           p == CurrentPercentTarget(i, t, Cap(i, s.rem, after), gate)
           j == UpdateCurrentPercent(i, p)
           k1 == IF p <= 0 /\ after THEN [j EXCEPT !.elig = FALSE] ELSE j
<1>1. i \in Incarnation /\ s.rem \in 0 .. 100
  BY DEF Splits
<1>. s.rem \in Nat /\ t \in Incarnations
  BY <1>1, PercentIsNat, IncarnationsAssumption
<1>. HIDE DEF i
<1>2. /\ p \in Nat /\ p <= s.rem /\ p <= 100
      /\ after => p <= i.cur
      /\ i.state \in Canaries => p <= CanaryPercent[t]
  <2> DEFINE c == Cap(i, s.rem, after)
  <2>. i.cur \in Nat
    BY <1>1 DEF Incarnation
  <2>1. c \in Nat /\ c <= s.rem /\ (after => c <= i.cur)
    BY <1>1, CapBound
  <2>. HIDE DEF c
  <2>2. /\ CurrentPercentTarget(i, t, c, gate) \in 0 .. c
        /\ i.state \in Canaries => CurrentPercentTarget(i, t, c, gate) <= CanaryPercent[t]
    BY <1>1, <2>1, TargetBound
  <2>3. i.cur \in Nat
    BY <1>1 DEF Incarnation
  <2>. QED BY <1>1, <2>1, <2>2, <2>3 DEF c
<1>. HIDE DEF p
<1>3. /\ j \in Incarnation
      /\ j.cur = p /\ j.state = i.state /\ j.rev = i.rev /\ j.elig = i.elig
  BY <1>1, <1>2 DEF UpdateCurrentPercent, Incarnation
<1>. HIDE DEF j
<1>4. /\ k1 \in Incarnation
      /\ k1.cur = p /\ k1.state = i.state /\ k1.rev = i.rev
      /\ k1.elig # i.elig => after /\ p = 0
  <2>1. CASE p <= 0 /\ after
    <3>1. k1 = [j EXCEPT !.elig = FALSE] /\ p = 0
      BY <1>2, <2>1
    <3>. QED BY <1>3, <2>1, <3>1 DEF Incarnation
  <2>2. CASE ~(p <= 0 /\ after)
    BY <1>3, <2>2
  <2>. QED BY <2>1, <2>2
<1>5. Visit(s, t, after, gate) =
        [s EXCEPT !.inc[t] = k1, !.weight[t] = p, !.rem = @ - p]
  BY <1>1, <1>2 DEF Visit, p, j, i
<1>. HIDE DEF k1
<1>. DEFINE v == [s EXCEPT !.inc[t] = k1, !.weight[t] = p, !.rem = @ - p]
<1>6. /\ v \in Splits
      /\ v.panic = s.panic
      /\ v.inc[t] = k1 /\ v.weight[t] = p /\ v.rem = s.rem - p
      /\ \A n \in 1 .. N \ {t} : v.inc[n] = s.inc[n] /\ v.weight[n] = s.weight[n]
  <2>1. p \in 0 .. 100 /\ s.rem - p \in 0 .. 100
    BY <1>1, <1>2
  <2>2. v \in Splits
    BY <1>4, <2>1 DEF Splits
  <2>. QED BY <2>2 DEF Splits
<1>. HIDE DEF v
<1>. QED BY <1>2, <1>4, <1>5, <1>6 DEF GivesTo, i, v

-----------------------------------------------------------------------------
(***************************************************************************)
(* The inductive invariant.  The positions the loop has passed have the    *)
(* weight their status says, and with the rest it is at most 100; the      *)
(* others have no weight and the percentage and eligibility they started    *)
(* with.                                                                   *)
(***************************************************************************)
Fits ==
  \A n \in 1 .. N :
    n < k => /\ split.inc[n].cur = split.weight[n]
             /\ split.weight[n] + split.rem <= 100

Untouched ==
  \A n \in 1 .. N :
    n >= k => split.inc[n].cur = start[n] /\ split.inc[n].elig /\ split.weight[n] = 0

CanaryFits ==
  \A n \in 1 .. N :
    n < k /\ split.inc[n].state \in Canaries /\ (pc = "done" => ramping # 0) =>
      split.inc[n].cur <= CanaryPercent[n]

\* Where the loop is.
Progress ==
  /\ pc = "loop" => k <= N
  /\ pc \in {"leftover", "done"} => k = N + 1
  /\ pc # "panic" /\ ~split.panic
  /\ ramping # 0 => split.inc[ramping].state \notin Canaries

IInv ==
  /\ TypeOK
  /\ Progress
  /\ Fits
  /\ Untouched
  /\ CanaryFits
  /\ OlderNeverGain
  /\ EligibilityLostOnlyWhenDrained

\* The loop starts in the invariant.
LEMMA InitIInv == Init => IInv
<1> SUFFICES ASSUME Init PROVE IInv
  OBVIOUS
<1>1. PICK state \in [1 .. N -> {"canarying", "releasing", "failing"}],
           rev \in [1 .. N -> BOOLEAN], cur \in [1 .. N -> Percents], r \in 0 .. N :
        /\ r # 0 => state[r] \notin Canaries
        /\ SumFunction(cur) <= 100
        /\ split = [inc |-> [n \in 1 .. N |-> Position(state[n], rev[n], cur[n])],
                    weight |-> [n \in 1 .. N |-> 0], rem |-> 100, panic |-> FALSE]
        /\ ramping = r /\ start = cur /\ k = 1 /\ pc = "loop" /\ passed = {}
  BY ZenonT(60) DEF Init
<1>2. \A n \in 1 .. N : cur[n] \in 0 .. 100
  BY <1>1, PercentsAssumption
<1>. \A n \in 1 .. N : cur[n] \in Nat
  BY <1>2, PercentIsNat
<1>3. /\ split.inc = [n \in 1 .. N |-> Position(state[n], rev[n], cur[n])]
      /\ split.weight = [n \in 1 .. N |-> 0]
      /\ split.rem = 100 /\ split.panic = FALSE
  BY <1>1
<1>4. ASSUME NEW n \in 1 .. N
      PROVE  /\ split.inc[n] \in Incarnation
             /\ split.inc[n].state = state[n] /\ split.inc[n].cur = start[n]
             /\ split.inc[n].elig /\ split.weight[n] = 0
  <2>1. split.inc[n] = Position(state[n], rev[n], cur[n])
    BY <1>3
  <2>2. /\ state[n] \in {"canarying", "releasing", "failing"}
        /\ rev[n] \in BOOLEAN /\ cur[n] \in Nat
    OBVIOUS
  <2>. QED BY <1>1, <1>3, <2>1, <2>2 DEF Position, Incarnation, Canaries, Live, Draining
<1>5. TypeOK
  <2>1. split \in Splits
    <3>1. split.inc \in [1 .. N -> Incarnation]
      BY <1>3, <1>4
    <3>2. split.weight \in [1 .. N -> 0 .. 100]
      BY <1>3
    <3>. QED BY <1>1, <1>3, <3>1, <3>2 DEF Splits
  <2>2. start \in [1 .. N -> 0 .. 100]
    BY <1>1, <1>2
  <2>3. k \in 1 .. N + 1
    BY <1>1, NAssumption
  <2>4. pc \in {"loop", "leftover", "done", "panic"} /\ ramping \in 0 .. N
    BY <1>1
  <2>5. passed \in SUBSET (1 .. N)
    BY <1>1
  <2>. QED BY <2>1, <2>2, <2>3, <2>4, <2>5 DEF TypeOK, Splits
<1>6. OlderNeverGain /\ EligibilityLostOnlyWhenDrained /\ Untouched
  <2>1. \A n \in 1 .. N : start[n] \in Nat
    BY <1>1
  <2>. QED
    BY <1>4, <2>1 DEF OlderNeverGain, EligibilityLostOnlyWhenDrained, Untouched
<1>7. Progress
  BY <1>1, <1>3, <1>4, NAssumption DEF Progress, Canaries
<1>8. Fits /\ CanaryFits
  BY <1>1 DEF Fits, CanaryFits
<1>. QED
  BY <1>5, <1>6, <1>7, <1>8 DEF IInv

-----------------------------------------------------------------------------
\* One more incarnation is visited.
LEMMA VisitStep == IInv /\ VisitNext => IInv'
<1> SUFFICES ASSUME IInv, VisitNext PROVE IInv'
  OBVIOUS
<1>0. /\ TypeOK /\ Progress /\ Fits /\ Untouched /\ CanaryFits
      /\ OlderNeverGain /\ EligibilityLostOnlyWhenDrained
  BY DEF IInv
<1>1. PICK gate \in BOOLEAN :
        /\ split' = Visit(split, k, After(k), gate)
        /\ passed' = IF gate THEN passed \cup {k} ELSE passed
  BY DEF VisitNext
<1>2. /\ split \in Splits
      /\ pc = "loop" /\ k \in 1 .. N /\ k \in Nat /\ N \in Nat
      /\ After(k) \in BOOLEAN
      /\ ramping' = ramping /\ start' = start /\ k' = k + 1
  BY <1>0, NAssumption DEF TypeOK, Splits, Progress, After, VisitNext
<1>3. GivesTo(k, After(k), split, split')
  <2> DEFINE after == After(k)
  <2>1. after \in BOOLEAN /\ split' = Visit(split, k, after, gate)
    BY <1>1, <1>2
  <2>. HIDE DEF after
  <2>2. GivesTo(k, after, split, Visit(split, k, after, gate))
    BY <1>2, <2>1, VisitEffect
  <2>. QED BY <2>1, <2>2 DEF after
<1>4. ~split'.panic /\ pc' = IF k = N THEN "leftover" ELSE "loop"
  BY <1>0, <1>2, <1>3 DEF Progress, VisitNext, GivesTo
<1>5. \A n \in 1 .. N :
        /\ split'.weight[n] \in Nat /\ split.weight[n] \in Nat
        /\ split'.rem \in Nat /\ split.rem \in Nat
        /\ split'.inc[n].cur \in Nat /\ split.inc[n].cur \in Nat
        /\ start[n] \in Nat
  <2>1. \A n \in 1 .. N :
          /\ split'.weight[n] \in 0 .. 100 /\ split.weight[n] \in 0 .. 100
          /\ split'.inc[n] \in Incarnation /\ split.inc[n] \in Incarnation
          /\ start[n] \in 0 .. 100
    BY <1>0, <1>2, <1>3 DEF Splits, TypeOK, GivesTo
  <2>2. split'.rem \in 0 .. 100 /\ split.rem \in 0 .. 100
    BY <1>2, <1>3 DEF Splits, GivesTo
  <2>. QED BY <2>1, <2>2, PercentIsNat DEF Incarnation
<1>6. TypeOK'
  <2>1. passed' \in SUBSET (1 .. N)
    BY <1>0, <1>1, <1>2 DEF TypeOK
  <2>2. k' \in 1 .. N + 1
    BY <1>2
  <2>3. pc' \in {"loop", "leftover", "done", "panic"}
    BY <1>4
  <2>. QED BY <1>0, <1>2, <1>3, <2>1, <2>2, <2>3 DEF TypeOK, Splits, GivesTo
<1>7. Progress'
  <2>1. \A n \in 1 .. N : split'.inc[n].state = split.inc[n].state
    BY <1>3 DEF GivesTo
  <2>2. ramping # 0 => ramping \in 1 .. N
    BY <1>0 DEF TypeOK
  <2>. QED BY <1>0, <1>2, <1>4, <2>1, <2>2 DEF Progress
<1>8. Fits'
  <2> SUFFICES ASSUME NEW n \in 1 .. N, n < k + 1
               PROVE  /\ split'.inc[n].cur = split'.weight[n]
                      /\ split'.weight[n] + split'.rem <= 100
    BY <1>0, <1>2 DEF Fits
  <2>1. CASE n = k
    <3>1. split'.weight[k] + split'.rem = split.rem /\ split.rem <= 100
      <4>1. split.rem \in 0 .. 100
        BY <1>2 DEF Splits
      <4>. QED BY <1>2, <1>3, <1>5, <4>1, PercentIsNat DEF GivesTo
    <3>. QED BY <1>3, <2>1, <3>1 DEF GivesTo
  <2>2. CASE n # k
    <3>1. n < k
      BY <1>2, <2>2
    <3>2. split'.inc[n] = split.inc[n] /\ split'.weight[n] = split.weight[n]
      BY <1>3, <2>2 DEF GivesTo
    <3>3. split'.rem <= split.rem
      BY <1>2, <1>3, <1>5 DEF GivesTo
    <3>. QED BY <1>0, <1>5, <3>1, <3>2, <3>3 DEF Fits
  <2>. QED BY <2>1, <2>2
<1>9. Untouched'
  <2> SUFFICES ASSUME NEW n \in 1 .. N, n >= k + 1
               PROVE  /\ split'.inc[n].cur = start[n] /\ split'.inc[n].elig
                      /\ split'.weight[n] = 0
    BY <1>0, <1>2 DEF Untouched
  <2>1. n # k /\ n >= k
    BY <1>2
  <2>. QED BY <1>0, <1>3, <2>1 DEF Untouched, GivesTo
<1>10. CanaryFits'
  <2> SUFFICES ASSUME NEW n \in 1 .. N, n < k + 1, split'.inc[n].state \in Canaries
               PROVE  split'.inc[n].cur <= CanaryPercent[n]
    BY <1>0, <1>2 DEF CanaryFits
  <2>1. CASE n = k
    BY <1>3, <2>1 DEF GivesTo
  <2>2. CASE n # k
    <3>1. n < k /\ split'.inc[n] = split.inc[n]
      BY <1>2, <1>3, <2>2 DEF GivesTo
    <3>. QED BY <1>0, <1>2, <3>1 DEF CanaryFits
  <2>. QED BY <2>1, <2>2
<1>11. OlderNeverGain'
  <2> SUFFICES ASSUME NEW n \in 1 .. N, After(n)
               PROVE  split'.inc[n].cur <= start[n]
    BY <1>0, <1>2 DEF OlderNeverGain, After
  <2>1. CASE n = k
    <3>1. split.inc[k].cur = start[k]
      BY <1>0, <1>2 DEF Untouched
    <3>. QED BY <1>3, <2>1, <3>1 DEF GivesTo
  <2>2. CASE n # k
    BY <1>0, <1>3, <2>2 DEF OlderNeverGain, GivesTo
  <2>. QED BY <2>1, <2>2
<1>12. EligibilityLostOnlyWhenDrained'
  <2> SUFFICES ASSUME NEW n \in 1 .. N, ~split'.inc[n].elig
               PROVE  After(n) /\ split'.inc[n].cur = 0 /\ split'.weight[n] = 0
    BY <1>0, <1>2 DEF EligibilityLostOnlyWhenDrained, After
  <2>1. CASE n = k
    <3>1. split.inc[k].elig
      BY <1>0, <1>2 DEF Untouched
    <3>. QED BY <1>3, <2>1, <3>1 DEF GivesTo
  <2>2. CASE n # k
    BY <1>0, <1>3, <2>2 DEF EligibilityLostOnlyWhenDrained, GivesTo
  <2>. QED BY <2>1, <2>2
<1>. QED BY <1>6, <1>7, <1>8, <1>9, <1>10, <1>11, <1>12 DEF IInv

\* The leftover is given away.  The receiver is not behind the ramping
\* incarnation, and a canary receives it only when nothing ramps.
LEMMA LeftoverStep == IInv /\ GiveLeftover => IInv'
<1> SUFFICES ASSUME IInv, GiveLeftover PROVE IInv'
  OBVIOUS
<1>0. /\ TypeOK /\ Progress /\ Fits /\ Untouched /\ CanaryFits
      /\ OlderNeverGain /\ EligibilityLostOnlyWhenDrained
  BY DEF IInv
<1>1. /\ split \in Splits
      /\ pc = "leftover" /\ k = N + 1 /\ N \in Nat
      /\ Receiver \in 1 .. N
      /\ pc' = "done" /\ ramping' = ramping /\ start' = start /\ k' = k /\ passed' = passed
  BY <1>0, NAssumption DEF TypeOK, Splits, Progress, GiveLeftover, Receiver
<1> DEFINE p == split.inc[Receiver].cur + split.rem
           j == UpdateCurrentPercent(split.inc[Receiver], p)
           v == AssignLeftover(split, Receiver)
<1>2. /\ p \in 0 .. 100
      /\ p = split.inc[Receiver].cur + split.rem
      /\ split.rem \in Nat
  <2>1. /\ split.rem \in 0 .. 100 /\ split.weight[Receiver] \in 0 .. 100
        /\ Receiver < k
    BY <1>1 DEF Splits
  <2>2. /\ split.inc[Receiver].cur = split.weight[Receiver]
        /\ split.weight[Receiver] + split.rem <= 100
    BY <1>0, <1>1, <2>1 DEF Fits
  <2>3. split.rem \in Nat /\ split.weight[Receiver] \in Nat
    BY <2>1, PercentIsNat
  <2>. QED BY <2>2, <2>3
<1>. HIDE DEF p
<1>3. /\ j \in Incarnation
      /\ j.cur = p
      /\ j.state = split.inc[Receiver].state
      /\ j.elig = split.inc[Receiver].elig
  <2>1. split.inc[Receiver] \in Incarnation /\ p \in Nat
    BY <1>1, <1>2, PercentIsNat DEF Splits
  <2>. QED BY <2>1 DEF UpdateCurrentPercent, Incarnation
<1>. HIDE DEF j
<1>4. v = [split EXCEPT !.inc[Receiver] = j, !.weight[Receiver] = p, !.rem = 0]
  BY <1>1 DEF AssignLeftover, j, p, Splits
<1>5. /\ v \in Splits
      /\ v.panic = split.panic /\ v.rem = 0
      /\ v.inc[Receiver] = j /\ v.weight[Receiver] = p
      /\ \A n \in 1 .. N \ {Receiver} :
           v.inc[n] = split.inc[n] /\ v.weight[n] = split.weight[n]
  <2>1. v \in Splits
    <3>. HIDE DEF v
    <3>2. [split EXCEPT !.inc[Receiver] = j, !.weight[Receiver] = p, !.rem = 0] \in Splits
      <4>1. split \in Splits /\ Receiver \in 1 .. N /\ j \in Incarnation /\ p \in 0 .. 100
        BY <1>1, <1>2, <1>3
      <4>. QED BY <4>1, ZeroPercent, SplitUpdate, Zenon
    <3>. QED BY <1>4, <3>2
  <2>2. split.inc \in [1 .. N -> Incarnation] /\ split.weight \in [1 .. N -> 0 .. 100]
    BY <1>1 DEF Splits
  <2>3. v = [inc |-> [split.inc EXCEPT ![Receiver] = j], weight |-> [split.weight EXCEPT ![Receiver] = p],
             rem |-> 0, panic |-> split.panic]
    BY <1>1, <1>4 DEF Splits
  <2>. HIDE DEF v
  <2>. QED BY <1>1, <2>1, <2>2, <2>3
<1>6. split' = v \/ split' = split
  BY DEF GiveLeftover
<1>. HIDE DEF v
<1>7. TypeOK'
  BY <1>0, <1>1, <1>5, <1>6 DEF TypeOK, Splits
<1>8. Progress'
  <2>1. \A n \in 1 .. N : split'.inc[n].state = split.inc[n].state
    BY <1>3, <1>5, <1>6
  <2>2. ramping # 0 => ramping \in 1 .. N
    BY <1>0 DEF TypeOK
  <2>. QED BY <1>0, <1>1, <1>5, <1>6, <2>1, <2>2 DEF Progress
<1>9. Fits'
  <2> SUFFICES ASSUME NEW n \in 1 .. N
               PROVE  /\ split'.inc[n].cur = split'.weight[n]
                      /\ split'.weight[n] + split'.rem <= 100
    BY <1>1 DEF Fits
  <2>1. split.inc[n].cur = split.weight[n] /\ split.weight[n] + split.rem <= 100
    BY <1>0, <1>1 DEF Fits
  <2>2. CASE split' = split
    BY <2>1, <2>2
  <2>3. CASE split' = v
    <3>1. v.inc[n].cur = v.weight[n]
      BY <1>3, <1>5, <2>1
    <3>2. v.weight[n] \in 0 .. 100
      BY <1>5 DEF Splits
    <3>3. v.weight[n] + v.rem <= 100
      BY <1>5, <3>2, PercentIsNat
    <3>. QED BY <2>3, <3>1, <3>3
  <2>. QED BY <1>6, <2>2, <2>3
<1>10. Untouched'
  BY <1>1 DEF Untouched
<1>11. CanaryFits'
  <2> SUFFICES ASSUME NEW n \in 1 .. N, split'.inc[n].state \in Canaries, ramping # 0
               PROVE  split'.inc[n].cur <= CanaryPercent[n]
    BY <1>1 DEF CanaryFits
  <2>1. n # Receiver
    BY <1>0, <1>3, <1>5, <1>6 DEF Progress, Receiver
  <2>2. split'.inc[n] = split.inc[n]
    BY <1>5, <1>6, <2>1
  <2>. QED BY <1>0, <1>1, <2>2 DEF CanaryFits
<1>12. \A n \in 1 .. N : After(n) => split'.inc[n] = split.inc[n]
                                     /\ split'.weight[n] = split.weight[n]
  BY <1>1, <1>5, <1>6 DEF After, Receiver
<1>13. OlderNeverGain'
  BY <1>0, <1>1, <1>12 DEF OlderNeverGain, After
<1>14. EligibilityLostOnlyWhenDrained'
  <2> SUFFICES ASSUME NEW n \in 1 .. N, ~split'.inc[n].elig
               PROVE  After(n) /\ split'.inc[n].cur = 0 /\ split'.weight[n] = 0
    BY <1>1 DEF EligibilityLostOnlyWhenDrained, After
  <2>1. split'.inc[n].elig = split.inc[n].elig
    BY <1>3, <1>5, <1>6
  <2>2. After(n) /\ split.inc[n].cur = 0 /\ split.weight[n] = 0
    BY <1>0, <2>1 DEF EligibilityLostOnlyWhenDrained
  <2>. QED BY <1>12, <2>2
<1>. QED BY <1>7, <1>8, <1>9, <1>10, <1>11, <1>13, <1>14 DEF IInv

\* The invariant says nothing of what is not a variable.
LEMMA StutterStep == IInv /\ UNCHANGED vars => IInv'
BY DEF vars, IInv, TypeOK, Progress, Fits, Untouched, CanaryFits, OlderNeverGain,
       EligibilityLostOnlyWhenDrained, After

-----------------------------------------------------------------------------
\* The inductive invariant holds of every round.
THEOREM Invariance == Spec => []IInv
<1>1. IInv /\ [Next]_vars => IInv'
  BY VisitStep, LeftoverStep, StutterStep DEF Next
<1>. QED BY InitIInv, <1>1, PTL DEF Spec

\* Every weight, percentage and remainder stays between 0 and 100, whatever the
\* strategies' numbers are and also when their uint32 arithmetic wraps.
THEOREM TypeCorrect == Spec => []TypeOK
<1>1. IInv => TypeOK
  BY DEF IInv
<1>. QED BY Invariance, <1>1, PTL

\* The "Assertion failed" of prepareRevisions is never reached.
THEOREM NoPanic == Spec => []NeverPanics
<1>1. IInv => NeverPanics
  BY DEF IInv, Progress, NeverPanics
<1>. QED BY Invariance, <1>1, PTL

\* Incarnations older than the ramping one never gain traffic.
THEOREM OlderOnlyLose == Spec => []OlderNeverGain
<1>1. IInv => OlderNeverGain
  BY DEF IInv
<1>. QED BY Invariance, <1>1, PTL

\* While an incarnation ramps, canaries stay within Canary.Percent.
THEOREM CanariesBounded == Spec => []CanaryBounded
<1>1. IInv => CanaryBounded
  <2> SUFFICES ASSUME IInv, pc = "done", ramping # 0, NEW n \in 1 .. N,
                      split.inc[n].state \in Canaries
               PROVE  split.inc[n].cur <= CanaryPercent[n]
    BY DEF CanaryBounded
  <2>1. k = N + 1 /\ n < k
    BY NAssumption DEF IInv, Progress
  <2>. QED BY <2>1 DEF IInv, CanaryFits
<1>. QED BY Invariance, <1>1, PTL

\* An incarnation loses its eligibility only behind the ramping one and drained.
THEOREM EligibilityKept == Spec => []EligibilityLostOnlyWhenDrained
<1>1. IInv => EligibilityLostOnlyWhenDrained
  BY DEF IInv
<1>. QED BY Invariance, <1>1, PTL

-----------------------------------------------------------------------------
(***************************************************************************)
(* The refinement.  A visit gives a part of the budget to an incarnation   *)
(* that has nothing yet, the leftover closes the round; the invariant is   *)
(* needed for both: for the weight before the visit, and for the status    *)
(* that the leftover is added to, which is the weight.                     *)
(***************************************************************************)

\* A round starts with the whole budget.
LEMMA InitImplements == Init => Round!Init
BY DEF Init, Round!Init

\* Visiting an incarnation gives it its part, nothing if that is 0%.
LEMMA VisitImplements == IInv /\ VisitNext => Round!Give(k)
<1> SUFFICES ASSUME IInv, VisitNext PROVE Round!Give(k)
  OBVIOUS
<1>. TypeOK /\ Progress /\ Untouched
  BY DEF IInv
<1>0. /\ split \in Splits
      /\ pc = "loop" /\ k \in 1 .. N
      /\ After(k) \in BOOLEAN
  <2>1. split \in Splits
    BY DEF TypeOK, Splits
  <2>2. pc = "loop" /\ k <= N /\ k \in 1 .. N + 1
    BY DEF TypeOK, Progress, VisitNext
  <2>3. k \in 1 .. N
    BY <2>2, NAssumption
  <2>4. After(k) \in BOOLEAN
    BY DEF After
  <2>. QED BY <2>1, <2>2, <2>3, <2>4
<1>1. PICK gate \in BOOLEAN : split' = Visit(split, k, After(k), gate)
  BY DEF VisitNext
<1> DEFINE after == After(k)
           part == split'.weight[k]
<1>2. GivesTo(k, after, split, split')
  <2>1. after \in BOOLEAN /\ split' = Visit(split, k, after, gate)
    BY <1>0, <1>1
  <2>. HIDE DEF after
  <2>. QED BY <1>0, <2>1, VisitEffect
<1>. HIDE DEF after
<1>3. /\ part \in 0 .. split.rem
      /\ split'.rem = split.rem - part
  <2>1. /\ part \in 0 .. 100 /\ split'.rem \in 0 .. 100 /\ split.rem \in 0 .. 100
        /\ split'.rem = split.rem - part
    BY <1>0, <1>2 DEF GivesTo, Splits
  <2>2. part \in Nat /\ split'.rem \in Nat /\ split.rem \in Nat
    BY <2>1, PercentIsNat
  <2>. HIDE DEF part
  <2>. QED BY <2>1, <2>2
<1>4. split'.weight = [split.weight EXCEPT ![k] = part]
  <2>1. /\ split.weight \in [1 .. N -> 0 .. 100] /\ split'.weight \in [1 .. N -> 0 .. 100]
        /\ \A n \in 1 .. N \ {k} : split'.weight[n] = split.weight[n]
    BY <1>0, <1>2 DEF GivesTo, Splits
  <2>. QED BY <1>0, <2>1
<1>5. split.weight[k] = 0 /\ pc # "done" /\ pc' # "done"
  <2>1. k >= k
    BY <1>0
  <2>. QED BY <1>0, <2>1 DEF Untouched, VisitNext
<1>. HIDE DEF part
<1>. QED BY <1>3, <1>4, <1>5 DEF Round!Give

\* The leftover, also when there is none, closes the round.
LEMMA LeftoverImplements == IInv /\ GiveLeftover => Round!Close(Receiver)
<1> SUFFICES ASSUME IInv, GiveLeftover PROVE Round!Close(Receiver)
  OBVIOUS
<1>1. /\ split \in Splits /\ Receiver \in 1 .. N
      /\ pc = "leftover" /\ pc' = "done" /\ Receiver < k
  <2>1. TypeOK /\ Progress
    BY DEF IInv
  <2>. QED BY <2>1, NAssumption DEF TypeOK, Splits, Progress, GiveLeftover, Receiver
<1>2. /\ split.inc[Receiver].cur = split.weight[Receiver]
      /\ split.weight[Receiver] \in Nat /\ split.rem \in Nat
  <2>1. Fits
    BY DEF IInv
  <2>2. split.weight[Receiver] \in 0 .. 100 /\ split.rem \in 0 .. 100
    BY <1>1 DEF Splits
  <2>. QED BY <1>1, <2>1, <2>2, PercentIsNat DEF Fits
<1>3. CASE split.rem > 0
  <2>1. split' = AssignLeftover(split, Receiver)
    BY <1>3 DEF GiveLeftover
  <2>2. /\ split'.weight =
             [split.weight EXCEPT ![Receiver] = split.weight[Receiver] + split.rem]
        /\ split'.rem = 0
    BY <1>1, <1>2, <2>1 DEF AssignLeftover, Splits
  <2>. QED BY <1>1, <2>2 DEF Round!Close
<1>4. CASE ~(split.rem > 0)
  <2>1. split' = split
    BY <1>4 DEF GiveLeftover
  <2>2. split.rem = 0 /\ split.weight[Receiver] + split.rem = split.weight[Receiver]
    BY <1>2, <1>4
  <2>3. split.weight \in [1 .. N -> 0 .. 100]
    BY <1>1 DEF Splits
  <2>4. split'.weight =
          [split.weight EXCEPT ![Receiver] = split.weight[Receiver] + split.rem]
    BY <2>1, <2>2, <2>3
  <2>. QED BY <1>1, <2>1, <2>2, <2>4 DEF Round!Close
<1>. QED BY <1>3, <1>4

\* Every round hands out a budget of 100%, for every number of incarnations: nothing
\* is given twice or taken back, and nothing is left when it is closed.
THEOREM RoundImplementsBudget == Spec => ImplementsBudget
<1>1. IInv /\ [Next]_vars => [Round!Next]_(Round!vars)
  <2> SUFFICES ASSUME IInv, [Next]_vars PROVE [Round!Next]_(Round!vars)
    OBVIOUS
  <2>1. CASE VisitNext
    <3>1. k \in 1 .. N
      <4>1. TypeOK /\ Progress
        BY DEF IInv
      <4>. QED BY <2>1, <4>1, NAssumption DEF TypeOK, Progress, VisitNext
    <3>. QED BY <2>1, <3>1, VisitImplements DEF Round!Next
  <2>2. CASE GiveLeftover
    <3>1. Receiver \in 1 .. N
      <4>1. TypeOK
        BY DEF IInv
      <4>. QED BY <4>1, NAssumption DEF TypeOK, Receiver
    <3>. QED BY <2>2, <3>1, LeftoverImplements DEF Round!Next
  <2>3. CASE UNCHANGED vars
    BY <2>3 DEF vars, Round!vars
  <2>. QED BY <2>1, <2>2, <2>3 DEF Next
<1>. QED BY InitImplements, Invariance, <1>1, PTL DEF Spec, Round!Spec, ImplementsBudget
-----------------------------------------------------------------------------
(***************************************************************************)
(* The whole 100%.  The sum of the weights and the rest stays 100, because *)
(* an incarnation that is visited had no weight before; and closing leaves *)
(* no rest.  This follows from the steps of the budget alone.              *)
(***************************************************************************)

\* Nothing of the budget is lost or given twice.
Whole == SumFunction(split.weight) + split.rem = 100 /\ (pc = "done" => split.rem = 0)

\* The positions of the loop are finitely many, and weights are integers.
LEMMA WeightsAddUp ==
  ASSUME NEW w \in [1 .. N -> 0 .. 100]
  PROVE  IsFiniteSet(1 .. N) /\ w \in [1 .. N -> Int] /\ SumFunction(w) \in Nat
<1>1. N \in Nat /\ IsFiniteSet(1 .. N)
  BY NAssumption, FS_Interval
<1>2. w \in [1 .. N -> Int] /\ \A n \in 1 .. N : w[n] >= 0
  <2>1. \A n \in 1 .. N : w[n] \in Nat
    BY PercentIsNat
  <2>. QED BY <2>1
<1>. QED BY <1>1, <1>2, SumType

\* A round starts with everything left.
LEMMA InitWhole == Init => Whole
<1> SUFFICES ASSUME Init PROVE Whole
  OBVIOUS
<1>1. split.weight = [n \in 1 .. N |-> 0] /\ split.rem = 100 /\ pc = "loop"
  BY DEF Init
<1>2. SumFunction(split.weight) = 0
  <2>. DEFINE w == [n \in 1 .. N |-> 0]
  <2>1. w \in [1 .. N -> Int] /\ \A n \in 1 .. N : w[n] = 0
    OBVIOUS
  <2>2. IsFiniteSet(1 .. N)
    BY NAssumption, FS_Interval
  <2>. HIDE DEF w
  <2>3. SumFunction(w) = 0
    BY <2>1, <2>2, SumZero
  <2>. QED BY <1>1, <2>3 DEF w
<1>. QED BY <1>1, <1>2 DEF Whole

\* Giving a part, and closing the round, keep it whole.
LEMMA StepWhole == IInv /\ Whole /\ Next => Whole'
<1> SUFFICES ASSUME IInv, Whole, Next PROVE Whole'
  OBVIOUS
<1>. DEFINE w == split.weight
<1>1. w \in [1 .. N -> 0 .. 100] /\ split.rem \in 0 .. 100
  BY DEF IInv, TypeOK
<1>2. IsFiniteSet(1 .. N) /\ w \in [1 .. N -> Int] /\ SumFunction(w) \in Nat
  <2>. HIDE DEF w
  <2>. QED BY <1>1, WeightsAddUp
<1>3. SumFunction(w) + split.rem = 100 /\ split.rem \in Nat
  BY <1>1, PercentIsNat DEF Whole
<1>4. CASE VisitNext
  <2>1. k \in 1 .. N /\ Round!Give(k)
    <3>1. TypeOK /\ Progress
      BY DEF IInv
    <3>2. k \in 1 .. N
      BY <1>4, <3>1, NAssumption DEF TypeOK, Progress, VisitNext
    <3>. QED BY <1>4, <3>2, VisitImplements
  <2>2. PICK part \in 0 .. split.rem :
          w[k] = 0 /\ split'.weight = [w EXCEPT ![k] = part] /\ split'.rem = split.rem - part
    BY <2>1 DEF Round!Give
  <2>3. part \in Int /\ split.rem \in Int
    BY <1>3, <2>2
  <2>. HIDE DEF w
  <2>4. SumFunction([w EXCEPT ![k] = part]) = SumFunction(w) - w[k] + part
    BY <1>2, <2>1, <2>3, SumUpdate
  <2>5. SumFunction(split'.weight) + split'.rem = 100
    BY <1>2, <1>3, <2>2, <2>3, <2>4
  <2>6. pc' # "done"
    BY <1>4 DEF VisitNext
  <2>. QED BY <2>5, <2>6 DEF Whole
<1>5. CASE GiveLeftover
  <2>. DEFINE r == Receiver
              x == w[r] + split.rem
  <2>1. r \in 1 .. N /\ Round!Close(r)
    <3>1. TypeOK
      BY DEF IInv
    <3>. QED BY <1>5, <3>1, NAssumption, LeftoverImplements DEF TypeOK, Receiver
  <2>2. split'.weight = [w EXCEPT ![r] = x] /\ split'.rem = 0
    BY <2>1 DEF Round!Close
  <2>. HIDE DEF w, r
  <2>3. w[r] \in Int /\ x = w[r] + split.rem /\ x \in Int
    BY <1>2, <1>3, <2>1
  <2>. HIDE DEF x
  <2>4. SumFunction([w EXCEPT ![r] = x]) = SumFunction(w) - w[r] + x
    BY <1>2, <2>1, <2>3, SumUpdate
  <2>5. SumFunction(split'.weight) + split'.rem = 100
    BY <1>2, <1>3, <2>2, <2>3, <2>4
  <2>. QED BY <2>2, <2>5 DEF Whole
<1>. QED BY <1>4, <1>5 DEF Next

\* The budget stays whole in every round.
THEOREM BudgetWhole == Spec => []Whole
<1>1. Whole /\ UNCHANGED vars => Whole'
  BY DEF Whole, vars
<1>2. IInv /\ Whole /\ [Next]_vars => Whole'
  BY <1>1, StepWhole
<1>. QED BY InitWhole, Invariance, <1>2, PTL DEF Spec

\* When the loop is done the whole 100% is in the VirtualService, and each status
\* says the weight: for every number of incarnations, strategies and gates.
THEOREM AllAssigned == Spec => []FullyAssigned
<1>1. IInv /\ Whole => FullyAssigned
  <2> SUFFICES ASSUME IInv, Whole, pc = "done"
               PROVE  /\ SumFunction(split.weight) = 100
                      /\ \A n \in 1 .. N : split.weight[n] = split.inc[n].cur
    BY DEF FullyAssigned
  <2>1. SumFunction(split.weight) = 100
    <3>1. SumFunction(split.weight) \in Nat
      BY WeightsAddUp DEF IInv, TypeOK
    <3>. QED BY <3>1 DEF Whole
  <2>2. k = N + 1 /\ \A n \in 1 .. N : n < k
    BY NAssumption DEF IInv, Progress
  <2>. QED BY <2>1, <2>2 DEF IInv, Fits
<1>. QED BY Invariance, BudgetWhole, <1>1, PTL
-----------------------------------------------------------------------------
(***************************************************************************)
(* The ramp gate.  A strategy that steps up never asks for less than the   *)
(* incarnation has, unless it is offered less: then it takes all that is   *)
(* left.  So whoever loses leaves nothing over, and when nobody loses      *)
(* nothing is over either, as all 100% was out at the start.               *)
(***************************************************************************)

\* A factor is 1 at least (SetReleaseDefaults makes 2 of 0), and the steps fit in
\* the word.
SaneStrategies ==
  \A t \in Incarnations :
    /\ Release[t].factor >= 1
    /\ 100 + Release[t].increment < Word
    /\ 100 * Release[t].factor < Word

\* Below the word, arithmetic does not wrap.
LEMMA NoWrap ==
  ASSUME NEW a \in Nat, a < Word
  PROVE  a % Word = a
BY WordAssumption

\* A step of a strategy with a factor and a word that fit does not go down.
LEMMA StepsUp ==
  ASSUME SaneStrategies, NEW t \in Incarnations, NEW cur \in 0 .. 100
  PROVE  /\ LinearStep(Release[t], cur) \in Nat /\ LinearStep(Release[t], cur) >= cur
         /\ GeometricStep(Release[t], cur) \in Nat /\ GeometricStep(Release[t], cur) >= cur
<1>. DEFINE r == Release[t]
            f == Release[t].factor
<1>1. /\ r.start \in Nat /\ f \in Nat /\ r.increment \in Nat
      /\ f >= 1 /\ 100 + r.increment < Word /\ 100 * f < Word
  BY ReleaseAssumption DEF SaneStrategies, Strategies
<1>2. cur \in Nat /\ cur <= 100 /\ Word \in Nat
  BY PercentIsNat, WordAssumption
<1>. HIDE DEF r, f
<1>3. cur + r.increment \in Nat /\ cur + r.increment < Word
  BY <1>1, <1>2
<1>4. cur * f \in Nat /\ cur * f >= cur /\ cur * f <= 100 * f
  <2>1. \A a, b, c \in Nat : a <= b => a * c <= b * c
    OBVIOUS
  <2>2. cur * f <= 100 * f /\ f * cur >= 1 * cur
    BY <1>1, <1>2, <2>1
  <2>. QED BY <1>1, <1>2, <2>2
<1>5. cur * f < Word
  BY <1>1, <1>2, <1>4
<1>6. (cur + r.increment) % Word = cur + r.increment /\ (cur * f) % Word = cur * f
  BY <1>3, <1>4, <1>5, NoWrap
<1>7. LinearStep(r, cur) = cur + r.increment
  BY <1>6 DEF LinearStep
<1>8. GeometricStep(r, cur) = IF cur < r.start THEN r.start ELSE cur * f
  BY <1>6 DEF GeometricStep, f, r
<1>9. /\ LinearStep(r, cur) \in Nat /\ LinearStep(r, cur) >= cur
      /\ GeometricStep(r, cur) \in Nat /\ GeometricStep(r, cur) >= cur
  BY <1>1, <1>2, <1>3, <1>4, <1>7, <1>8
<1>. QED BY <1>9 DEF r

\* Offered bound, an incarnation at or below its own maximum gains only through
\* its gate, and loses only when it takes the whole offer.
LEMMA ScaleThroughGate ==
  ASSUME SaneStrategies, NEW t \in Incarnations, NEW cur \in 0 .. 100, NEW bound \in Nat,
         NEW gate \in BOOLEAN, cur <= Release[t].max
  PROVE  LET p == Scale(t, cur, bound, gate)
         IN  (p > cur => gate) /\ (p < cur => p = bound)
<1>. DEFINE r == Release[t]
            top == Smaller(r.max, bound)
            step == IF r.strategy = "linear" THEN LinearStep(r, cur) ELSE GeometricStep(r, cur)
            d == NextIncrement(t, cur, bound)
<1>1. r.max \in Nat /\ cur \in Nat /\ cur <= r.max
  BY ReleaseAssumption, PercentIsNat DEF Strategies
<1>2. step \in Nat /\ step >= cur
  BY StepsUp
<1>3. d = IF bound <= 0 THEN 0 ELSE IF cur > top THEN top ELSE Smaller(step, top)
  BY DEF NextIncrement
<1>4. top \in Nat /\ (top = r.max \/ top = bound) /\ top <= bound
  BY <1>1 DEF Smaller
<1>. HIDE DEF r, top, step
<1>5. d \in Nat /\ (d < cur => d = bound)
  <2>1. CASE bound <= 0
    BY <1>3, <2>1
  <2>2. CASE bound > 0 /\ cur > top
    BY <1>1, <1>3, <1>4, <2>2
  <2>3. CASE bound > 0 /\ ~(cur > top)
    <3>1. d = Smaller(step, top)
      BY <1>1, <1>3, <1>4, <2>3
    <3>2. d \in Nat /\ d >= cur
      BY <1>1, <1>2, <1>4, <2>3, <3>1 DEF Smaller
    <3>. QED BY <1>1, <3>2
  <2>. QED BY <1>1, <1>4, <2>1, <2>2, <2>3
<1>6. Scale(t, cur, bound, gate) = IF d <= cur THEN d ELSE IF gate THEN d ELSE cur
  BY DEF Scale
<1>. HIDE DEF d
<1>. QED BY <1>1, <1>5, <1>6
\* Incarnation i, at t, is within its own bounds.
Within(i, t) ==
  /\ i.rev /\ i.cur \in 0 .. 100 /\ i.cur <= Release[t].max
  /\ i.state \in Canaries => i.cur <= CanaryPercent[t]

\* From split s to split v, what incarnation t gains passed its gate, and if it
\* loses it leaves nothing for the others.
ByGate(t, gate, s, v) ==
  /\ v.inc[t].cur > s.inc[t].cur => gate
  /\ v.inc[t].cur < s.inc[t].cur => v.rem = 0

\* So it is when an incarnation within its bounds is visited.
LEMMA VisitByGate ==
  ASSUME SaneStrategies, NEW s \in Splits, NEW t \in 1 .. N, NEW after \in BOOLEAN,
         NEW gate \in BOOLEAN, Within(s.inc[t], t)
  PROVE  ByGate(t, gate, s, Visit(s, t, after, gate))
<1>. DEFINE i == s.inc[t]
            c == Cap(i, s.rem, after)
            cur == i.cur
            bound == IF i.state \in Canaries THEN Smaller(c, CanaryPercent[t]) ELSE c
            p == CurrentPercentTarget(i, t, c, gate)
            v == Visit(s, t, after, gate)
<1>0. cur \in 0 .. 100 /\ i.rev /\ cur <= Release[t].max
  BY DEF Within
<1>1. i \in Incarnation /\ s.rem \in Nat /\ cur \in Nat /\ t \in Incarnations
  BY <1>0, PercentIsNat, IncarnationsAssumption DEF Splits
<1>2. CanaryPercent[t] \in Nat
  BY <1>1, CanaryAssumption
<1>3. c \in Nat /\ c <= s.rem /\ (c = s.rem \/ c = cur)
  <2>1. c \in Nat /\ c <= s.rem
    BY <1>1, CapBound
  <2>2. c = s.rem \/ c = cur
    BY DEF Cap, Smaller
  <2>. QED BY <2>1, <2>2
<1>4. p \in 0 .. c
  <2>. HIDE DEF i, c
  <2>. QED BY <1>1, <1>3, TargetBound
<1>5. p = Scale(t, cur, bound, gate)
  BY <1>0 DEF CurrentPercentTarget
<1>6. bound \in Nat /\ (i.state \in Canaries => cur <= CanaryPercent[t])
      /\ (bound = c \/ (i.state \in Canaries /\ bound = CanaryPercent[t]))
  BY <1>2, <1>3 DEF Smaller, Within
<1>7. (p > cur => gate) /\ (p < cur => p = bound)
  <2>. HIDE DEF bound, p, cur
  <2>. QED BY <1>0, <1>1, <1>5, <1>6, ScaleThroughGate
<1>8. p < cur => p = s.rem
  <2>. HIDE DEF bound, p, c, i, cur
  <2>. QED BY <1>1, <1>2, <1>3, <1>4, <1>6, <1>7
<1>9. v.weight[t] = p
  <2>1. ~(p > s.rem)
    <3>. HIDE DEF p, c
    <3>. QED BY <1>1, <1>3, <1>4
  <2>2. v = [s EXCEPT !.inc[t] = IF p <= 0 /\ after
                                 THEN [UpdateCurrentPercent(i, p) EXCEPT !.elig = FALSE]
                                 ELSE UpdateCurrentPercent(i, p),
                      !.weight[t] = p, !.rem = @ - p]
    BY <2>1 DEF Visit
  <2>. HIDE DEF p, i, v
  <2>. QED BY <2>2 DEF Splits
<1>10. v.inc[t].cur = v.weight[t] /\ v.rem = s.rem - v.weight[t]
  <2>1. GivesTo(t, after, s, v)
    BY VisitEffect
  <2>. QED BY <2>1 DEF GivesTo
<1>11. (v.inc[t].cur > cur => gate) /\ (v.inc[t].cur < cur => v.rem = 0)
  <2>. HIDE DEF v, p, c, i, bound, cur
  <2>. QED BY <1>1, <1>7, <1>8, <1>9, <1>10
<1>. HIDE DEF v
<1>12. ByGate(t, gate, s, v)
  BY <1>11 DEF ByGate
<1>. QED BY <1>12 DEF v

\* Until the leftover is given, who gained has passed its gate, and if something
\* is left nobody has lost.
GateInv ==
  Healthy =>
    /\ GainsOnlyThroughGate
    /\ pc # "done" /\ split.rem # 0 => \A n \in 1 .. N : split.inc[n].cur >= start[n]

\* No step makes a round healthy.
LEMMA HealthyBefore == IInv /\ Next /\ Healthy' => Healthy
<1> SUFFICES ASSUME IInv, Next, Healthy' PROVE Healthy
  OBVIOUS
<1>1. start' = start
  BY DEF Next, VisitNext, GiveLeftover
<1>2. TypeOK /\ Progress /\ split \in Splits
  BY DEF IInv, TypeOK, Splits
<1>3. \A n \in 1 .. N : /\ split'.inc[n].rev = split.inc[n].rev
                        /\ split'.inc[n].state = split.inc[n].state
  <2>1. CASE VisitNext
    <3>. DEFINE after == After(k)
    <3>1. PICK gate \in BOOLEAN : split' = Visit(split, k, after, gate)
      BY <2>1 DEF VisitNext
    <3>2. k \in 1 .. N /\ after \in BOOLEAN
      BY <1>2, <2>1, NAssumption DEF TypeOK, Progress, VisitNext, After
    <3>. HIDE DEF after
    <3>3. GivesTo(k, after, split, split')
      BY <1>2, <3>1, <3>2, VisitEffect
    <3>. QED BY <3>3 DEF GivesTo
  <2>2. CASE GiveLeftover
    <3>. DEFINE r == Receiver
    <3>1. r \in 1 .. N
      BY <1>2, NAssumption DEF TypeOK, Receiver
    <3>2. split' = split \/ split' = AssignLeftover(split, r)
      BY <2>2 DEF GiveLeftover
    <3>. HIDE DEF r
    <3>3. \A n \in 1 .. N : split.inc[n] \in Incarnation
      BY <1>2 DEF Splits
    <3>4. ASSUME NEW i \in Incarnation, NEW p
          PROVE  /\ UpdateCurrentPercent(i, p).rev = i.rev
                 /\ UpdateCurrentPercent(i, p).state = i.state
      BY DEF UpdateCurrentPercent, Incarnation
    <3>5. CASE split' = AssignLeftover(split, r)
      <4>. DEFINE p == split.inc[r].cur + split.rem
                  j == UpdateCurrentPercent(split.inc[r], p)
      <4>1. j.rev = split.inc[r].rev /\ j.state = split.inc[r].state
        BY <3>1, <3>3, <3>4
      <4>2. split'.inc = [split.inc EXCEPT ![r] = j]
        BY <1>2, <3>1, <3>5 DEF AssignLeftover, Splits
      <4>. HIDE DEF j
      <4>. QED BY <1>2, <3>1, <4>1, <4>2 DEF Splits
    <3>. QED BY <3>2, <3>5
  <2>. QED BY <2>1, <2>2 DEF Next
<1>. QED BY <1>1, <1>3 DEF Healthy

\* When nothing was lost from a full 100%, nothing is left over.
LEMMA NothingLeftOver ==
  ASSUME IInv, Whole, Healthy, pc = "leftover",
         \A n \in 1 .. N : split.inc[n].cur >= start[n]
  PROVE  split.rem = 0
<1>1. /\ split.weight \in [1 .. N -> 0 .. 100] /\ start \in [1 .. N -> 0 .. 100]
      /\ split.rem \in Nat
  <2>1. split.rem \in 0 .. 100
    BY DEF IInv, TypeOK
  <2>. QED BY <2>1, PercentIsNat DEF IInv, TypeOK
<1>2. \A n \in 1 .. N : start[n] <= split.weight[n]
  BY NAssumption DEF IInv, Progress, Fits
<1>3. SumFunction(start) <= SumFunction(split.weight) /\ SumFunction(split.weight) \in Nat
  BY <1>1, <1>2, WeightsAddUp, SumMonotone
<1>. QED BY <1>1, <1>3 DEF Whole, Healthy

\* Every step keeps to the gates.
LEMMA StepGate == SaneStrategies /\ IInv /\ Whole /\ GateInv /\ Next => GateInv'
<1> SUFFICES ASSUME SaneStrategies, IInv, Whole, GateInv, Next, Healthy'
             PROVE  /\ GainsOnlyThroughGate'
                    /\ pc' # "done" /\ split'.rem # 0 =>
                         \A n \in 1 .. N : split'.inc[n].cur >= start'[n]
  BY DEF GateInv
<1>1. Healthy
  BY HealthyBefore
<1>2. /\ \A n \in 1 .. N : split.inc[n].cur > start[n] => n \in passed
      /\ pc # "done" /\ split.rem # 0 => \A n \in 1 .. N : split.inc[n].cur >= start[n]
  BY <1>1 DEF GateInv, GainsOnlyThroughGate
<1>3. split \in Splits /\ TypeOK /\ Progress /\ Untouched
  BY DEF IInv, TypeOK, Splits
<1>4. CASE VisitNext
  <2>. DEFINE after == After(k)
              cur == start[k]
  <2>1. PICK gate \in BOOLEAN :
          /\ split' = Visit(split, k, after, gate)
          /\ passed' = IF gate THEN passed \cup {k} ELSE passed
    BY <1>4 DEF VisitNext
  <2>2. /\ k \in 1 .. N /\ k >= k /\ after \in BOOLEAN /\ start' = start
        /\ cur \in 0 .. 100 /\ split.inc[k].cur = cur
    <3>1. k \in 1 .. N /\ k >= k
      BY <1>3, <1>4, NAssumption DEF TypeOK, Progress, VisitNext
    <3>. QED BY <1>3, <1>4, <3>1 DEF TypeOK, Untouched, VisitNext, After
  <2>3. /\ split.inc[k].rev /\ cur <= Release[k].max
        /\ split.inc[k].state \in Canaries => cur <= CanaryPercent[k]
    BY <1>1, <2>2 DEF Healthy
  <2>. HIDE DEF after, cur
  <2>4. /\ split'.inc[k].cur > cur => gate
        /\ split'.inc[k].cur < cur => split'.rem = 0
    <3>1. Within(split.inc[k], k)
      BY <2>2, <2>3 DEF Within
    <3>2. ByGate(k, gate, split, split')
      BY <1>3, <2>1, <2>2, <3>1, VisitByGate
    <3>. QED BY <2>2, <3>2 DEF ByGate
  <2>5. GivesTo(k, after, split, split')
    BY <1>3, <2>1, <2>2, VisitEffect
  <2>6. /\ split.rem \in Nat /\ split'.rem \in Nat /\ split'.rem <= split.rem
        /\ split'.inc[k].cur \in Nat /\ cur \in Nat
    <3>1. /\ split.rem \in 0 .. 100 /\ split'.rem \in 0 .. 100
          /\ split'.weight[k] \in 0 .. 100 /\ split'.rem = split.rem - split'.weight[k]
          /\ split'.inc[k] \in Incarnation
      BY <1>3, <2>2, <2>5 DEF GivesTo, Splits
    <3>2. split.rem \in Nat /\ split'.rem \in Nat /\ split'.weight[k] \in Nat /\ cur \in Nat
      BY <2>2, <3>1, PercentIsNat
    <3>. QED BY <3>1, <3>2 DEF Incarnation
  <2>7. \A n \in 1 .. N : n # k => split'.inc[n] = split.inc[n]
    BY <2>5 DEF GivesTo
  <2>8. GainsOnlyThroughGate'
    <3> SUFFICES ASSUME NEW n \in 1 .. N, split'.inc[n].cur > start[n]
                 PROVE  n \in passed'
      BY <2>2 DEF GainsOnlyThroughGate
    <3>. QED BY <1>2, <2>1, <2>4, <2>7 DEF cur
  <2>9. ASSUME split'.rem # 0, NEW n \in 1 .. N
        PROVE  split'.inc[n].cur >= start[n]
    <3>1. CASE n = k
      BY <2>4, <2>6, <2>9, <3>1 DEF cur
    <3>2. CASE n # k
      BY <1>2, <1>4, <2>6, <2>7, <2>9, <3>2 DEF VisitNext
    <3>. QED BY <3>1, <3>2
  <2>. QED BY <2>2, <2>8, <2>9
<1>5. CASE GiveLeftover
  <2>1. split.rem = 0
    BY <1>1, <1>2, <1>5, NothingLeftOver DEF GiveLeftover
  <2>2. split' = split /\ start' = start /\ passed' = passed /\ pc' = "done"
    BY <1>5, <2>1 DEF GiveLeftover
  <2>. QED BY <1>2, <2>2 DEF GainsOnlyThroughGate, Healthy
<1>. QED BY <1>4, <1>5 DEF Next

\* Nobody gains past its gate, for every number of incarnations and every strategy
\* with a factor and a word that fit its steps.
THEOREM GateNeeded == SaneStrategies => (Spec => []GainsOnlyThroughGate)
<1>. SUFFICES ASSUME SaneStrategies PROVE Spec => []GainsOnlyThroughGate
  OBVIOUS
<1>1. Init => GateInv
  <2> SUFFICES ASSUME Init PROVE GateInv
    OBVIOUS
  <2>1. IInv /\ k = 1
    BY InitIInv DEF Init
  <2>. \A n \in 1 .. N : n >= k
    BY <2>1
  <2>2. \A n \in 1 .. N : split.inc[n].cur = start[n] /\ start[n] \in 0 .. 100
    BY <2>1 DEF IInv, TypeOK, Untouched
  <2>3. \A n \in 1 .. N : start[n] \in Nat /\ split.inc[n].cur = start[n]
    BY <2>2, PercentIsNat
  <2>. QED BY <2>3 DEF GateInv, GainsOnlyThroughGate
<1>2. IInv /\ Whole /\ GateInv /\ [Next]_vars => GateInv'
  <2>1. GateInv /\ UNCHANGED vars => GateInv'
    BY DEF GateInv, GainsOnlyThroughGate, Healthy, vars
  <2>. QED BY <2>1, StepGate
<1>3. GateInv => GainsOnlyThroughGate
  BY DEF GateInv, GainsOnlyThroughGate
<1>. QED BY <1>1, <1>2, <1>3, Invariance, BudgetWhole, PTL DEF Spec
=============================================================================
