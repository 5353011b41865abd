----------------------------- MODULE MCTraffic -----------------------------
(***************************************************************************)
(* Three releasable incarnations: the newest doubles from 50, the second   *)
(* adds 30 at a time, the third doubles from 10; canaries take 10.         *)
(***************************************************************************)
EXTENDS Traffic

MCRelease ==
  <<[strategy |-> "geometric", start |-> 50, factor |-> 2, increment |-> 5, max |-> 100],
    [strategy |-> "linear", start |-> 10, factor |-> 2, increment |-> 30, max |-> 100],
    [strategy |-> "geometric", start |-> 10, factor |-> 2, increment |-> 5, max |-> 80]>>

MCCanaryPercent == <<10, 10, 10>>
=============================================================================
