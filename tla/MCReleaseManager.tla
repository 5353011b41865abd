-------------------------- MODULE MCReleaseManager --------------------------
EXTENDS ReleaseManager

\* Doubles from 50: 50, 100; the canary takes 10.
MCRelease ==
  [t \in Incarnations |-> [strategy |-> "geometric", start |-> 50, factor |-> 2,
                           increment |-> 5, max |-> 100]]

\* Doubles from 10.
SlowRelease == [t \in Incarnations |-> [MCRelease[t] EXCEPT !.start = 10]]

NoCanary == [t \in Incarnations |-> 0]
EveryCanary == [t \in Incarnations |-> 10]
=============================================================================
