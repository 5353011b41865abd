--------------------------- MODULE MCAutoscaling ---------------------------
EXTENDS Autoscaling

\* 50, 100; from a canary's 10: 60, 100.
MCRelease ==
  [t \in Incarnations |-> [strategy |-> "linear", start |-> 0, factor |-> 1,
                           increment |-> 50, max |-> 100]]
MCCanary == [t \in Incarnations |-> 10]

MCLive   == [c \in Clusters |-> TRUE]
MCFactor == [c \in Clusters |-> 100]

\* A revision with an HPA is moved to KEDA when its namespace joins the mesh.
ToAmbient == {<<"hpa", "ambient">>}
=============================================================================
