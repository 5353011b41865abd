------------------------------ MODULE MCTarget ------------------------------
EXTENDS Target

\* The whole traffic in one increment.
MCRelease ==
  [t \in Incarnations |-> [strategy |-> "linear", start |-> 0, factor |-> 1,
                           increment |-> 100, max |-> 100]]
MCCanary == [t \in Incarnations |-> 0]

MCIngresses == {"public", "private"}
MCDomains   == [i \in MCIngresses |-> {i}]

\* A port for everybody, which also claims the namespace's private host, and one
\* for the inside only, the default of the private ingress.
Web == Port("web", 80, 443, MCIngresses, {<<"user", "host">>, <<"namespace", "private">>})
Admin == Port("admin", 81, 443, {"private"}, {})

Base ==
  [ambient |-> FALSE, hpa |-> [min |-> 0, max |-> 0], role |-> FALSE, alerts |-> TRUE,
   slos |-> TRUE, monitors |-> "plain", ports |-> {Web},
   defaults |-> ("public" :> "web" @@ "private" :> "admin"), header |-> FALSE]

\* An app joins the ambient mesh, and one leaves it.
Joins  == <<[Base EXCEPT !.role = TRUE, !.alerts = FALSE],
            [Base EXCEPT !.ambient = TRUE, !.hpa = [min |-> 3, max |-> 4], !.slos = FALSE,
                         !.ports = {Web, Admin}, !.header = TRUE]>>
Leaves == <<[Base EXCEPT !.ambient = TRUE, !.hpa = [min |-> 3, max |-> 2], !.header = TRUE,
                         !.monitors = "labelled"],
            [Base EXCEPT !.ports = {Web, Admin}, !.alerts = FALSE, !.role = TRUE,
                         !.monitors = "none"]>>
MCConfigs == {Joins, Leaves}

\* The premise of RequestsLand.
ASSUME MCPorts == PortsApart
=============================================================================
