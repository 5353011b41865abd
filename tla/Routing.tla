------------------------------ MODULE Routing ------------------------------
(***************************************************************************)
(* The VirtualService SyncApp builds (controllers/plan/syncApp.go) and     *)
(* what it does to a request.                                              *)
(*                                                                         *)
(* An app is [ports, defaults, weights, tagged]: the ports, the port that  *)
(* is the default of each ingress, the weight of each deployed tag, and    *)
(* the tags that have a TagRoutingHeader.  A route carries its class, the  *)
(* prefix of its name by which the routes are sorted.                      *)
(***************************************************************************)
EXTENDS Integers, FiniteSets

CONSTANTS
  Ingresses,   \* "public", "private": the ingress gateways of the cluster
  Domains,     \* ingress -> the cluster's default domains
  BaseHost,    \* a target that is its fleet is reached as "app", one named for
               \* its fleet as "base", any other under its namespace only: "none"
  DevRoutesEnabled  \* the cluster and picchu are configured for developer routes

ASSUME RoutingAssumption ==
  /\ DevRoutesEnabled \in BOOLEAN /\ BaseHost \in {"app", "base", "none"}
  /\ DOMAIN Domains = Ingresses /\ "mesh" \notin Ingresses

Port(name, number, ingressPort, ingresses, hosts) ==
  [name |-> name, number |-> number, ingressPort |-> ingressPort,
   ingresses |-> ingresses, hosts |-> hosts]

ServiceHost == <<"service", "local">>

DefaultHosts(ingress) ==
  {<<name, d>> : name \in {"namespace", BaseHost} \ {"none"}, d \in Domains[ingress]}

IsUserDefined(app, host) == \E p \in app.ports : host \in p.hosts

\* Mutant: a default host is given out although a port claims it.
IngressHostsUnchecked(app, p, ingress) ==
  p.hosts \cup (IF app.defaults[ingress] = p.name THEN DefaultHosts(ingress) ELSE {})

\* The default hosts of an ingress go to its default port, unless a port claims them.
IngressHosts(app, p, ingress) ==
  p.hosts \cup
  {h \in DefaultHosts(ingress) : app.defaults[ingress] = p.name /\ ~IsUserDefined(app, h)}

\* portHeaderMatches: the mesh reaches the port itself; the ingress gateways by
\* host, those of a TLS port also without TLS.
PortMatches(app, p) ==
  {[gateway |-> "mesh", port |-> p.number, hosts |-> {ServiceHost}]} \cup
  {[gateway |-> i, port |-> n, hosts |-> IngressHosts(app, p, i)] :
     i \in {x \in p.ingresses : IngressHosts(app, p, x) # {}},
     n \in IF p.ingressPort = 443 THEN {443, 80} ELSE {p.ingressPort}}

\* makeRoute; to: the tags and their weights.
Route(class, header, app, p, to) ==
  [class |-> class, header |-> header, matches |-> PortMatches(app, p),
   port |-> p.number, to |-> to]

AnyHeader == 0

Weighted(app) == {t \in DOMAIN app.weights : app.weights[t] > 0}

ReleaseRoutes(app) ==
  {Route(2, AnyHeader, app, p, [t \in Weighted(app) |-> app.weights[t]]) :
     p \in IF Weighted(app) = {} THEN {} ELSE app.ports}

TaggedRoutes(app) ==
  {Route(1, t, app, p, [u \in {t} |-> 100]) : t \in app.tagged, p \in app.ports}

\* A developer's header leads to the developer routes' service from every gateway.
DevHeader == -1
DevRoute  == [class |-> 0, header |-> DevHeader, matches |-> {}, port |-> 0,
              to |-> [t \in {} |-> 0]]

DevRoutes == IF DevRoutesEnabled THEN {DevRoute} ELSE {}

Routes(app) == DevRoutes \cup TaggedRoutes(app) \cup ReleaseRoutes(app)

\* The VirtualService is not written without a host; the developer route brings none.
HasRoutes(app) == TaggedRoutes(app) \cup ReleaseRoutes(app) # {}

(***************************************************************************)
(* What a request meets.  request: its gateway, port and host, and its     *)
(* header: the tag it names, a developer's, or none that matters.          *)
(***************************************************************************)
Matching(routes, request) ==
  {r \in routes :
     /\ r.header \in {AnyHeader, request.header}
     /\ r = DevRoute \/ \E m \in r.matches : /\ m.gateway = request.gateway
                                              /\ m.port = request.port
                                              /\ request.host \in m.hosts}

\* The routes that may take it: the first class that matches, in name order.
Taking(routes, request) ==
  LET matching == Matching(routes, request)
  IN  {r \in matching : \A s \in matching : r.class <= s.class}

Requests(tags, ports) ==
  [gateway : {"mesh"}, port : {p.number : p \in ports}, host : {ServiceHost},
   header : tags \cup {AnyHeader, DevHeader}] \cup
  [gateway : Ingresses, port : {80, 443},
   host : UNION ({DefaultHosts(i) : i \in Ingresses} \cup {p.hosts : p \in ports}),
   header : tags \cup {AnyHeader, DevHeader}]
=============================================================================
