-------------------------------- MODULE MCParts --------------------------------
(***************************************************************************)
(* The parts of the program that have no state in common with the route    *)
(* change pipeline or with one another, checked side by side: a behaviour  *)
(* is one of one part, while the others rest in their initial states.      *)
(***************************************************************************)
EXTENDS TopologyView, PacketInterceptor, EventTracer, RouteTableModel, NetDiag,
        WfpManager, TunForwarder, EtwTracer, StatusMonitor, RouteForm

VARIABLE part     \* whose behaviour this is

Parts == {"topology", "packets", "tcp", "routes", "links", "drops", "notifications",
          "table", "diagnosis", "firewall", "tun", "capture", "etw",
          "map", "rates", "pings", "form"}

tcpOnly      == <<established, prevTcp, tcpReady, reports, unreported, tcpFailed>>
routesOnly   == <<routeSet, prevRoutes, routesReady, logged, unlogged>>
linksOnly    == <<linksUp, prevLinks, linksReady, loggedUp>>
dropsOnly    == <<dropped, prevDrops, dropsReady, reportedDrops>>
notifyOnly   == <<listenerVars, signalVars>>

TunParts == {"tun", "capture"}
StatusParts == {"map", "rates", "pings"}
TracerParts == {"tcp", "routes", "links", "drops", "notifications"}

Rests(p, vars) == IF part = p THEN TRUE ELSE UNCHANGED vars

OthersRest ==
    /\ UNCHANGED part
    /\ Rests("topology", topologyVars) /\ Rests("packets", interceptorVars)
    /\ Rests("table", routeModelVars) /\ Rests("diagnosis", diagVars)
    /\ Rests("tcp", tcpOnly) /\ Rests("routes", routesOnly) /\ Rests("links", linksOnly)
    /\ Rests("drops", dropsOnly) /\ Rests("notifications", notifyOnly)
    /\ Rests("firewall", wfpVars) /\ Rests("etw", etwVars)
    /\ Rests("form", tabVars)
    /\ IF part \in TunParts THEN TRUE ELSE UNCHANGED tunVars
    /\ IF part \in StatusParts THEN TRUE ELSE UNCHANGED statusVars
    /\ IF part \in TracerParts THEN TRUE ELSE UNCHANGED <<tracerOn, worldSteps>>

Init ==
    /\ part \in Parts
    /\ TopologyInit /\ InterceptorInit /\ RouteModelInit /\ DiagInit
    /\ TcpInit /\ RoutesInit /\ LinksInit /\ DropsInit /\ NotifyInit
    /\ WfpInit /\ TunInit /\ EtwInit /\ StatusInit /\ RouteFormInit
    /\ part \notin StatusParts => route = NoPath

Next ==
    /\ \/ part = "topology" /\ TopologyNext
       \/ part = "packets" /\ InterceptorNext
       \/ part = "table" /\ RouteModelNext
       \/ part = "diagnosis" /\ DiagNext
       \/ part = "tcp" /\ TcpNext
       \/ part = "routes" /\ RoutesNext
       \/ part = "links" /\ LinksNext
       \/ part = "drops" /\ DropsNext
       \/ part = "notifications" /\ NotifyNext
       \/ part = "firewall" /\ WfpNext
       \/ part = "tun" /\ TunRoutesNext
       \/ part = "capture" /\ TunThreadNext
       \/ part = "etw" /\ EtwNext
       \/ part = "map" /\ MapNext
       \/ part = "rates" /\ RatesNext
       \/ part = "pings" /\ PingsNext
       \/ part = "form" /\ RouteFormNext
    /\ OthersRest

partsVars == <<part, topologyVars, interceptorVars, routeModelVars, diagVars,
               tracerOn, worldSteps, tcpOnly, routesOnly, linksOnly, dropsOnly, notifyOnly,
               wfpVars, tunVars, etwVars, statusVars, tabVars>>

Spec == Init /\ [][Next]_partsVars

\* Interfaces of different names; default routes of one gateway through both,
\* with the better metric on the second, and one of the other family.
MCIfaceNames == [i \in Ifaces |-> IF i = 1 THEN "a" ELSE "b"]
MCDefaults == {[iface |-> 1, gw |-> "g1", ipv6 |-> FALSE, metric |-> 2],
               [iface |-> 2, gw |-> "g1", ipv6 |-> FALSE, metric |-> 1],
               [iface |-> 2, gw |-> "g6", ipv6 |-> TRUE, metric |-> 1]}
\* Three routes of one key, two of which are the same to the comparison.
MCVisible == [v \in 1..3 |-> IF v = 3 THEN "other" ELSE "same"]

\* The foreign rule has a display name that a rule of this program may have.
MCRuleNames == [f \in Foreign |-> "n1"]

\* The routes of the form: the gateway g1 through both interfaces; two routes of
\* one destination that differ in the length or the gateway only; one of IPv6.
TabRoute(f, d, l, g, i) == [family |-> f, dest |-> d, len |-> l, gw |-> g, iface |-> i]
MCTabMetric ==
    (TabRoute("v4", "0.0.0.0", 0, "g1", "1") :> 2) @@
    (TabRoute("v4", "0.0.0.0", 0, "g1", "2") :> 1) @@
    (TabRoute("v4", "0.0.0.0", 1, "g1", "1") :> 3) @@
    (TabRoute("v4", "0.0.0.0", 0, "0.0.0.0", "1") :> 3) @@
    (TabRoute("v6", "::", 0, "g6", "2") :> 1)
MCTabRoutes == DOMAIN MCTabMetric
MCTabChanging == {TabRoute("v4", "0.0.0.0", 0, "g1", "2")}
MCTabIfaces == <<"1", "2">>

===============================================================================
