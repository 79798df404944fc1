----------------------------- MODULE TopologyView -----------------------------
(***************************************************************************)
(* The network topology tab: build_topology() turns what the system's      *)
(* readers return into a graph, diff_graph() compares two graphs, and      *)
(* TopologyWidget keeps a scene of items that refresh() rebuilds and       *)
(* _incremental_refresh() patches.  A scene item lives in several          *)
(* containers at once (dictionary, list, animator, its end nodes), which   *)
(* the patching must keep in step.                                         *)
(*                                                                         *)
(* Rates are reduced to zero or not, as the trackers' smoothed value says;  *)
(* layout is left out, and of drawing all but colours and the pens of the  *)
(* edges.  Interfaces are numbered in the order the reader lists them.     *)
(***************************************************************************)
EXTENDS Naturals, FiniteSets, Functions

CONSTANTS Ifaces,      \* interface indexes
          IfaceName,   \* their descriptions, [Ifaces -> names]
          Gateways,    \* addresses of gateways
          OnLink,      \* next hop 0.0.0.0, - or the interface's own address
          Addresses,   \* addresses an interface may have
          NoAddress,
          Defaults,    \* default routes: [iface, gw, ipv6, metric]
          MaxNetChanges

ASSUME TopologyAssumption ==
    /\ Ifaces \subseteq Nat \ {0}
    /\ IfaceName \in [Ifaces -> STRING]
    /\ OnLink \notin Gateways
    /\ NoAddress \notin Addresses
    /\ MaxNetChanges \in Nat
    /\ \A d \in Defaults : /\ DOMAIN d = {"iface", "gw", "ipv6", "metric"}
                           /\ d.ipv6 \in BOOLEAN
                           /\ d.metric \in Nat

VARIABLES net,         \* what the readers of the system would return
          netChanges,  \* how often it has changed
          graph,       \* _prev_graph and _graph, which are one object
          items,       \* _node_items: the colour of each, and the label it was made with
          edgeItems,   \* _edge_item_map: the pen of each
          listed,      \* keys of _edge_items, and of the edges in the scene
          animated,    \* keys registered with the animator
          connected,   \* _connected_edges of each node item
          timersOn,    \* _refresh_timer and _stats_timer
          seen         \* history: what the last refresh did with the present net: "nothing",
                       \* "past" (it has changed since), "structure" (patched it in),
                       \* "labels" (patched, with labels that were right), "all" (drew it)

topologyVars == <<net, netChanges, graph, items, edgeItems, listed, animated,
                  connected, timersOn, seen>>
sceneVars == <<graph, items, edgeItems, listed, animated, connected>>

Localhost == <<"localhost", 0>>
IfaceId(i) == <<"iface", i>>
GatewayId(g) == <<"gw", g>>
Internet == <<"internet", 0>>

NoGraph == [nodes |-> <<>>, edges |-> <<>>]
-------------------------------------------------------------------------------
(* build_topology() *)

\* Of the interfaces of one name the first is kept.
ShownIfaces(n) == {i \in n.present : \A j \in n.present : IfaceName[j] = IfaceName[i] => i <= j}

GatewaysOf(n, i) == n.gateways[i] \ {OnLink}

\* The IPv4 default route of least metric, or else the IPv6 one; the first of equals.
BestDefault(n) ==
    LET v4   == {d \in n.defaults : ~d.ipv6}
        pool == IF v4 # {} THEN v4 ELSE n.defaults
        best == {d \in pool : \A e \in pool : d.metric <= e.metric}
    IN  IF best = {} THEN {} ELSE {CHOOSE d \in best : TRUE}

IsDefaultIface(n, i) == \E d \in BestDefault(n) : d.iface = i

IfaceStatus(n, i) == IF ~n.up[i] THEN "down"
                     ELSE IF n.address[i] = NoAddress THEN "degraded" ELSE "up"

IfaceNode(n, i) == [status  |-> IfaceStatus(n, i),
                    default |-> IsDefaultIface(n, i),
                    busy    |-> FALSE,
                    label   |-> n.address[i]]

\* A gateway of several interfaces belongs to the first of them.
GatewayNode(n, g) ==
    LET owners == {i \in ShownIfaces(n) : g \in GatewaysOf(n, i)}
        first  == CHOOSE i \in owners : \A j \in owners : i <= j
    IN  [status |-> "up", default |-> IsDefaultIface(n, first), busy |-> FALSE,
         label |-> g]

FixedNode(status) == [status |-> status, default |-> FALSE, busy |-> FALSE,
                      label |-> NoAddress]

\* The gateways through which Internet is drawn.
ExitEdges(n) ==
    {<<GatewayId(d.gw), Internet>> :
        d \in {e \in BestDefault(n) : /\ e.iface \in ShownIfaces(n)
                                       /\ e.gw \in GatewaysOf(n, e.iface)}}

IfaceEdges(n) == {<<Localhost, IfaceId(i)>> : i \in ShownIfaces(n)}

GatewayEdges(n) ==
    UNION {{<<IfaceId(i), GatewayId(g)>> : g \in GatewaysOf(n, i)} : i \in ShownIfaces(n)}

BuildNodes(n) ==
    LET ids == {Localhost} \cup {IfaceId(i) : i \in ShownIfaces(n)}
               \cup {e[2] : e \in GatewayEdges(n)} \cup {e[2] : e \in ExitEdges(n)}
    IN  [id \in ids |-> CASE id[1] = "iface" -> IfaceNode(n, id[2])
                          [] id[1] = "gw" -> GatewayNode(n, id[2])
                          [] id = Internet -> FixedNode("unknown")
                          [] OTHER -> FixedNode("up")]

\* An edge takes status and default flag of the interface it belongs to.
EdgeOf(n, i) == [status |-> IfaceStatus(n, i), default |-> IsDefaultIface(n, i),
                 busy |-> FALSE]

BuildEdges(n) ==
    [e \in IfaceEdges(n) \cup GatewayEdges(n) \cup ExitEdges(n) |->
        IF e[2] = Internet THEN [status |-> "up", default |-> TRUE, busy |-> FALSE]
        ELSE IF e[1] = Localhost THEN EdgeOf(n, e[2][2]) ELSE EdgeOf(n, e[1][2])]

Build(n) == [nodes |-> BuildNodes(n), edges |-> BuildEdges(n)]
-------------------------------------------------------------------------------
(* diff_graph() *)

\* What the diff compares: address, gateway, label and metric are not in it.
Differs(a, b) == a.status # b.status \/ a.default # b.default \/ a.busy # b.busy

Added(old, new) == DOMAIN new \ DOMAIN old
Changed(old, new) == {k \in DOMAIN old \cap DOMAIN new : Differs(old[k], new[k])}

\* mistake: the edges are compared by their number.
SameGraphByCount(old, new) ==
    /\ Added(old.nodes, new.nodes) = {} /\ Added(new.nodes, old.nodes) = {}
    /\ Cardinality(DOMAIN old.edges) = Cardinality(DOMAIN new.edges)
    /\ Changed(old.nodes, new.nodes) = {} /\ Changed(old.edges, new.edges) = {}

SameGraph(old, new) ==
    /\ Added(old.nodes, new.nodes) = {} /\ Added(new.nodes, old.nodes) = {}
    /\ Added(old.edges, new.edges) = {} /\ Added(new.edges, old.edges) = {}
    /\ Changed(old.nodes, new.nodes) = {} /\ Changed(old.edges, new.edges) = {}

-------------------------------------------------------------------------------
(* TopologyWidget *)

\* The mark of the default route hides the status.
Colour(x) == IF x.default THEN "default" ELSE x.status

\* A node is drawn anew as a whole, with a pen that goes by its default flag too.
NewItem(node) == [colour |-> Colour(node), label |-> node.label]

\* The pen of an edge item when it is made: wide, and dashed.
DrawnEdge(edge) == [colour |-> Colour(edge),
                    wide   |-> edge.default,
                    dashed |-> edge.status = "down"]

\* mistake: a patch changes the colour only.
PatchedEdgeColour(pen, edge) == [pen EXCEPT !.colour = Colour(edge)]

\* update_edge_data(): a default edge is drawn solid even if it is down, and the
\* width of one that no longer is the default is left to the next painting.
PatchedEdge(pen, edge) == [colour |-> Colour(edge),
                           wide   |-> pen.wide \/ edge.default,
                           dashed |-> ~edge.default /\ edge.status = "down"]

\* The ends whose items exist: an edge without them gets no item.
Drawable(edges, nodeIds) == {e \in edges : e[1] \in nodeIds /\ e[2] \in nodeIds}

\* _update_live_stats(): rates of the interfaces, and of the edges that leave them.
WithTraffic(g) ==
    [nodes |-> [id \in DOMAIN g.nodes |->
                   [g.nodes[id] EXCEPT !.busy = id[1] = "iface" /\ id[2] \in net.busy]],
     edges |-> [e \in DOMAIN g.edges |->
                   [g.edges[e] EXCEPT !.busy = /\ e \in DOMAIN edgeItems'
                                              /\ e[1][1] = "iface" /\ e[1][2] \in net.busy]]]

\* _apply_graph(): clears the scene and draws the graph.
ApplyGraph(new) ==
    LET ids  == DOMAIN new.nodes
        keys == Drawable(DOMAIN new.edges, ids)
    IN  /\ graph' = new
        /\ items' = [id \in ids |-> NewItem(new.nodes[id])]
        /\ edgeItems' = [e \in keys |-> DrawnEdge(new.edges[e])]
        /\ listed' = keys
        /\ animated' = keys
        /\ connected' = [id \in ids |-> {e \in keys : id \in {e[1], e[2]}}]

\* Edge items that go with a removed node.  They leave list, scene and animator
\* here; the map is asked for a pair while its keys are strings, so they stay in
\* it until they are removed as edges.
EdgesOfRemoved(new) ==
    UNION {connected[id] : id \in Added(new.nodes, graph.nodes) \cap DOMAIN items}

\* mistake: edges of removed nodes are taken to be gone already.
RemovedEdgesButOfNodes(new) ==
    (Added(new.edges, graph.edges) \cap DOMAIN edgeItems) \ EdgesOfRemoved(new)

\* Edge items that the removed edges of the diff take away.
RemovedEdges(new) == Added(new.edges, graph.edges) \cap DOMAIN edgeItems

\* _apply_diff(): removes, adds and repaints.  What an end node that stays
\* keeps in _connected_edges is not cleaned up.
ApplyDiff(new) ==
    LET kept     == DOMAIN items \ Added(new.nodes, graph.nodes)
        addedIds == Added(graph.nodes, new.nodes)
        ids      == kept \cup addedIds
        gone     == EdgesOfRemoved(new) \cup RemovedEdges(new)
        newKeys  == Drawable(Added(graph.edges, new.edges), ids)
        keys     == (DOMAIN edgeItems \ RemovedEdges(new)) \cup newKeys
        repaint  == Changed(graph.nodes, new.nodes)
        recolour == Changed(graph.edges, new.edges)
    IN  /\ items' = [id \in ids |->
                        IF id \in addedIds THEN NewItem(new.nodes[id])
                        ELSE IF id \in repaint
                        THEN [items[id] EXCEPT !.colour = Colour(new.nodes[id])]
                        ELSE items[id]]
        /\ edgeItems' = [e \in keys |->
                            IF e \in newKeys THEN DrawnEdge(new.edges[e])
                            ELSE IF e \in recolour THEN PatchedEdge(edgeItems[e], new.edges[e])
                            ELSE edgeItems[e]]
        /\ listed' = (listed \ gone) \cup newKeys
        /\ animated' = (animated \ gone) \cup newKeys
        /\ connected' = [id \in ids |->
                            (IF id \in addedIds THEN {} ELSE connected[id])
                            \cup {e \in newKeys : id \in {e[1], e[2]}}]
        /\ graph' = WithTraffic(new)

TopologyInit ==
    /\ net = [present |-> Ifaces, up |-> [i \in Ifaces |-> TRUE],
              address |-> [i \in Ifaces |-> CHOOSE a \in Addresses : TRUE],
              gateways |-> [i \in Ifaces |-> {}], defaults |-> {}, busy |-> {}]
    /\ netChanges = 0
    /\ graph = NoGraph
    /\ items = <<>> /\ edgeItems = <<>> /\ listed = {} /\ animated = {}
    /\ connected = <<>>
    /\ timersOn = FALSE
    /\ seen = "nothing"

\* refresh(): the button, start(), and every refresh of the routes.  A reader
\* that raises leaves the scene as it was.
Refresh ==
    /\ ApplyGraph(Build(net))
    /\ seen' = "all"
    /\ UNCHANGED <<net, netChanges, timersOn>>

StartTopology ==
    /\ ~timersOn
    /\ \/ ApplyGraph(Build(net)) /\ seen' = "all"
       \/ UNCHANGED <<sceneVars, seen>>
    /\ timersOn' = TRUE
    /\ UNCHANGED <<net, netChanges>>

\* stop(), from closeEvent.
StopTopology ==
    /\ timersOn
    /\ timersOn' = FALSE
    /\ UNCHANGED <<net, netChanges, sceneVars, seen>>

\* _incremental_refresh(), every five seconds.
FirstGraph ==
    /\ timersOn /\ graph = NoGraph
    /\ Refresh

SeenByPatch == IF seen \in {"labels", "all"} THEN "labels" ELSE "structure"

NothingDiffers ==
    /\ timersOn /\ graph # NoGraph /\ SameGraph(graph, Build(net))
    /\ seen' = IF seen = "all" THEN "all" ELSE SeenByPatch
    /\ UNCHANGED <<net, netChanges, sceneVars, timersOn>>

PatchScene ==
    /\ timersOn /\ graph # NoGraph /\ ~SameGraph(graph, Build(net))
    /\ ApplyDiff(Build(net))
    /\ seen' = SeenByPatch
    /\ UNCHANGED <<net, netChanges, timersOn>>

\* _update_stats(), every second: rates of the graph on the screen.
UpdateStats ==
    /\ timersOn /\ graph # NoGraph
    /\ UNCHANGED <<items, edgeItems, listed, animated, connected>>
    /\ graph' = WithTraffic(graph)
    /\ UNCHANGED <<net, netChanges, timersOn, seen>>

\* paint() of an edge item: one that is not the default takes its width from the
\* traffic.
PaintEdge(e) ==
    /\ e \in animated \cap DOMAIN edgeItems
    /\ edgeItems[e].colour # "default"
    /\ edgeItems' = [edgeItems EXCEPT ![e].wide = FALSE]
    /\ UNCHANGED <<net, netChanges, graph, items, listed, animated, connected, timersOn, seen>>

\* The network changes: an adapter, its state, address, gateways or load, or
\* the default routes.
NetChanges ==
    /\ netChanges < MaxNetChanges
    /\ netChanges' = netChanges + 1
    /\ \/ \E i \in Ifaces :
           \/ net' = [net EXCEPT !.present = IF i \in @ THEN @ \ {i} ELSE @ \cup {i}]
           \/ net' = [net EXCEPT !.up[i] = ~@]
           \/ \E a \in Addresses \cup {NoAddress} : net' = [net EXCEPT !.address[i] = a]
           \/ \E g \in Gateways \cup {OnLink} :
                 net' = [net EXCEPT !.gateways[i] = IF g \in @ THEN @ \ {g} ELSE @ \cup {g}]
           \/ net' = [net EXCEPT !.busy = IF i \in @ THEN @ \ {i} ELSE @ \cup {i}]
       \/ \E d \in Defaults :
            net' = [net EXCEPT !.defaults = IF d \in @ THEN @ \ {d} ELSE @ \cup {d}]
    /\ seen' = IF seen = "nothing" \/ net' = net THEN seen ELSE "past"
    /\ UNCHANGED <<sceneVars, timersOn>>

TopologyNext ==
    \/ Refresh \/ StartTopology \/ StopTopology
    \/ FirstGraph \/ NothingDiffers \/ PatchScene \/ UpdateStats
    \/ NetChanges
    \/ \E e \in animated : PaintEdge(e)
-------------------------------------------------------------------------------
(* Properties *)

\* All containers of the scene hold the same edges, those of the graph, and the
\* node items are the graph's nodes: whatever the sequence of full and patched
\* refreshes, no particle system, list entry or map entry is left over or
\* missing.  An item knows at least the edges that end at it (it is moved with
\* them), so that removing it takes them all along.
SceneMatchesGraph ==
    /\ DOMAIN items = DOMAIN graph.nodes
    /\ DOMAIN edgeItems = DOMAIN graph.edges
    /\ listed = DOMAIN edgeItems
    /\ animated = DOMAIN edgeItems
    /\ \A e \in DOMAIN edgeItems : e \in connected[e[1]] /\ e \in connected[e[2]]

\* What a pen tells of its edge.  Of a default edge that is down it may tell that it
\* is down or not; and an edge that no longer is the default may still be wide.
Tells(pen, edge) ==
    /\ pen.colour = Colour(edge)
    /\ edge.default => pen.wide
    /\ pen.dashed => edge.status = "down"
    /\ edge.status = "down" => pen.dashed \/ edge.default

\* After any refresh the scene has the items of the network as it was read, and they
\* tell of it, although a patch touches only what the diff names and changes a pen
\* otherwise than the item was drawn.  After a full refresh(), and until the next
\* patch, each pen is as it is drawn; and the labels are right until the network
\* changes.  (A patch never updates a label: _sub_label keeps the address an item
\* was made with, until the next refresh() of the whole scene.)
ShowsNetwork ==
    LET now == Build(net)
    IN  /\ seen \in {"structure", "labels", "all"} =>
              /\ DOMAIN items = DOMAIN now.nodes /\ DOMAIN edgeItems = DOMAIN now.edges
              /\ \A id \in DOMAIN items : items[id].colour = Colour(now.nodes[id])
              /\ \A e \in DOMAIN edgeItems : Tells(edgeItems[e], now.edges[e])
        /\ seen = "all" =>
              \A e \in DOMAIN edgeItems : edgeItems[e] = DrawnEdge(now.edges[e])
        /\ seen \in {"labels", "all"} =>
              \A id \in DOMAIN items : items[id].label = now.nodes[id].label
===============================================================================
