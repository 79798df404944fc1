------------------------------- MODULE RouteForm -------------------------------
(***************************************************************************)
(* The form beside the route table, RouteTableTab.  Selecting a row fills  *)
(* it; the buttons act on what it says when they are pressed.  In between  *)
(* its fields are changed by one another's signals: the prefix box writes  *)
(* the prefix field, the gateway box the gateway and the interface, leaving *)
(* a field validates and rewrites it, the family box is at once a filter   *)
(* of the table and the family of the form, and the data loaded last fills *)
(* the gateway box anew.                                                   *)
(*                                                                         *)
(* What the calls of a button do to the system, and how they fail, is      *)
(* RouteOps; here they succeed whenever the route is (not) there.  Fields  *)
(* that nothing else writes, the metric for one, are left out.             *)
(***************************************************************************)
EXTENDS Naturals, Sequences, FiniteSetsExt

CONSTANTS TabRoutes,     \* routes: [family, dest, len, gw, iface]
          TabMetric,     \* their metrics
          TabChanging,   \* those of them that other programs add and delete
          TabIfaces,     \* the interfaces, in the order they are listed
          Next4, Next6,  \* addresses of gateways
          Direct4, Direct6,  \* 0.0.0.0 and ::
          NoChoice,      \* not a route, nor a list of routes
          FirstLen,      \* what the prefix box shows at first: 24
          MaxGestures,   \* bound on what the user does
          MaxTabChanges  \* bound on the routes other programs change

Blank == ""

\* An address is of one family, and no number of an interface.
ASSUME RouteFormAssumption ==
    /\ TabMetric \in [TabRoutes -> Nat] /\ TabChanging \subseteq TabRoutes
    /\ \A r \in TabRoutes : /\ r.family \in {"v4", "v6"}
                            /\ r.gw = Direct4 => r.family = "v4"
                            /\ r.gw = Direct6 => r.family = "v6"
    /\ \A r, s \in TabRoutes : r.dest = s.dest => r.family = s.family
    /\ Direct4 \notin Next4 \cup Next6
    /\ \A n \in DOMAIN TabIfaces :
          TabIfaces[n] \notin {Blank, Direct4} \cup {r.gw : r \in TabRoutes}
    /\ MaxGestures \in Nat /\ MaxTabChanges \in Nat

VARIABLES tabSystem,     \* the routes of the system
          fetched,       \* the list a refresh has read, or none
          tabRows,       \* the rows of the table
          chosen,        \* the selected row
          currentRoute,  \* current_row_route
          familyBox,     \* "v4", "v6", "all"
          field,         \* [dest, prefix, gw, iface]; a prefix is a mask or digits
          prefixBox,     \* the length it shows
          gwBox,         \* the item it shows
          gwItems,       \* its items
          iface_checks,  \* <<family, interface>> -> whether the box is checked
          loading,       \* "begins", "read" or "loaded": the task _load_all_data()
          loadRead,      \* the routes it has read
          \* History.
          edited,        \* the user filled in a field since the selection
          left,          \* the gateway was validated since the selection
          loadedOver,    \* the data were loaded since the selection
          clicked,       \* a default box was clicked since the last refresh
          gestures, tabChanges

tabVars == <<tabSystem, fetched, tabRows, chosen, currentRoute, familyBox, field, prefixBox,
             gwBox, gwItems, iface_checks, loading, loadRead, edited, left, loadedOver, clicked,
             gestures, tabChanges>>
formVars == <<field, prefixBox, gwBox>>
rowVars == <<fetched, tabRows, chosen>>
loadVars == <<gwItems, iface_checks, loading, loadRead>>
tabHistory == <<edited, left, loadedOver, clicked, tabChanges>>

Mask(n) == [form |-> "mask", len |-> n]
Digits(n) == [form |-> "digits", len |-> n]
DirectItem == <<Direct4, Blank>>

RouteFormInit ==
    /\ tabSystem = TabRoutes
    /\ fetched = NoChoice /\ tabRows = {} /\ chosen = NoChoice /\ currentRoute = NoChoice
    /\ familyBox = "all"
    /\ field = [dest |-> Blank, prefix |-> Digits(FirstLen), gw |-> Direct4, iface |-> Blank]
    /\ prefixBox = FirstLen
    /\ gwBox = DirectItem /\ gwItems = {DirectItem}
    /\ iface_checks = <<>>
    /\ loading = "begins" /\ loadRead = {}
    /\ edited = FALSE /\ left = FALSE /\ loadedOver = FALSE /\ clicked = FALSE
    /\ gestures = 0 /\ tabChanges = 0
-------------------------------------------------------------------------------
(* The table *)

InFamily(r) == familyBox \in {r.family, "all"}

\* Of IPv4 whatever its length: 0.0.0.0/1 counts as well.
IsDefaultRow(r) == r.dest = Direct4 \/ (r.dest = Direct6 /\ r.len = 0)

\* The interface that min() finds among the default routes of a family; the
\* first of the list if two are equal.
DefaultIfaces(routes, f) ==
    LET defaults == {r \in routes : r.family = f /\ IsDefaultRow(r)}
    IN  {r.iface : r \in {d \in defaults : \A e \in defaults : TabMetric[d] <= TabMetric[e]}}

\* The refresh task, and its result (_on_refreshed); set_routes() resets the
\* model, which clears the selection without a signal.
RefreshReads ==
    /\ fetched = NoChoice
    /\ fetched' = {r \in tabSystem : InFamily(r)}
    /\ UNCHANGED <<tabSystem, tabRows, chosen, currentRoute, familyBox, formVars, loadVars,
                   tabHistory>>

\* mistake: all boxes are set by the IPv4 default.
UpdateDefaultChecksV4(routes) ==
    LET best == DefaultIfaces(routes, "v4")
    IN  iface_checks' = [c \in DOMAIN iface_checks |->
            best # {} /\ c[2] = CHOOSE i \in best : TRUE]

UpdateDefaultChecks(routes) ==
    LET best == [f \in {"v4", "v6"} |-> DefaultIfaces(routes, f)]
    IN  iface_checks' = [c \in DOMAIN iface_checks |->
            best[c[1]] # {} /\ c[2] = CHOOSE i \in best[c[1]] : TRUE]

Refreshed ==
    /\ fetched # NoChoice
    /\ fetched' = NoChoice
    /\ tabRows' = fetched
    /\ chosen' = NoChoice
    /\ UpdateDefaultChecks(fetched)
    /\ clicked' = FALSE
    /\ UNCHANGED <<tabSystem, currentRoute, familyBox, formVars, gwItems, loading, loadRead,
                   edited, left, loadedOver, tabChanges>>

LoadReads ==
    /\ loading = "begins"
    /\ loading' = "read"
    /\ loadRead' = tabSystem
    /\ UNCHANGED <<tabSystem, rowVars, currentRoute, familyBox, formVars, gwItems,
                   iface_checks, tabHistory>>

\* _rebuild_default_route_panel()
NewChecks(routes) ==
    LET shown == {<<r.family, r.iface>> : r \in {d \in routes : IsDefaultRow(d)}}
    IN  iface_checks' = [c \in shown |-> c[2] = CHOOSE i \in DefaultIfaces(routes, c[1]) : TRUE]

\* _populate_gw_combo(): clearing the box and filling it puts its first item
\* into the gateway field.
GatewayItems(routes) ==
    {DirectItem} \cup {<<r.gw, r.iface>> : r \in {d \in routes : d.gw \in Next4 \cup Next6}}

\* _on_data_loaded()
DataArrives ==
    /\ loading = "read"
    /\ loading' = "loaded"
    /\ loadRead' = {}
    /\ NewChecks(loadRead)
    /\ gwItems' = GatewayItems(loadRead)
    /\ gwBox' = DirectItem
    /\ field' = [field EXCEPT !.gw = Direct4]
    /\ tabRows' = loadRead
    /\ chosen' = NoChoice
    /\ loadedOver' = TRUE
    /\ clicked' = FALSE
    /\ UNCHANGED <<tabSystem, fetched, currentRoute, familyBox, prefixBox, edited, left,
                   tabChanges>>
-------------------------------------------------------------------------------
(* The form *)

\* mistake: the gateway is set by its box, which sets the interface as well.
FilledByBox(r) ==
    [dest |-> r.dest,
     prefix |-> IF r.family = "v6" \/ r.len # prefixBox THEN Digits(r.len) ELSE Mask(r.len),
     gw |-> r.gw,
     iface |-> IF \E i \in gwItems : i[1] = r.gw
               THEN (CHOOSE i \in gwItems : i[1] = r.gw)[2] ELSE r.iface]

\* The mask is in the field until the prefix box changes, whose signal writes
\* the length in digits.
Filled(r) ==
    [dest |-> r.dest,
     prefix |-> IF r.family = "v6" \/ r.len # prefixBox THEN Digits(r.len) ELSE Mask(r.len),
     gw |-> r.gw,
     iface |-> r.iface]

\* _on_selection_changed(): the family box follows, and with it the filter.
SelectRow(r) ==
    /\ r \in tabRows /\ InFamily(r) /\ r # chosen
    /\ chosen' = r
    /\ currentRoute' = r
    /\ familyBox' = r.family
    /\ field' = Filled(r)
    /\ prefixBox' = IF r.family = "v4" THEN r.len ELSE prefixBox
    /\ edited' = FALSE /\ left' = FALSE /\ loadedOver' = FALSE
    /\ UNCHANGED <<tabSystem, fetched, tabRows, gwBox, loadVars, clicked, tabChanges>>

\* _on_family_changed(); a selected row that is filtered out is selected no more.
PickFamily(f) ==
    /\ f # familyBox
    /\ familyBox' = f
    /\ chosen' = IF chosen # NoChoice /\ f \notin {chosen.family, "all"} THEN NoChoice ELSE chosen
    /\ UNCHANGED <<tabSystem, fetched, tabRows, currentRoute, formVars, loadVars, tabHistory>>

Edits ==
    /\ edited' = TRUE
    /\ UNCHANGED <<tabSystem, rowVars, currentRoute, familyBox, loadVars, left, loadedOver,
                   clicked, tabChanges>>

TypesPrefix(p) ==
    /\ Edits
    /\ field' = [field EXCEPT !.prefix = p]
    /\ UNCHANGED <<prefixBox, gwBox>>

TypesGateway(text) ==
    /\ Edits
    /\ field' = [field EXCEPT !.gw = text]
    /\ UNCHANGED <<prefixBox, gwBox>>

\* _on_prefix_combo_changed()
PicksPrefix(n) ==
    /\ Edits
    /\ n # prefixBox
    /\ prefixBox' = n
    /\ field' = [field EXCEPT !.prefix = Digits(n)]
    /\ UNCHANGED gwBox

\* on_gw_combo_changed(): an item of a gateway names its interface, too.
Take(f, item) ==
    IF item = DirectItem THEN [f EXCEPT !.gw = Direct4]
    ELSE [f EXCEPT !.gw = item[1], !.iface = item[2]]

PicksGateway(item) ==
    /\ Edits
    /\ item \in gwItems \ {gwBox}
    /\ gwBox' = item
    /\ field' = Take(field, item)
    /\ UNCHANGED prefixBox

\* validate_prefix(), when its field is left or a button is pressed: but for
\* IPv6, a valid prefix is rewritten in digits.
IsV6 == familyBox = "v6"
PrefixOk == IF IsV6 THEN field.prefix.form = "digits" ELSE field.prefix.len <= 32
Rewrites == ~IsV6 /\ PrefixOk
CheckedPrefix == IF Rewrites THEN Digits(field.prefix.len) ELSE field.prefix
CheckedBox == IF Rewrites THEN field.prefix.len ELSE prefixBox

\* validate_gateway(): the first item of the box with this gateway is taken, and
\* its interface with it; a number of an interface stands for its gateway.
AddressFits == field.gw \in IF IsV6 THEN Next6 \cup {Direct6} ELSE Next4 \cup {Direct4}
Offers(text) == {n \in DOMAIN TabIfaces : <<text, TabIfaces[n]>> \in gwItems}
FirstIface(text) == TabIfaces[Min(Offers(text))]
IsIface == \E n \in DOMAIN TabIfaces : TabIfaces[n] = field.gw
GatewayOk == AddressFits \/ IsIface

GatewaysListed(iface) ==
    LET gws == {r.gw : r \in {s \in tabSystem : /\ s.iface = iface /\ InFamily(s)
                                                /\ s.gw \in Next4 \cup Next6}}
    IN  IF gws = {} THEN {IF IsV6 THEN Direct6 ELSE Direct4} ELSE gws

\* The gateway and the interface after it, with the item of the box.
CheckedGateways ==
    IF AddressFits /\ Offers(field.gw) # {}
    THEN {[gw |-> field.gw, iface |-> FirstIface(field.gw),
           box |-> <<field.gw, FirstIface(field.gw)>>]}
    ELSE IF IsIface /\ ~AddressFits
    THEN {[gw |-> g, iface |-> field.gw, box |-> gwBox] : g \in GatewaysListed(field.gw)}
    ELSE {[gw |-> field.gw, iface |-> field.iface, box |-> gwBox]}

LeavesPrefix ==
    /\ field' = [field EXCEPT !.prefix = CheckedPrefix]
    /\ prefixBox' = CheckedBox
    /\ UNCHANGED <<tabSystem, rowVars, currentRoute, familyBox, gwBox, loadVars, tabHistory>>

LeavesGateway ==
    /\ \E g \in CheckedGateways :
          /\ field' = [field EXCEPT !.gw = g.gw, !.iface = g.iface]
          /\ gwBox' = g.box
    /\ left' = TRUE
    /\ UNCHANGED <<tabSystem, rowVars, currentRoute, familyBox, prefixBox, loadVars,
                   edited, loadedOver, clicked, tabChanges>>
-------------------------------------------------------------------------------
(* The buttons *)

\* The route that the texts f name to Windows with the prefix length n, or none:
\* :: is no next hop of an IPv4 destination, nor 0.0.0.0 of one of IPv6.
Named4or6(f, n) == {r \in TabRoutes : /\ r.dest = f.dest /\ r.len = n /\ r.iface = f.iface
                                      /\ IF f.gw \in {Direct4, Direct6}
                                         THEN r.gw \in {Direct4, Direct6}
                                              /\ (IsV6 <=> r.family = "v6")
                                         ELSE r.gw = f.gw}

\* What delete() would delete now.  Digits are no mask; a mask is no length of
\* IPv6, and 0 is taken for it.
WouldDelete ==
    tabSystem \cap
        IF IsV6 THEN Named4or6(field, IF field.prefix.form = "digits" THEN field.prefix.len ELSE 0)
        ELSE IF field.prefix.form = "mask" THEN Named4or6(field, field.prefix.len)
        ELSE {}

PressDelete ==
    /\ tabSystem' = tabSystem \ WouldDelete
    /\ UNCHANGED <<rowVars, currentRoute, familyBox, formVars, loadVars, tabHistory>>

\* add(), or what follows the deletion in modify(), from the routes that are
\* there: it validates, may be cancelled, and adds.  The number it hands over as
\* the prefix is a valid one for IPv6 only, or if it is 0; so is it only for IPv6
\* that add() finds a route to be replaced, and deletes it before it is cancelled.
ValidatesAndAdds(routes, replaces) ==
    IF ~PrefixOk
    THEN /\ tabSystem' = routes
         /\ UNCHANGED <<formVars, left>>
    ELSE \E g \in CheckedGateways :
         LET f == [field EXCEPT !.prefix = CheckedPrefix, !.gw = g.gw, !.iface = g.iface]
             named == Named4or6(f, f.prefix.len)
         IN  /\ field' = f
             /\ prefixBox' = CheckedBox
             /\ gwBox' = g.box
             /\ left' = TRUE
             /\ \/ tabSystem' = routes
                \/ /\ GatewayOk /\ (IsV6 \/ f.prefix.len = 0)
                   /\ tabSystem' = routes \cup named
                \/ /\ GatewayOk /\ IsV6 /\ replaces
                   /\ tabSystem' = routes \ named

PressAdd ==
    /\ ValidatesAndAdds(tabSystem, TRUE)
    /\ UNCHANGED <<rowVars, currentRoute, familyBox, loadVars, edited, loadedOver, clicked,
                   tabChanges>>

\* modify() deletes current_row_route, of an IPv6 route one of length 1.
DeletedFirst ==
    {r \in tabSystem : IF currentRoute.family = "v6" THEN r = [currentRoute EXCEPT !.len = 1]
                       ELSE r = currentRoute}

PressModify ==
    /\ currentRoute # NoChoice /\ DeletedFirst # {}
    /\ ValidatesAndAdds(tabSystem \ DeletedFirst, FALSE)
    /\ UNCHANGED <<rowVars, currentRoute, familyBox, loadVars, edited, loadedOver, clicked,
                   tabChanges>>

\* on_default_change(): all the other boxes are cleared, of both families; a
\* box that is unchecked does nothing more.
ClickDefault(c) ==
    /\ c \in DOMAIN iface_checks
    /\ iface_checks' = IF iface_checks[c] THEN [iface_checks EXCEPT ![c] = FALSE]
                       ELSE [d \in DOMAIN iface_checks |-> d = c]
    /\ clicked' = TRUE
    /\ UNCHANGED <<tabSystem, rowVars, currentRoute, familyBox, formVars, gwItems, loading, loadRead,
                   edited, left, loadedOver, tabChanges>>

OthersChangeRoute(r) ==
    /\ tabChanges < MaxTabChanges
    /\ tabChanges' = tabChanges + 1
    /\ tabSystem' = IF r \in tabSystem THEN tabSystem \ {r} ELSE tabSystem \cup {r}
    /\ UNCHANGED <<rowVars, currentRoute, familyBox, formVars, loadVars, edited, left,
                   loadedOver, clicked>>

TypedGateways == Next4 \cup Next6 \cup {TabIfaces[n] : n \in DOMAIN TabIfaces}

FormFields ==
    \/ LeavesPrefix \/ LeavesGateway
    \/ \E f \in {"v4", "v6", "all"} : PickFamily(f)
    \/ \E text \in TypedGateways : TypesGateway(text)
    \/ \E item \in gwItems : PicksGateway(item)
    \/ \E n \in {r.len : r \in TabRoutes} :
        TypesPrefix(Digits(n)) \/ TypesPrefix(Mask(n)) \/ PicksPrefix(n)

UserActs ==
    \/ PressDelete \/ PressAdd \/ PressModify
    \/ FormFields
    \/ \E r \in TabRoutes : SelectRow(r)
    \/ \E c \in DOMAIN iface_checks : ClickDefault(c)

RouteFormNext ==
    \/ gestures < MaxGestures /\ gestures' = gestures + 1 /\ UserActs
    \/ UNCHANGED gestures /\ (RefreshReads \/ Refreshed \/ LoadReads \/ DataArrives)
    \/ UNCHANGED gestures /\ \E r \in TabChanging : OthersChangeRoute(r)
-------------------------------------------------------------------------------
(* Properties *)

\* A delete after a selection deletes the selected route, or nothing, as long as
\* the user has filled in nothing: however table, filter and boxes change in
\* between.  There are three ways round it: the gateway field was left, and an
\* interface that is listed earlier has the same gateway; the family box was
\* turned to IPv6 while a mask was in the field, which then counts as length 0;
\* the first data came after the selection, and put 0.0.0.0 into the field.
DeletesSelected ==
    currentRoute # NoChoice /\ ~edited =>
        \A r \in WouldDelete :
            /\ r.family = currentRoute.family /\ r.dest = currentRoute.dest
            /\ \/ r.iface = currentRoute.iface
               \/ left /\ r.iface = FirstIface(currentRoute.gw)
            /\ \/ r.len = currentRoute.len
               \/ currentRoute.family = "v4" /\ IsV6 /\ r.len = 0
            /\ \/ r.gw = currentRoute.gw
               \/ loadedOver /\ r.gw \in {Direct4, Direct6}

\* Of the default boxes at most one of a family is checked, and after a refresh
\* it is the one of the best default route in the table: whether it was this
\* refresh, the load or the user that wrote them last.
ChecksTell ==
    /\ \A c, d \in DOMAIN iface_checks :
          iface_checks[c] /\ iface_checks[d] /\ c[1] = d[1] => c = d
    /\ ~clicked => \A c \in DOMAIN iface_checks :
          iface_checks[c] => c[2] \in DefaultIfaces(tabRows, c[1])

\* Both: what the buttons act on is what the tab shows.
FormTells == DeletesSelected /\ ChecksTell
===============================================================================
