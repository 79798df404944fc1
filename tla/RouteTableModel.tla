---------------------------- MODULE RouteTableModel ----------------------------
(***************************************************************************)
(* The model behind the route table's view.  A refresh replaces all rows;  *)
(* highlights are kept by row number and must move with their routes, fade *)
(* after a while, and give way to that of a default route.  Two rows may   *)
(* have the same key: it leaves out the metric.                            *)
(*                                                                         *)
(* A row is its key.  Colours, cells and tooltips are left out, and the    *)
(* proxy that sorts and filters; a removed route has no row to light.      *)
(***************************************************************************)
EXTENDS Naturals, Sequences, SequencesExt, FiniteSetsExt

CONSTANTS RowKeys,        \* route keys: destination, mask, gateway, interface
          DefaultKeys,    \* those of default routes
          MaxRows,        \* bound on the length of the table
          Duration,       \* _HIGHLIGHT_DURATION
          MaxTime         \* bound on the clock

ASSUME RouteTableModelAssumption ==
    /\ DefaultKeys \subseteq RowKeys
    /\ MaxRows \in Nat /\ Duration \in Nat /\ MaxTime \in Nat

VARIABLES rows,         \* _routes, by key
          lookup,       \* _lookup: key -> row
          highlight,    \* _highlight: row -> kind and time
          rowTime,      \* time.time()
          \* History.
          addedAt,      \* key -> the refresh that last brought it in
          faded         \* keys whose highlight a tick has ended since

routeModelVars == <<rows, lookup, highlight, rowTime, addedAt, faded>>

RouteModelInit ==
    /\ rows = <<>>
    /\ lookup = <<>>
    /\ highlight = <<>>
    /\ rowTime = 0
    /\ addedAt = <<>>
    /\ faded = {}

Tables == UNION {[1..n -> RowKeys] : n \in 0..MaxRows}

LastRow(table, k) == Max({i \in DOMAIN table : table[i] = k})

\* The highlight of the last row of a key, for keys that had one and are still there.
KeptHighlight(k) ==
    {highlight[i] : i \in {j \in DOMAIN highlight : /\ rows[j] = k
                                                    /\ \A l \in DOMAIN highlight :
                                                          rows[l] = k => l <= j}}

\* mistake: highlights stay on their rows.
HighlightsOfByRow(table) ==
    LET new(i)  == table[i] \notin Range(rows)
        lit     == {i \in DOMAIN table : new(i) \/ i \in DOMAIN highlight
                                         \/ table[i] \in DefaultKeys}
    IN  [i \in lit |-> IF new(i) THEN [kind |-> "added", at |-> rowTime]
                       ELSE IF i \in DOMAIN highlight THEN highlight[i]
                       ELSE [kind |-> "default", at |-> rowTime]]

\* set_routes()
HighlightsOf(table) ==
    LET new(i)  == table[i] \notin Range(rows)
        kept(i) == ~new(i) /\ KeptHighlight(table[i]) # {}
        lit     == {i \in DOMAIN table : new(i) \/ kept(i) \/ table[i] \in DefaultKeys}
    IN  [i \in lit |-> IF new(i) THEN [kind |-> "added", at |-> rowTime]
                       ELSE IF kept(i) THEN CHOOSE h \in KeptHighlight(table[i]) : TRUE
                       ELSE [kind |-> "default", at |-> rowTime]]

SetRoutes(table) ==
    /\ rows' = table
    /\ lookup' = [k \in Range(table) |-> LastRow(table, k)]
    /\ highlight' = HighlightsOf(table)
    /\ addedAt' = [k \in Range(table) |-> IF k \in Range(rows) THEN addedAt[k] ELSE rowTime]
    /\ faded' = faded \cap (Range(table) \cap Range(rows))
    /\ UNCHANGED rowTime

\* _tick_fade()
TickFade ==
    LET expired == {i \in DOMAIN highlight : /\ highlight[i].kind = "added"
                                             /\ rowTime - highlight[i].at > Duration}
    IN  /\ expired # {}
        /\ highlight' = [i \in {j \in DOMAIN highlight :
                                   j \notin expired \/ rows[j] \in DefaultKeys} |->
                            IF i \in expired THEN [kind |-> "default", at |-> rowTime]
                            ELSE highlight[i]]
        /\ faded' = faded \cup {k \in Range(rows) : rowTime - addedAt[k] > Duration}
        /\ UNCHANGED <<rows, lookup, rowTime, addedAt>>

TimePasses ==
    /\ rowTime < MaxTime
    /\ rowTime' = rowTime + 1
    /\ UNCHANGED <<rows, lookup, highlight, addedAt, faded>>

RouteModelNext ==
    \/ TickFade \/ TimePasses
    \/ \E table \in Tables : SetRoutes(table)
-------------------------------------------------------------------------------
(* Properties *)

\* The lookup finds a row of the route it is asked for.
LookupFinds == /\ DOMAIN lookup = Range(rows)
               /\ \A k \in DOMAIN lookup : rows[lookup[k]] = k

\* However rows move, come and go between refreshes, a route is lit as new from
\* the refresh that brought it until it has been shown for the duration, and not
\* again after that; every other default route is lit as such, and nothing else.
HighlightsFollowRoutes ==
    /\ LookupFinds
    /\ DOMAIN highlight \subseteq DOMAIN rows
    /\ \A i \in DOMAIN rows :
        IF rows[i] \notin faded
        THEN i \in DOMAIN highlight /\ highlight[i] = [kind |-> "added", at |-> addedAt[rows[i]]]
        ELSE IF rows[i] \in DefaultKeys
        THEN i \in DOMAIN highlight /\ highlight[i].kind = "default"
        ELSE i \notin DOMAIN highlight
===============================================================================
