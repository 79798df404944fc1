------------------------------ MODULE EventTracer ------------------------------
(***************************************************************************)
(* The event tracer: notifications of Win32 threads, and four timers of    *)
(* the main thread, each of which compares a snapshot of the system with   *)
(* its last one and publishes what differs.  The parts have nothing in     *)
(* common but start() and stop(), so that each is a state machine of its   *)
(* own here: TCP connections, routes, interfaces, error counters, and      *)
(* notifications.  Snapshots are kept across stop() and start().           *)
(***************************************************************************)
EXTENDS Naturals, FiniteSets, Functions, FiniteSetsExt

CONSTANTS Conns,          \* TCP connections, as (addresses, ports, pid)
          CycleCap,       \* MAX_EVENTS_PER_CYCLE
          RouteKeys,      \* (destination, mask, family)
          RouteVals,      \* the rest of a route, ranked as they are listed
          Visible,        \* what of it is compared: gateway and metric
          BurstCap,       \* the routes of the first snapshot that are published
          Links,          \* interfaces
          CounterWord,    \* 2^32
          Kinds,          \* the six notifications, as handle and callback
          HandleKinds,    \* those whose registration is passed a place for the handle
          MaxWorldSteps   \* bound on the changes of the system

ASSUME TracerAssumption ==
    /\ CycleCap \in Nat /\ BurstCap \in Nat /\ MaxWorldSteps \in Nat
    /\ RouteVals \subseteq Nat
    /\ RouteVals \subseteq DOMAIN Visible
    /\ CounterWord \in Nat \ {0}
    /\ HandleKinds \subseteq Kinds

VARIABLES tracerOn,     \* the timers run, the notifications are registered
          worldSteps

Untouched == UNCHANGED <<tracerOn, worldSteps>>
WorldMoves == /\ worldSteps < MaxWorldSteps
              /\ worldSteps' = worldSteps + 1
              /\ UNCHANGED tracerOn
Toggle == /\ tracerOn' = ~tracerOn
          /\ UNCHANGED worldSteps
TracerInit == tracerOn = FALSE /\ worldSteps = 0
-------------------------------------------------------------------------------
(* TCP connections: _poll_tcp() *)

VARIABLES established,   \* the connections there are
          prevTcp,       \* _prev_tcp
          tcpReady,      \* _tcp_ready
          \* History.
          reports,       \* how often each was published since it was opened: 0, 1 or more
          unreported,    \* connections that were skipped: there at the first poll,
                         \* above the cap, or opened again between two polls
          tcpFailed      \* a snapshot failed, and counted as empty

tcpVars == <<tracerOn, worldSteps, established, prevTcp, tcpReady, reports,
             unreported, tcpFailed>>

TcpInit ==
    /\ TracerInit
    /\ established = {} /\ prevTcp = {} /\ tcpReady = FALSE
    /\ reports = [c \in Conns |-> 0]
    /\ unreported = {} /\ tcpFailed = FALSE

Opens(c) ==
    /\ WorldMoves /\ c \notin established
    /\ established' = established \cup {c}
    /\ reports' = [reports EXCEPT ![c] = 0]
    /\ unreported' = IF c \in prevTcp THEN unreported \cup {c} ELSE unreported \ {c}
    /\ UNCHANGED <<prevTcp, tcpReady, tcpFailed>>

Closes(c) ==
    /\ WorldMoves /\ c \in established
    /\ established' = established \ {c}
    /\ UNCHANGED <<prevTcp, tcpReady, reports, unreported, tcpFailed>>

\* Of the new connections the cap lets those of the lowest process ids through;
\* the others are in the next _prev_tcp all the same.
Published(new) == {S \in SUBSET new : Cardinality(S) = Min({CycleCap, Cardinality(new)})}

\* mistake: only what was published is remembered as seen.
PollTcpKeepsPublished(current) ==
    /\ tracerOn
    /\ tcpReady' = TRUE
    /\ \E S \in Published(IF tcpReady THEN current \ prevTcp ELSE {}) :
        /\ prevTcp' = IF tcpReady THEN S ELSE current
        /\ reports' = [c \in Conns |-> IF c \in S THEN Min({reports[c] + 1, 2}) ELSE reports[c]]
        /\ unreported' = (unreported \cup (current \ prevTcp)) \ S
    /\ Untouched
    /\ UNCHANGED established

PollTcp(current) ==
    /\ tracerOn
    /\ tcpReady' = TRUE
    /\ prevTcp' = current
    /\ \E S \in Published(IF tcpReady THEN current \ prevTcp ELSE {}) :
        /\ reports' = [c \in Conns |-> IF c \in S THEN Min({reports[c] + 1, 2}) ELSE reports[c]]
        /\ unreported' = (unreported \cup (current \ prevTcp)) \ S
    /\ Untouched
    /\ UNCHANGED established

PollTcpSucceeds == PollTcp(established) /\ UNCHANGED tcpFailed
PollTcpFails == PollTcp({}) /\ tcpFailed' = TRUE

TcpToggle == Toggle /\ UNCHANGED <<established, prevTcp, tcpReady, reports, unreported, tcpFailed>>

TcpNext ==
    \/ TcpToggle \/ PollTcpSucceeds \/ PollTcpFails
    \/ \E c \in Conns : Opens(c) \/ Closes(c)
-------------------------------------------------------------------------------
(* Routes: _poll_routes() *)

VARIABLES routeSet,      \* the system's routes, <<key, rest>>
          prevRoutes,    \* _prev_routes
          routesReady,   \* _route_scan_ready
          \* History.
          logged,        \* what a reader of the published events knows: key -> rest
          unlogged       \* keys of the first snapshot beyond the cap

routeVars == <<tracerOn, worldSteps, routeSet, prevRoutes, routesReady, logged, unlogged>>

RoutesInit ==
    /\ TracerInit
    /\ routeSet = {} /\ prevRoutes = {} /\ routesReady = FALSE
    /\ logged = <<>> /\ unlogged = {}

RouteChanges(k, v) ==
    /\ WorldMoves
    /\ routeSet' = IF <<k, v>> \in routeSet THEN routeSet \ {<<k, v>>}
                   ELSE routeSet \cup {<<k, v>>}
    /\ UNCHANGED <<prevRoutes, routesReady, logged, unlogged>>

\* The dictionary by key: of the routes of one key the last listed one.
ByKey(routes) ==
    [k \in {r[1] : r \in routes} |-> Max({r[2] : r \in {q \in routes : q[1] = k}})]

\* The first snapshot is published up to the cap, every route of it, in order.
FirstRoutes ==
    /\ tracerOn /\ ~routesReady
    /\ routesReady' = TRUE
    /\ prevRoutes' = routeSet
    /\ \E S \in SUBSET routeSet :
        /\ Cardinality(S) = Min({BurstCap, Cardinality(routeSet)})
        /\ logged' = ByKey(S)
        /\ unlogged' = {r[1] : r \in routeSet \ S}
    /\ Untouched
    /\ UNCHANGED routeSet

\* The keys an event is published for.
NewKeys(prev, curr) == DOMAIN curr \ DOMAIN prev
GoneKeys(prev, curr) == DOMAIN prev \ DOMAIN curr
\* mistake: only the keys are compared.
ChangedKeysNone(prev, curr) == {}

ChangedKeys(prev, curr) ==
    {k \in DOMAIN prev \cap DOMAIN curr : Visible[prev[k]] # Visible[curr[k]]}

PollRoutes ==
    /\ tracerOn /\ routesReady
    /\ LET prev == ByKey(prevRoutes)
           curr == ByKey(routeSet)
           told == NewKeys(prev, curr) \cup ChangedKeys(prev, curr)
           gone == GoneKeys(prev, curr)
       IN  /\ logged' = [k \in (DOMAIN logged \ gone) \cup told |->
                            IF k \in told THEN curr[k] ELSE logged[k]]
           /\ unlogged' = unlogged \ (told \cup gone)
    /\ prevRoutes' = routeSet
    /\ Untouched
    /\ UNCHANGED <<routeSet, routesReady>>

RoutesToggle == Toggle /\ UNCHANGED <<routeSet, prevRoutes, routesReady, logged, unlogged>>

RoutesNext ==
    \/ RoutesToggle \/ FirstRoutes \/ PollRoutes
    \/ \E k \in RouteKeys, v \in RouteVals : RouteChanges(k, v)
-------------------------------------------------------------------------------
(* Interfaces: _poll_interfaces() *)

VARIABLES linksUp, prevLinks, linksReady,
          loggedUp      \* history: the interfaces whose last event was "up"

linkVars == <<tracerOn, worldSteps, linksUp, prevLinks, linksReady, loggedUp>>

LinksInit ==
    /\ TracerInit
    /\ linksUp = {} /\ prevLinks = {} /\ linksReady = FALSE /\ loggedUp = {}

LinkChanges(i) ==
    /\ WorldMoves
    /\ linksUp' = IF i \in linksUp THEN linksUp \ {i} ELSE linksUp \cup {i}
    /\ UNCHANGED <<prevLinks, linksReady, loggedUp>>

UpLinks(prev, curr) == curr \ prev
DownLinks(prev, curr) == prev \ curr

PollLinks ==
    /\ tracerOn
    /\ linksReady' = TRUE
    /\ prevLinks' = linksUp
    /\ loggedUp' = IF linksReady
                   THEN (loggedUp \cup UpLinks(prevLinks, linksUp)) \ DownLinks(prevLinks, linksUp)
                   ELSE linksUp
    /\ Untouched
    /\ UNCHANGED linksUp

LinksToggle == Toggle /\ UNCHANGED <<linksUp, prevLinks, linksReady, loggedUp>>
LinksNext == LinksToggle \/ PollLinks \/ \E i \in Links : LinkChanges(i)
-------------------------------------------------------------------------------
(* Error counters: _poll_drops() *)

VARIABLES dropped,        \* what each interface really counted
          prevDrops,      \* _prev_discards: interface -> counter
          dropsReady,     \* _drop_ready
          reportedDrops   \* history: the sum of what was published

dropVars == <<tracerOn, worldSteps, dropped, prevDrops, dropsReady, reportedDrops>>

DropsInit ==
    /\ TracerInit
    /\ dropped = [i \in Links |-> 0]
    /\ prevDrops = <<>> /\ dropsReady = FALSE
    /\ reportedDrops = [i \in Links |-> 0]

Drops(i) ==
    /\ WorldMoves
    /\ dropped' = [dropped EXCEPT ![i] = @ + 1]
    /\ UNCHANGED <<prevDrops, dropsReady, reportedDrops>>

Snapshot(present) == [i \in present |-> dropped[i] % CounterWord]

\* mistake: a counter that fell is taken to have wrapped a word higher.
RiseWrapped(current, i) ==
    IF current[i] >= prevDrops[i] THEN current[i] - prevDrops[i]
    ELSE current[i] - prevDrops[i] + CounterWord + 1

\* A counter that fell, because it wrapped or was reset, is not reported.
Rise(current, i) == IF current[i] > prevDrops[i] THEN current[i] - prevDrops[i] ELSE 0

\* Some interfaces may be missing, all if the call failed.
PollDrops(present) ==
    /\ tracerOn
    /\ LET current == Snapshot(present)
           risen   == {i \in present \cap DOMAIN prevDrops : Rise(current, i) > 0}
       IN  /\ prevDrops' = current
           /\ \E S \in SUBSET risen :
               /\ Cardinality(S) = Min({CycleCap, Cardinality(risen)})
               /\ reportedDrops' = [i \in Links |-> IF dropsReady /\ i \in S
                                    THEN reportedDrops[i] + Rise(current, i)
                                    ELSE reportedDrops[i]]
    /\ dropsReady' = TRUE
    /\ Untouched
    /\ UNCHANGED dropped

DropsToggle == Toggle /\ UNCHANGED <<dropped, prevDrops, dropsReady, reportedDrops>>

DropsNext ==
    \/ DropsToggle
    \/ \E present \in SUBSET Links : PollDrops(present)
    \/ \E i \in Links : Drops(i)
-------------------------------------------------------------------------------
(* Notifications: Win32 threads flag what changed and start a timer of the *)
(* main thread, which sends the signals.  QTimer.start() on a thread that  *)
(* is not the timer's may have no effect.                                  *)

VARIABLES registered,    \* notifications Windows sends to callbacks of this start()
          handles,       \* those whose handle was received, with which they can be ended
          thunks,        \* those whose ctypes callback is still referenced
          stray,         \* notifications Windows sends to callbacks of earlier starts
          pending,       \* _pending
          debounce,      \* _debounce_timer is active
          emission,      \* _emit_network_changed(): "none", "signals" or "clears"
          \* History.
          unowned,       \* kinds that were registered without a handle
          untold,        \* a notification after the last network_changed
          startLost      \* a start() of the timer had no effect

listenerVars == <<registered, handles, thunks, stray, unowned>>
signalVars == <<pending, debounce, emission, untold, startLost>>
notifyVars == <<tracerOn, worldSteps, listenerVars, signalVars>>

NotifyInit ==
    /\ TracerInit
    /\ registered = {} /\ handles = {} /\ thunks = {} /\ stray = {} /\ unowned = {}
    /\ pending = {} /\ debounce = FALSE /\ emission = "none"
    /\ untold = FALSE /\ startLost = FALSE

\* start(): each registration may be refused.  Those of interfaces and addresses
\* never pass their handle object, that of routes passes it as the first argument,
\* where it may or may not be filled.
StartListeners ==
    /\ ~tracerOn
    /\ tracerOn' = TRUE
    /\ \E S \in SUBSET Kinds : \E H \in SUBSET (S \cap HandleKinds) :
          /\ registered' = S /\ thunks' = S /\ handles' = H
          /\ unowned' = unowned \cup (S \ H)
    /\ UNCHANGED <<worldSteps, stray, signalVars>>

\* stop(): one notification after the other is cancelled, which waits for a
\* callback in progress; with an empty handle that fails, which nobody looks at.
CancelListener(k) ==
    /\ tracerOn /\ k \in handles
    /\ handles' = handles \ {k}
    /\ registered' = registered \ {k}
    /\ Untouched
    /\ UNCHANGED <<thunks, stray, unowned, signalVars>>

\* What stop() does after it: the callbacks are dropped, whether or not Windows
\* still has them.  The debounce timer runs on.
LetGo ==
    /\ tracerOn' = FALSE
    /\ thunks' = {} /\ registered' = {}
    /\ stray' = stray \cup registered
    /\ UNCHANGED <<worldSteps, unowned, signalVars>>

\* mistake: they are dropped, and their handles, before they are cancelled.
DropCallbacksFirst ==
    /\ tracerOn
    /\ handles' = {}
    /\ LetGo

DropCallbacks ==
    /\ tracerOn /\ handles = {}
    /\ UNCHANGED handles
    /\ LetGo

\* _cb(): _flag(), then a publication to the bus.
Flag(k) ==
    /\ pending' = pending \cup {k}
    /\ untold' = TRUE
    /\ \/ debounce' = TRUE /\ UNCHANGED startLost
       \/ startLost' = TRUE /\ UNCHANGED debounce
    /\ UNCHANGED emission

Callback(k) ==
    /\ k \in registered
    /\ WorldMoves
    /\ Flag(k)
    /\ UNCHANGED listenerVars

\* Windows calls memory that Python has given back: the process ends, which is a
\* behaviour that stops here, or the old function is still there and runs.
CallsLetGo(k) ==
    /\ k \in stray
    /\ WorldMoves
    /\ Flag(k)
    /\ UNCHANGED listenerVars

DebounceFires ==
    /\ debounce /\ emission = "none"
    /\ debounce' = FALSE
    /\ emission' = "signals"
    /\ Untouched
    /\ UNCHANGED <<listenerVars, pending, untold, startLost>>

\* mistake: network_changed is only sent for flags that are set.
EmitSignalsIfPending ==
    /\ emission = "signals"
    /\ emission' = "clears"
    /\ untold' = (untold /\ pending = {})
    /\ Untouched
    /\ UNCHANGED <<listenerVars, pending, debounce, startLost>>

\* The flags choose among the other signals; network_changed is sent in any case.
EmitSignals ==
    /\ emission = "signals"
    /\ emission' = "clears"
    /\ untold' = FALSE
    /\ Untouched
    /\ UNCHANGED <<listenerVars, pending, debounce, startLost>>

\* A flag set since the signals is cleared with the rest.
EmissionClears ==
    /\ emission = "clears"
    /\ emission' = "none"
    /\ pending' = {}
    /\ Untouched
    /\ UNCHANGED <<listenerVars, debounce, untold, startLost>>

NotifyNext ==
    \/ StartListeners \/ DropCallbacks \/ DebounceFires \/ EmitSignals \/ EmissionClears
    \/ \E k \in Kinds : CancelListener(k) \/ Callback(k) \/ CallsLetGo(k)
-------------------------------------------------------------------------------
(* Properties *)

\* A connection is published at most once for each time it is opened, unless a
\* snapshot failed, after which all look new.  One that the last snapshot has and
\* that is still open was published, unless it was there at the first poll, was
\* above the cap of a cycle, or had closed and opened again between two polls.
ConnectsReportedOnce ==
    /\ ~tcpFailed => \A c \in Conns : reports[c] <= 1
    /\ \A c \in prevTcp \cap established : reports[c] >= 1 \/ c \in unreported

\* Who only reads the published route events knows gateway and metric of every
\* route the last snapshot shows under its key, and of no other, unless the
\* first snapshot had too many routes: whatever came, went, changed or was
\* hidden by another route of the same key between two polls.
RouteLogIsTrue ==
    routesReady =>
        LET prev == ByKey(prevRoutes)
        IN  \A k \in RouteKeys \ unlogged :
               /\ k \in DOMAIN prev <=> k \in DOMAIN logged
               /\ k \in DOMAIN prev => Visible[prev[k]] = Visible[logged[k]]

\* The interface events published so far say of each interface what the last
\* poll saw.
LinkLogIsTrue == linksReady => loggedUp = prevLinks

\* No drop is published twice, and none that did not happen, however counters
\* wrap and snapshots fail: what was published never exceeds what was counted.
DropsAreReal == \A i \in Links : reportedDrops[i] <= dropped[i]

\* Together: a reader of the log knows the system it tells of.
LogIsTrue == RouteLogIsTrue /\ LinkLogIsTrue /\ DropsAreReal /\ ConnectsReportedOnce

\* Windows calls no callback that Python has let go, unless it is one whose handle
\* was never received: those of interfaces and addresses it goes on calling after
\* stop().  And a change it has told of and network_changed has not yet followed is
\* followed by it, since the timer runs: unless a start of the timer from another
\* thread was lost.
NotificationsHold ==
    /\ registered \subseteq thunks
    /\ stray \subseteq unowned
    /\ untold /\ ~startLost => debounce \/ emission = "signals"
===============================================================================
