----------------------------- MODULE TunForwarder -----------------------------
(***************************************************************************)
(* The TUN route capture: start_forwarding() makes a virtual adapter and a *)
(* session on it, adds routes that lead all traffic into it, and starts a  *)
(* thread that reads packets; stop() undoes it in the opposite order.      *)
(* Each of the steps may fail, other programs change the route table, and  *)
(* the reading thread may be too slow for stop().                          *)
(*                                                                         *)
(* The main thread is at one place of start_forwarding() or stop(); the    *)
(* thread is between the native calls of read_packet(), each of which      *)
(* reads self._session again.  write_packet() has no caller.               *)
(***************************************************************************)
EXTENDS Naturals, Sequences, SequencesExt

CONSTANTS MaxLoops,       \* bound on the captures that are started
          MaxSessions,    \* bound on the sessions that are opened
          MaxAdapters,    \* bound on the adapters that are made
          MaxOthers       \* bound on the route changes of other programs

ASSUME TunAssumption ==
    /\ MaxLoops \in Nat /\ MaxSessions \in Nat
    /\ MaxAdapters \in Nat /\ MaxOthers \in Nat

VARIABLES tunRoutes,   \* the routes below that are in the system's table
          saved,       \* _saved_routes
          toAdd,       \* routes start_forwarding() has still to add
          adapter,     \* _adapter: a number, or none
          adapters,    \* how many were made
          installed,     \* those of them that Windows has
          session,     \* _session: a number, or none
          sessions,    \* how many were opened
          forwarding,  \* _running
          main,        \* where the main thread is
          loop, stopSet, started,          \* the DedicatedTask
          reader,      \* where each thread is in read_packet(), and with which packet
          \* History.
          others,      \* what the table would be if this program had not run
          otherSteps,
          byNetsh,     \* default routes that netsh made with the address of an adapter
          readded,     \* another program added a route that is saved here
          undeleted,   \* a route this program failed to delete
          tooSlow,     \* a join timed out
          misused      \* a native call was made on no session or on a wrong one

NoSession == 0
Loops == 1..MaxLoops
Capture == INSTANCE DedicatedTask

\* The routes: the exceptions for the physical interface, and the default by way
\* of an adapter.
NoAdapter == 0
Adapters == 1..MaxAdapters
Exceptions == {<<"subnet", NoAdapter>>, <<"gateway", NoAdapter>>}
DefaultBy(k) == <<"default", k>>

tunVars == <<tunRoutes, saved, toAdd, adapter, adapters, installed, session, sessions,
             forwarding, main, loop, stopSet, started, reader, others, otherSteps, byNetsh,
             readded, undeleted, tooSlow, misused>>
tableVars == <<tunRoutes, saved, others, otherSteps, byNetsh, readded, undeleted>>
deviceVars == <<adapter, adapters, installed, session, sessions>>
captureVars == <<loop, stopSet, started, reader, tooSlow, misused>>

OffLine == [at |-> "idle", packet |-> NoSession]

TunInit ==
    /\ tunRoutes = {} /\ others = {} /\ byNetsh = {}
    /\ saved = <<>> /\ toAdd = <<>>
    /\ adapter = NoAdapter /\ adapters = 0 /\ installed = {}
    /\ session = NoSession /\ sessions = 0
    /\ forwarding = FALSE
    /\ main = "idle"
    /\ Capture!LoopInit
    /\ reader = [l \in Loops |-> OffLine]
    /\ otherSteps = 0 /\ readded = FALSE /\ undeleted = FALSE
    /\ tooSlow = FALSE /\ misused = FALSE
-------------------------------------------------------------------------------
(* start_forwarding() *)

\* create_adapter(), unless there is one of a start that failed.
CreateAdapter ==
    /\ main = "idle" /\ ~forwarding
    /\ started < MaxLoops
    /\ \/ adapter # NoAdapter /\ UNCHANGED <<adapter, adapters, installed>>
       \/ /\ adapter = NoAdapter /\ adapters < MaxAdapters
          /\ adapters' = adapters + 1
          /\ adapter' = adapters'
          /\ installed' = installed \cup {adapter'}
    /\ main' = "session"
    /\ UNCHANGED <<tableVars, toAdd, session, sessions, forwarding, captureVars>>

\* open_session(), likewise; or it fails and leaves the adapter.
OpenSession ==
    /\ main = "session"
    /\ session # NoSession \/ sessions < MaxSessions
    /\ sessions' = IF session = NoSession THEN sessions + 1 ELSE sessions
    /\ session' = IF session = NoSession THEN sessions + 1 ELSE session
    /\ main' = "index"
    /\ UNCHANGED <<tableVars, toAdd, adapter, adapters, installed, forwarding, captureVars>>

OpenSessionFails ==
    /\ main = "session" /\ session = NoSession
    /\ main' = "idle"
    /\ UNCHANGED <<tableVars, toAdd, deviceVars, forwarding, captureVars>>

\* The index of the adapter is not found: adapter and session stay.
IndexNotFound ==
    /\ main = "index"
    /\ main' = "idle"
    /\ UNCHANGED <<tableVars, toAdd, deviceVars, forwarding, captureVars>>

\* The address is set, or is not: nobody looks.  netsh is given the gateway too, so
\* that it makes the default route that is to be added below.  The egress interface
\* has an address and a gateway, or lacks one.
SetAddress ==
    /\ main = "index"
    /\ main' = "adds"
    /\ \/ /\ tunRoutes' = tunRoutes \cup {DefaultBy(adapter)}
          /\ byNetsh' = byNetsh \cup {DefaultBy(adapter)}
       \/ UNCHANGED <<tunRoutes, byNetsh>>
    /\ saved' = <<>>
    /\ \E exceptions \in SUBSET Exceptions :
          toAdd' = SelectSeq(<<<<"subnet", NoAdapter>>, <<"gateway", NoAdapter>>>>,
                             LAMBDA r : r \in exceptions)
                   \o <<DefaultBy(adapter)>>
    /\ UNCHANGED <<others, otherSteps, readded, undeleted, deviceVars, forwarding,
                   captureVars>>

\* _add_route(): what is in the table already is not added and not remembered.
AddRoute ==
    /\ main = "adds" /\ toAdd # <<>>
    /\ Head(toAdd) \notin tunRoutes
    /\ tunRoutes' = tunRoutes \cup {Head(toAdd)}
    /\ saved' = Append(saved, Head(toAdd))
    /\ toAdd' = Tail(toAdd)
    /\ UNCHANGED <<main, others, otherSteps, byNetsh, readded, undeleted, deviceVars,
                   forwarding, captureVars>>

\* mistake: the route is remembered whatever add_route() returned.
AddRouteFailsRemembers ==
    /\ main = "adds" /\ toAdd # <<>>
    /\ saved' = Append(saved, Head(toAdd))
    /\ toAdd' = Tail(toAdd)
    /\ UNCHANGED <<main, tunRoutes, others, otherSteps, byNetsh, readded, undeleted,
                   deviceVars, forwarding, captureVars>>

AddRouteFails ==
    /\ main = "adds" /\ toAdd # <<>>
    /\ toAdd' = Tail(toAdd)
    /\ UNCHANGED <<main, tableVars, deviceVars, forwarding, captureVars>>

StartCaptureLoop ==
    /\ main = "adds" /\ toAdd = <<>>
    /\ forwarding' = TRUE
    /\ Capture!LoopStarts
    /\ main' = "idle"
    /\ UNCHANGED <<tableVars, toAdd, deviceVars, reader, tooSlow, misused>>
-------------------------------------------------------------------------------
(* stop(), which may also be called after a start that failed *)

StopForwarding ==
    /\ main = "idle" /\ adapter # NoAdapter
    /\ main' = IF forwarding THEN "joins" ELSE "removes"
    /\ forwarding' = FALSE
    /\ IF forwarding THEN Capture!StopIsSet ELSE UNCHANGED <<loop, stopSet, started>>
    /\ UNCHANGED <<tableVars, toAdd, deviceVars, reader, tooSlow, misused>>

\* mistake: the thread is told to stop and not waited for.
JoinCaptureNot ==
    /\ main = "joins"
    /\ main' = "removes"
    /\ UNCHANGED <<tableVars, toAdd, deviceVars, forwarding, captureVars>>

JoinCapture ==
    /\ main = "joins"
    /\ \/ Capture!Joined /\ UNCHANGED tooSlow
       \/ Capture!JoinTimesOut /\ tooSlow' = TRUE
    /\ main' = "removes"
    /\ UNCHANGED <<tableVars, toAdd, deviceVars, forwarding, loop, stopSet, started,
                   reader, misused>>

\* _remove_routes(), the last first; the list is forgotten whatever happened.
RemoveRoute ==
    /\ main = "removes" /\ saved # <<>>
    /\ LET r == Last(saved) IN
          \/ tunRoutes' = tunRoutes \ {r} /\ UNCHANGED undeleted
          \/ tunRoutes' = tunRoutes /\ undeleted' = (undeleted \/ r \in tunRoutes)
    /\ saved' = Front(saved)
    /\ UNCHANGED <<main, others, otherSteps, byNetsh, readded, toAdd, deviceVars,
                   forwarding, captureVars>>

\* close_session() and delete_adapter(): the dll may export no function that deletes
\* adapters, or it may raise, and the adapter is forgotten all the same.
CloseDevice ==
    /\ main = "removes" /\ saved = <<>>
    /\ session' = NoSession
    /\ adapter' = NoAdapter
    /\ \/ UNCHANGED <<installed, tunRoutes, others, byNetsh>>
       \/ /\ installed' = installed \ {adapter}
          /\ tunRoutes' = tunRoutes \ {DefaultBy(adapter)}
          /\ others' = others \ {DefaultBy(adapter)}
          /\ byNetsh' = byNetsh \ {DefaultBy(adapter)}
    /\ main' = "idle"
    /\ UNCHANGED <<saved, otherSteps, readded, undeleted, toAdd, adapters, sessions,
                   forwarding, captureVars>>
-------------------------------------------------------------------------------
(* _capture_once() in the thread *)

ReaderAt(l, from, to, packet) ==
    /\ reader[l].at = from
    /\ reader' = [reader EXCEPT ![l] = [at |-> to, packet |-> packet]]

\* The forwarder's own event and self._session are looked at first.
PollChecks(l) ==
    /\ Capture!PollBegins(l)
    /\ ReaderAt(l, "idle", IF session = NoSession \/ ~forwarding THEN "returns" ELSE "checked",
                NoSession)
    /\ UNCHANGED <<tableVars, toAdd, deviceVars, forwarding, main, tooSlow, misused>>

\* WintunReceivePacket(self._session)
Receive(l) ==
    /\ \/ ReaderAt(l, "checked", "received", session)
       \/ ReaderAt(l, "checked", "returns", NoSession)
    /\ misused' = (misused \/ session = NoSession)
    /\ UNCHANGED <<tableVars, toAdd, deviceVars, forwarding, main, loop, stopSet, started,
                   tooSlow>>

\* WintunReleaseReceivePacket(self._session, pkt)
Release(l) ==
    /\ ReaderAt(l, "received", "returns", NoSession)
    /\ misused' = (misused \/ session # reader[l].packet)
    /\ UNCHANGED <<tableVars, toAdd, deviceVars, forwarding, main, loop, stopSet, started,
                   tooSlow>>

PollReturns(l) ==
    /\ ReaderAt(l, "returns", "idle", NoSession)
    /\ Capture!PollEnds(l)
    /\ UNCHANGED <<tableVars, toAdd, deviceVars, forwarding, main, tooSlow, misused>>

CaptureLoopEnds(l) ==
    /\ Capture!LoopEnds(l)
    /\ UNCHANGED <<tableVars, toAdd, deviceVars, forwarding, main, reader, tooSlow, misused>>

\* Other programs add and remove routes, by way of adapters that are there.
OthersChange(r) ==
    /\ otherSteps < MaxOthers
    /\ r[2] \in installed \cup {NoAdapter}
    /\ otherSteps' = otherSteps + 1
    /\ IF r \in tunRoutes
       THEN /\ tunRoutes' = tunRoutes \ {r}
            /\ others' = others \ {r}
            /\ byNetsh' = byNetsh \ {r}
            /\ UNCHANGED readded
       ELSE /\ tunRoutes' = tunRoutes \cup {r}
            /\ others' = others \cup {r}
            /\ readded' = (readded \/ r \in Range(saved))
            /\ UNCHANGED byNetsh
    /\ UNCHANGED <<saved, undeleted, toAdd, deviceVars, forwarding, main, captureVars>>

StartsOrStops ==
    \/ CreateAdapter \/ OpenSession \/ OpenSessionFails \/ IndexNotFound \/ SetAddress
    \/ AddRoute \/ AddRouteFails \/ StartCaptureLoop
    \/ StopForwarding \/ JoinCapture \/ RemoveRoute \/ CloseDevice

CaptureThread(l) ==
    PollChecks(l) \/ Receive(l) \/ Release(l) \/ PollReturns(l) \/ CaptureLoopEnds(l)

\* The thread changes no route, and the main thread's steps ask of it only whether
\* it has ended before the join times out: its steps are checked beside those of
\* other programs, and not with them.
TunRoutesNext ==
    \/ StartsOrStops
    \/ \E r \in Exceptions \cup {DefaultBy(k) : k \in Adapters} : OthersChange(r)
TunThreadNext == StartsOrStops \/ \E l \in Loops : CaptureThread(l)
TunNext == TunRoutesNext \/ TunThreadNext
-------------------------------------------------------------------------------
(* Properties *)

\* When no capture runs and none is being started or stopped, the route table is
\* what other programs made of it, but for default routes that netsh made with the
\* address of an adapter that Windows still has: those are not among the saved
\* routes, and nothing takes them away.  A start that found a route in place does
\* not take it away at the stop, and whatever failed halfway leaves no other route.
\* Not so if a deletion failed, which is not retried, or if another program added
\* a route again that this one had added and lost.
LeavesNoTrace ==
    main = "idle" /\ ~forwarding /\ ~undeleted /\ ~readded =>
        /\ others \subseteq tunRoutes
        /\ tunRoutes \ others \subseteq byNetsh \cap {DefaultBy(k) : k \in installed}

\* Unless a thread was too slow for stop(), the native functions are only called
\* on the session that is open, packets are given back to the session they came
\* from, and one thread reads at a time.
ReadsItsSession ==
    ~tooSlow =>
        /\ ~misused
        /\ \A k, l \in Loops : loop[k] = "polls" /\ loop[l] = "polls" => k = l
===============================================================================
