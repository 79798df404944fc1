--------------------------- MODULE RefreshPipeline ---------------------------
(***************************************************************************)
(* From a change of the system's routes to the route table on the screen:  *)
(* RouteChangeListener, RefreshScheduler, CacheManager, the serial queue   *)
(* "route-refresh" and RouteTableTab (ui/main_window.py), composed.        *)
(*                                                                         *)
(* The routes themselves are their version, a number that grows with each  *)
(* change, and what was read of them is the version it was read of.  The   *)
(* reader (services/winapi_network.py) does not raise when a WinAPI call   *)
(* fails: it returns an empty list, or the routes of one family, and that  *)
(* is stored as a success.  Of such a list it is known when it was read,   *)
(* before or after the newest invalidation.                                *)
(*                                                                         *)
(* The scheduler and the queue are RefreshScheduler and SerialQueue; of    *)
(* the cache there is the entry "routes": get() fetches under its lock, so *)
(* that a read of the system and the store of what was read are one step   *)
(* here.  Cancelling and shutting down are left to SerialQueue, as are     *)
(* tasks that emit before they are connected.                              *)
(***************************************************************************)
EXTENDS Integers, Sequences

\* Bound on the changes of the routes and the refreshes that do not come from the
\* scheduler, together.
CONSTANT MaxCauses

ASSUME MaxCausesAssumption == MaxCauses \in Nat

(* Every change, the initial notification and every manual refresh makes   *)
(* at most one request.                                                    *)
NumRequests == MaxCauses + 1
Requests == 1..NumRequests

Empty == 0             \* the cache's _EMPTY, and a table that shows nothing
NotRead == 0
Raised == -1           \* the fetcher raised and there was no stale value
Versions == 1..(MaxCauses + 1)

(* A list has all routes of its version, or a WinAPI call failed when it   *)
(* was read: since the newest invalidate_all() of a refresh, or before it. *)
Gaps == {"none", "since", "before"}

VARIABLES
    world,       \* version of the system's routes
    notes,       \* _route_update signals in the main thread's event queue
    listening,   \* NotifyRouteChange2 is registered
    load,        \* the task "route-lazy-init"
    loaded,      \* what it read, until that is shown
    loadedGap,
    cached,      \* CacheEntry("routes").value
    cachedGap,
    age,         \* of that entry: "fresh", "old" (its ttl is over), "invalid"
    got,         \* what the fn of each request returned
    gotGap,      \* with its gap at that time
    stale,       \* requests that got the old value because the fetch raised
    asked,       \* history: version of the routes when a request was made
    table,       \* what the route model shows
    tableGap,
    manual,      \* refreshes that did not come from the scheduler, so far
    \* RefreshScheduler
    dirty, marking, dispatches, timer, refreshes,
    \* SerialQueue
    issued, status, cancelled, slots, registered, lock, pending, latest, todo,
    mailbox, shown, down, cancels, early

schedulerVars == <<dirty, marking, dispatches, timer, refreshes>>
queueVars == <<issued, status, cancelled, slots, registered, lock, pending,
               latest, todo, mailbox, shown, down, cancels, early>>
cacheVars == <<cached, cachedGap, age>>
loadVars == <<load, loaded, loadedGap, listening>>
readVars == <<got, gotGap, stale, asked>>
tableVars == <<table, tableGap>>
vars == <<world, notes, loadVars, cacheVars, readVars, tableVars, manual,
          schedulerVars, queueVars>>

Main == "main"

Scheduler == INSTANCE RefreshScheduler WITH
    Threads <- {Main}, MaxMarks <- 0, MaxOrders <- 0, marks <- 0, orders <- 0

Queue == INSTANCE SerialQueue WITH MaxCancels <- 0, FastTasks <- FALSE

TypeOK ==
    /\ world \in Versions
    /\ notes \in Nat
    /\ listening \in BOOLEAN
    /\ load \in {"pool", "read", "failed", "done", "gone"}
    /\ loaded \in Versions \cup {NotRead}
    /\ cached \in Versions \cup {Empty}
    /\ {loadedGap, cachedGap, tableGap} \subseteq Gaps
    /\ gotGap \in [Requests -> Gaps]
    /\ age \in {"fresh", "old", "invalid"}
    /\ got \in [Requests -> Versions \cup {NotRead, Raised}]
    /\ stale \in SUBSET Requests
    /\ asked \in [Requests -> Versions \cup {NotRead}]
    /\ table \in Versions \cup {Empty}
    /\ manual \in 0..MaxCauses
    /\ Queue!TypeOK

Init ==
    /\ world = 1
    /\ notes = 0
    /\ listening = FALSE
    /\ load = "pool"
    /\ loaded = NotRead
    /\ cached = Empty
    /\ loadedGap = "none" /\ cachedGap = "none" /\ tableGap = "none"
    /\ age = "old"
    /\ got = [r \in Requests |-> NotRead]
    /\ gotGap = [r \in Requests |-> "none"]
    /\ stale = {}
    /\ asked = [r \in Requests |-> NotRead]
    /\ table = Empty
    /\ manual = 0
    /\ Scheduler!SchedulerInit
    /\ Queue!Init

MainIdle == Queue!MainIdle /\ Scheduler!MainIdle

-----------------------------------------------------------------------------
(* CacheManager.get("routes"), on any thread: what it may return and leave *)
(* in the entry.  The fetch reads the routes, or it reads only some of     *)
(* them or none, which nobody is told; either is a fresh value.  A fetch   *)
(* that raises leaves the value and makes the ttl longer, so that an old   *)
(* value may count as fresh again; it never does once it was invalidated.  *)
Outcome(value, entry, gap, a, failed) ==
    [value |-> value, cached |-> entry, gap |-> gap, age |-> a, failed |-> failed]

AgesAfterFailure(a) == IF a = "invalid" THEN {"invalid"} ELSE {"fresh", "old"}

Gets ==
    IF cached # Empty /\ age = "fresh"
    THEN {Outcome(cached, cached, cachedGap, age, FALSE)}
    ELSE {Outcome(world, world, gap, "fresh", FALSE) : gap \in {"none", "since"}}
         \cup {Outcome(IF cached = Empty THEN Raised ELSE cached, cached, cachedGap, a, TRUE) :
                  a \in AgesAfterFailure(age)}

Store(g) ==
    /\ cached' = g.cached
    /\ cachedGap' = g.gap
    /\ age' = g.age

(* Somebody else reads the routes through the cache: EventTracer's scan,    *)
(* the stats engine's default route, the delete dialog, the cache's warmup.*)
ReadElsewhere ==
    /\ \E g \in Gets : Store(g)
    /\ UNCHANGED <<world, notes, loadVars, readVars, tableVars, manual,
                   schedulerVars, queueVars>>

(* The entry is older than its ttl.                                        *)
Expire ==
    /\ age = "fresh"
    /\ age' = "old"
    /\ UNCHANGED <<world, notes, loadVars, cached, cachedGap, readVars, tableVars, manual,
                   schedulerVars, queueVars>>

-----------------------------------------------------------------------------
(* The system: each change is notified on a thread of its own, whose        *)
(* callback emits _route_update.                                            *)
RoutesChange ==
    /\ world + manual <= MaxCauses
    /\ world' = world + 1
    /\ notes' = IF listening THEN notes + 1 ELSE notes
    /\ UNCHANGED <<loadVars, cacheVars, readVars, tableVars, manual,
                   schedulerVars, queueVars>>

-----------------------------------------------------------------------------
(* Main thread                                                              *)

(* RouteChangeListener._emit, routes_changed, RefreshScheduler.mark_dirty  *)
Notified ==
    /\ MainIdle
    /\ notes > 0
    /\ notes' = notes - 1
    /\ Scheduler!SetDirty(Main)
    /\ UNCHANGED <<world, loadVars, cacheVars, readVars, tableVars, manual, queueVars>>

MarkDirtyEmits ==
    /\ Scheduler!Post(Main)
    /\ UNCHANGED <<world, notes, loadVars, cacheVars, readVars, tableVars, manual,
                   queueVars>>

Dispatched ==
    /\ MainIdle
    /\ Scheduler!OnDispatch
    /\ UNCHANGED <<world, notes, loadVars, cacheVars, readVars, tableVars, manual,
                   queueVars>>

(* _async_refresh                                                          *)
AsyncRefresh ==
    /\ Queue!Request(issued + 1)
    /\ asked' = [asked EXCEPT ![issued + 1] = world]
    /\ UNCHANGED <<got, gotGap, stale>>

\* mistake: invalidate_all() is forgotten
RefreshNeededCached ==
    /\ UNCHANGED cacheVars
    /\ AsyncRefresh

(* _on_refresh_needed: invalidate_all() and _async_refresh().  The         *)
(* topology's refresh between them reads the routes past the cache.        *)
RefreshNeeded ==
    /\ age' = "invalid"
    /\ cachedGap' = IF cachedGap = "none" THEN "none" ELSE "before"
    /\ UNCHANGED cached
    /\ AsyncRefresh

TimerFires ==
    /\ MainIdle
    /\ \/ Scheduler!FlushDirty /\ RefreshNeeded
       \/ Scheduler!FlushClean /\ UNCHANGED <<cacheVars, readVars, queueVars>>
    /\ UNCHANGED <<world, notes, loadVars, tableVars, manual>>

(* The refresh button and _on_family_changed: the cache is not invalidated.*)
ManualRefresh ==
    /\ MainIdle
    /\ world + manual <= MaxCauses
    /\ manual' = manual + 1
    /\ Queue!Request(issued + 1)
    /\ UNCHANGED <<world, notes, loadVars, cacheVars, readVars, tableVars,
                   schedulerVars>>

Connect ==
    /\ Queue!Connect
    /\ UNCHANGED <<world, notes, loadVars, cacheVars, readVars, tableVars, manual,
                   schedulerVars>>

(* A slot of a finished task; _on_refreshed shows its result.              *)
Deliver ==
    /\ MainIdle
    /\ Queue!Deliver
    /\ IF shown' # shown THEN table' = got[shown'] /\ tableGap' = gotGap[shown']
                         ELSE UNCHANGED tableVars
    /\ UNCHANGED <<world, notes, loadVars, cacheVars, readVars, manual,
                   schedulerVars>>

-----------------------------------------------------------------------------
(* Pool threads                                                             *)

(* fn of a request: get_routes().                                          *)
Read(r) ==
    /\ status[r] = "running"
    /\ got[r] = NotRead
    /\ \E g \in Gets :
          /\ Store(g)
          /\ got' = [got EXCEPT ![r] = g.value]
          /\ gotGap' = [gotGap EXCEPT ![r] = g.gap]
          /\ stale' = IF g.failed THEN stale \cup {r} ELSE stale
    /\ UNCHANGED <<world, notes, loadVars, asked, tableVars, manual, schedulerVars,
                   queueVars>>

RunTask(r) ==
    /\ \/ Queue!Begin(r)
       \/ got[r] \in Versions /\ Queue!Emit(r, "finished")
       \/ got[r] = Raised /\ Queue!Emit(r, "error")
    /\ UNCHANGED <<world, notes, loadVars, cacheVars, readVars, tableVars, manual,
                   schedulerVars>>

(* _load_all_data                                                          *)
LoadReads ==
    /\ load = "pool"
    /\ \E g \in Gets :
          /\ Store(g)
          /\ IF g.value = Raised
             THEN load' = "failed" /\ UNCHANGED <<loaded, loadedGap>>
             ELSE load' = "read" /\ loaded' = g.value /\ loadedGap' = g.gap
    /\ UNCHANGED <<world, notes, listening, readVars, tableVars, manual,
                   schedulerVars, queueVars>>

\* mistake: the listener asks for no initial notification
DataLoadedNoInitial ==
    /\ MainIdle
    /\ load = "read"
    /\ load' = "done"
    /\ table' = loaded /\ tableGap' = loadedGap
    /\ loaded' = NotRead /\ loadedGap' = "none"
    /\ listening' \in BOOLEAN
    /\ UNCHANGED <<world, notes, cacheVars, readVars, manual, schedulerVars, queueVars>>

(* _on_data_loaded shows what was read and starts the listener, which may  *)
(* fail; NotifyRouteChange2 is asked for an initial notification.          *)
DataLoaded ==
    /\ MainIdle
    /\ load = "read"
    /\ load' = "done"
    /\ table' = loaded /\ tableGap' = loadedGap
    /\ loaded' = NotRead /\ loadedGap' = "none"
    /\ listening' \in BOOLEAN
    /\ notes' = IF listening' THEN notes + 1 ELSE notes
    /\ UNCHANGED <<world, cacheVars, readVars, manual, schedulerVars, queueVars>>

(* _on_load_error: the listener is never started.                          *)
LoadError ==
    /\ MainIdle
    /\ load = "failed"
    /\ load' = "gone"
    /\ UNCHANGED <<world, notes, loaded, loadedGap, listening, cacheVars, readVars, tableVars,
                   manual, schedulerVars, queueVars>>

-----------------------------------------------------------------------------
Progress ==
    \/ Notified \/ MarkDirtyEmits \/ Dispatched \/ TimerFires
    \/ Connect \/ Deliver
    \/ LoadReads \/ DataLoaded \/ LoadError
    \/ \E r \in Requests : Read(r) \/ RunTask(r)

Next ==
    \/ RoutesChange
    \/ ManualRefresh
    \/ ReadElsewhere
    \/ Expire
    \/ Progress

(* The main thread serves its queue and its timers, the pool its tasks, and *)
(* WinAPI calls return.  All these steps come to an end by themselves, so   *)
(* that fairness of each is fairness of their disjunction.                  *)
Spec == Init /\ [][Next]_vars /\ WF_vars(Progress)

-----------------------------------------------------------------------------
(* Properties                                                               *)

(* A refresh that a notification asked for shows routes at least as new as *)
(* that notification: whatever the cache held, and whoever fetched in      *)
(* between, invalidate_all() (line 870) reaches the fn of the request.     *)
(* Unless its own fetch raises, it is not shown a list that somebody's     *)
(* failed WinAPI call had left in the cache before that; one that fails    *)
(* after it is shown as it is, empty or with routes missing.               *)
RefreshSeesChange ==
    \A r \in Requests : status[r] = "finished" =>
        (got[r] >= asked[r] /\ gotGap[r] # "before") \/ r \in stale

(* Nothing is on its way to the table.                                     *)
Quiet ==
    /\ notes = 0
    /\ marking = {} /\ dispatches = 0 /\ ~timer
    /\ Queue!QueueAtRest
    /\ load = "done" /\ listening

(* What the table shows was read of the routes as they are, and with no    *)
(* routes missing unless a WinAPI call failed after the last notification. *)
UpToDate == table = world /\ tableGap # "before"

(* No change is lost between its notification, the debounce, the cache and *)
(* the queue: when all is quiet the table shows the routes as they are.    *)
(* There are three exceptions, from which only another change or a gesture *)
(* leads on: a read after the last notification failed silently, so that   *)
(* the table may be empty; the last fetch raised; the queue dropped a      *)
(* pending request (task_manager.py:380).                                  *)
QuietMeansFresh == Quiet => UpToDate \/ pending \/ shown \in stale

(* The table comes to show the routes as they are and stays so, with the   *)
(* same exceptions, if the initial load and the listener succeed.          *)
Settles ==
    <>[](\/ UpToDate
         \/ pending
         \/ shown \in stale
         \/ load = "gone"
         \/ load = "done" /\ ~listening)
=============================================================================
