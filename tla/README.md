# NetVista: verification project

TLA+ specifications, TLC runs and TLAPS proofs for NetVista (Windows Route Table
Manager), a PyQt5 program that shows and changes the routes of a Windows machine and
watches its network. The interesting part of it is not in any one function: it is what
happens when pool threads, the Qt main thread, callbacks of Win32, other programs and
calls that fail come in an order nobody wrote a test for.

`PROJECT.json` lists the components, the runs, the hazards (each at its line, with the
properties that watch it), the theorems, the findings, and, for each definition that
models code, the lines it stands for. This file explains them.

    tlc -workers 2 -config MCSerialQueue.cfg SerialQueue.tla     # one run
    tlapm SerialQueueProofs.tla                                  # one proof module

The module that goes with each `.cfg` is in the list of runs below.

## 1. The system

### Threads, and how they talk

* The **main thread** runs Qt's event loop. All widgets, the refresh timer, the flush
  timer of the event bus and every slot of a task's signals run there, one at a time;
  it lets go in the middle of a handler only inside a modal dialog.
* The **pool** (QThreadPool) runs `TaskRunnable`s. A task talks to the main thread by
  two signals, `finished` and `error`, which arrive as queued calls.
* **Win32 threads** deliver the notifications of `NotifyRouteChange2` and its likes; the
  listener emits a signal, which again is a queued call on the main thread.
* **Dedicated threads** (packet capture) and **periodic tasks** are made by the
  TaskManager, too.
* What they share is protected by locks of its own: the cache by one RLock for all keys,
  the ring and the pending list of the event bus by one lock each, `_dirty` of the
  scheduler by a lock, each serial queue by a plain Lock that one thread takes and a slot
  on another gives back.

### Components

| Component | State it keeps | Operations | What is hard | What makes it correct |
|---|---|---|---|---|
| TaskManager: pool tasks and serial queues | `_tasks`, the two events of each task, `_serial_locks`, `_serial_pending`, `_serial_latest_fn`, `_shutting_down` | submit, submit_serial, cancel, cancel_all, shutdown; run, wait of a task | cancel against every step of run, slots connected after start, a lock released by a slot | one report per task, one task per queue, results in order, the lock given back |
| TaskManager: periodic and dedicated tasks | timers, threads, stop events | schedule_periodic, start_dedicated, stop | overlapping ticks, a join that times out | one execution at a time, a stopped thread stays stopped |
| RefreshScheduler | `_dirty`, a single-shot timer | mark_dirty, force_refresh, cancel | lock released before the emit, late dispatches | every report is followed by a refresh, no other is made |
| CacheManager | entries with value, age, ttl, background flag | get, get_or_refresh, invalidate(_all), set, snapshot, rollback, clear | fetches that overlap invalidations, background refresh | no value older than the invalidation, the flag is never left behind |
| Route change pipeline | all of the above together | from a notification to the table | six hand-overs in a row | the table ends up showing the routes as they are |
| EventBus and event log | ring buffer, pending list, batches, bounded table | publish, flush, clear, stop | two locks in a row, clear between them | each event once, in order, the newest kept |
| Route operations | the system's table, the cached one, dialogs, import and switch tasks | add, delete, modify, import, switch default | stale cache, half-done bulk operations, other programs | an import does what its mode says, reports what it did |
| IP Helper bindings | none (ctypes) | add_route, delete_route, set_route_metric, readers | three ways to write a prefix | a refused call changes nothing |
| RouteListener | a Win32 handle | start, stop, `_emit` | a foreign thread | no notification is lost |
| Main window: start, shutdown | what has been started | lazy load, closeEvent | the order of stops | nothing runs on what is already closed |
| EventTracer | last snapshots, callbacks, a debounce timer | start, stop, four polls, three callbacks | polls with a cap, routes that share a key, counters that wrap, a list cleared while another thread fills it | who reads the log knows the system |
| ETWTracer | a record id cursor | start, stop, poll | a first read that fails, a circular channel | no event twice, none skipped |
| TUN capture | adapter, session, routes, thread | start, stop, capture | a start that fails half way, a session closed under a reader | no trace is left, a session is used while it is open |
| Packet interceptor | last reading, rates, process list | start, stop, poll | counters that wrap, overlapping polls | a rate is the true difference |
| Rate and latency monitors | trackers per interface, tick count, latency | tick, sample, ping | the interface changes under a tracker, clocks set back, pings that overlap | rates are of one interface, results in order |
| WFP manager | rules by id, engine | add, remove, clear, clean up | netsh calls that fail, names that others share, a process that ends | its list is the firewall's |
| Topology | last graph, scene items in five containers | build, diff, refresh, patch | containers that drift apart over many patches | the scene is the graph, the graph is the network |
| Route table model | rows, key lookup, highlights | set_routes, fade | highlights by row number, two rows of one key | a light follows its route |
| Form of the route tab | fields, boxes, selection, family filter | select, type, pick, leave a field, press a button, load, refresh | fields that change one another by signals | what is deleted is what was selected |
| Network diagnosis | current task, buttons | start, stop | late lines of a stopped test | the buttons tell whether a test runs |
| Process, security and strategy monitors, route monitor, RTT monitor | none to speak of | read-outs | nothing creates them | - |
| NetworkCache | - | - | dead code, imported nowhere | - |
| Core helpers | configuration, logger | mask_to_cidr and its likes | a number read as an address | a prefix means the same in all its forms |

Of these, all that has a state worth the name is modelled; `PROJECT.json` says how far,
component by component, and section 7 what is left out.

## 2. Modules

    TaskOutcome    <- implemented by -  TaskRunnable         TaskRunnableProofs
         ^------------ implemented by -  SerialQueue          SerialQueueProofs
    RefreshPromise <- implemented by -  RefreshScheduler     RefreshSchedulerProofs
    BoundedLog     <- implemented by -  RingBuffer <- EventBus   EventBusProofs
    RefreshPipeline = RefreshScheduler + SerialQueue + cache entry + listener + table
                                                              RefreshPipelineProofs
    CacheManager                                              CacheProofs
    RouteTable <- RouteOps <- MCRouteOps                      RouteOpsProofs
    MCParts = TopologyView | PacketInterceptor (PeriodicTask) | EventTracer (five parts)
              | RouteTableModel | NetDiag | WfpManager | TunForwarder (DedicatedTask)
              | EtwTracer (DedicatedTask) | StatusMonitor (three parts) | RouteForm
                                                              PartsProofs

**TaskOutcome** is the promise of one task: cancelled in the pool, it never runs; run, it
reports exactly once, unless it was cancelled, in which case it may end silently.

**TaskRunnable** is `TaskRunnable.run()` at the grain at which another thread can
interfere: entering, the check of `_cancelled`, the head of the retry loop (range
exhausted, cancelled, deadline over, or a call), the call, what follows an exception, the
sleep between attempts, the emissions, clearing `_running`; against `cancel()`, a `wait()`
of some other thread and the passing of the deadline. A check of `_cancelled` and the emit
that follows it are one step, since a cancel between the two cannot be told from one
after the emit. It implements TaskOutcome (`KeepsOutcome`).

**SerialQueue** is one named queue: `submit_serial()` (refused, idle or busy), the
connection of slots one by one *after* the task was started, the mailbox of the main
thread with the three kinds of slot (`on_finished`; `_release_and_check`; the lambda of a
second run that only unlocks), `cancel()`, `shutdown()`, which is one step, since it runs to
its end on the main thread, and the worker, as TaskOutcome abstracts it. Each runnable implements TaskOutcome.

**RefreshPromise / RefreshScheduler**. The promise: whoever reports a change gets a
refresh after it, however many reports it merges, unless force_refresh() or cancel()
comes first, and no refresh is made that nobody asked for. The scheduler has `mark_dirty()`
in two steps (under the lock; the emit), the dispatches that wait in the main thread's
queue, the timer, and the two orders. The length of the debounce window is left out: a
timer that runs may fire at any time, which is more than the code can do.

**RefreshPipeline** instantiates RefreshScheduler and SerialQueue and joins them to the
listener, the cache entry `routes`, the lazy first load and the table on the screen. The
routes are their version. Other readers of the cache, the ttl and failing fetches come at
any time. A fetch fails in two ways: it raises, which leaves the old value; or a WinAPI call
of the reader fails, which the reader does not report (winapi_network.py:366, 372, 426), so
that an empty or partial list is stored as a fresh success. Such a list carries its *gap*:
whether it was read before or after the newest `invalidate_all()`. It does not cancel or shut down (SerialQueue does), and a task's slots are
connected before it emits (SerialQueue's `FastTasks` has the other case).

**CacheManager** has the RLock that is held while a fetcher runs, the fetch in three steps
(begins, reads the source, returns or raises), the background task with its flag and its
`finally`, the clock with `created_at` and a ttl that grows with failures, and the writes:
invalidate, invalidate_all, set, snapshot, rollback, clear. What an entry holds is the
version of the source it was read from. Version numbers, error texts and statistics are
left out, no code reads them; `warmup()` is a get per key.

**BoundedLog / RingBuffer / EventBus**. BoundedLog is a list that keeps the newest items.
RingBuffer is the array, position and count; `get_all()` is shown to be a BoundedLog.
EventBus adds `publish()` in two steps (its two locks), the flush timer, `stop()`, the
widget's list and its scheduled update, and `_clear()`, whose two halves the publishers
may come between.

**RouteTable / RouteOps / MCRouteOps**. RouteTable is the vocabulary: a route's key
(family, destination, length, gateway, interface), tables as functions from keys to
metrics, which routes count as default, which ways of writing a prefix are accepted, and
`route_exists()` as it compares. RouteOps has one action per button handler and per step
of a task:

| Code | Actions |
|---|---|
| `RouteTableTab.add()` and its three dialogs | Add, AddReplaces, AddConfirmed, AddSetsMetric, GivesUp |
| `delete()`, `modify()` | Delete; Modify, ModifyValidates, then the confirmation as for add |
| waiting dialogs | Submits (Switch, Import), DialogCloses, DialogDismissed |
| `do_set_default_route()` | SwitchReads, SwitchSets per route, SwitchEnds |
| `import_routes_from_dict()` | ImportBegins, ClearsOne per route, Cleared; per entry RejectsEntry, ChecksEntry, DeletesEntry, AddsEntry, EntryRaises, SetsEntryMetric, LeavesEntryMetric; ImportEnds |
| `add_route()`, `delete_route()`, `set_route_metric()` | CreateRoute, DeleteRoute, SetMetric: accepted, refused, or failed for no reason of ours |
| other programs, the ttl, a refresh | OthersChange, Expires, Refreshes |

Its abstractions: a read of the cache and its refill are one step, as are a single write
through `networking` and its invalidation (CacheManager has the steps of both); a route
made without a metric has the one value `MetricCreated`; the metric Windows stores is the
one it was given; a read of all routes that fails silently is in the restore's own read
(`Listed`), not in the reads by way of the cache (RefreshPipeline has those); files are lists
of entries that are sound, lack a field, or name an interface that is no number. Dismissing the waiting dialog of an import ends the program
(`down`): `import_snapshot()` subscripts a result that is None, and PyQt5 aborts on an
exception that leaves a slot.

**PeriodicTask, DedicatedTask** are the two other kinds of task of the TaskManager.
PeriodicTask has the timer, `current`, and any number of runnables in the pool: a tick
looks at `is_running`, which a runnable sets when it starts, so that a full pool lets a
second one in. DedicatedTask has one loop per start with its own stop event, and a join
that may time out. What a call of the function does is left to the module that uses them.

**TopologyView** has `build_topology()` (which interfaces are shown, default and second
best exit, statuses, nodes and edges), `diff_graph()`, and the widget's full and patched
refresh with each of the containers an item lives in: map of edges, list of edges,
animator, and the edges each node knows. What an item looks like is kept as the code keeps
it: a node is drawn anew as a whole; an edge has a pen, which its constructor, a patch and
its `paint()` each set by rules of their own. A traffic value is zero or not.

**PacketInterceptor** is `start()`, `stop()` and the poll in the steps between which
another poll may come: a time, a reading of all counters (wrapping, or zeros after a
failure), their sum, the difference. **StatusMonitor** has the other two users of byte
counters, the engine's tracker for the default interface and one per interface of the
topology, and the engine's ticks with its pings, which are tasks of the pool. There time
is what the clock says, and beside it, as history, what has really passed: the clock may be
set. (PacketInterceptor has bytes only. It divides by the time since `_last_sample`,
packet_interceptor.py:440, which an overlapping poll may have replaced since; that time is not
modelled.)

**EventTracer** is five state machines that share `start()` and `stop()` only:
connections (with the cap of a cycle), routes (by destination, mask and family),
interfaces, error counters, and the Win32 callbacks with `_pending` and the debounce
timer. Of a registration it keeps whether its handle was received: those of interfaces and
addresses pass None for it (event_tracer.py:345, 370), so that `stop()` cannot cancel them. For the four polls, history variables keep what a reader of the published events
believes.

**RouteTableModel** is `set_routes()` with the highlights it carries over, and the fading
timer; time is a counter. **NetDiag** is the panel with its two buttons, the task of a
test, and its signals, which wait in the main thread's queue and which stopping a test
leaves connected.

**RouteForm** is the form of the route tab as a user meets it: a selected row fills it,
boxes and fields write one another by their signals, leaving a field validates and
rewrites it, and the buttons act on what it says then. RouteOps has the calls that
follow, with their failures; RouteForm has which route they name.

**WfpManager** has the list and the firewall as two sets, each removal as the sequence of
netsh calls it is, other programs, and the end of the process at any point.
**TunForwarder** has `start_forwarding()` and `stop()` call by call, each of which may
fail, the default route that netsh makes because it is given the gateway with the address,
adapters that the dll may have no function to delete, and the capture thread between its
native calls. The thread changes no route and other programs change no session, so the two
are checked each beside the main thread (parts `tun` and `capture`), not together. **EtwTracer** has the channel,
which drops its oldest record when it grows, the cursor, and the poll record by record.

**MCParts** puts these side by side. They have no state in common, so a behaviour is one
of one part (`part`, chosen initially) while the others rest in their initial states: the
run checks the union of the parts' state spaces, not their product. That loses nothing,
since no property speaks of two parts.

History variables (`early`, `asked`, `floor`, `emitted`, `kept`, `dropped`, `unseen`,
`foreign`, `touched`, `mine`, `good`, `trouble`; in the parts those under the comment
"History") record what happened, for the properties;
no guard reads them. `good` stands for the successes that an import counts.

Definitions under a comment that begins with "mistake:" or "mutant:" are plausible bugs,
used nowhere in the specifications: with one of them in place of the definition below it,
TLC finds a property violated, as PROJECT.json lists under "mutants" for each property.

## 3. Runs

All of them set CHECK_DEADLOCK FALSE: with a bounded number of calls the systems really
come to rest, which is no deadlock of the code. What must not get stuck is stated as
liveness.

| Run | Module, cfg | Bounds | What it shows |
|---|---|---|---|
| task_runnable | TaskRunnable, MCTaskRunnable | two retries, a deadline | the outcome contract, an error only after all attempts or the deadline, no attempt after a cancel, every task ends |
| task_runnable_wait | TaskRunnable, MCTaskRunnable_wait | no retry | finding 1 |
| serial_queue | SerialQueue, MCSerialQueue | four requests, one cancel, a shutdown, early emissions | one task at a time, one release per acquisition, results in order, the lock comes back (but for the cases it names) |
| serial_queue_pending | SerialQueue, MCSerialQueue_pending | three requests | finding 2 |
| refresh_scheduler | RefreshScheduler, MCRefreshScheduler | three threads, one of them main; four marks; two orders | no mark is lost, RefreshPromise is kept, its liveness included |
| refresh_pipeline | RefreshPipeline, MCRefreshPipeline | two causes, each a change or a manual refresh | a refresh sees the change it was asked for, quiet means current, the table settles, all but for reads that fail |
| cache | CacheManager, MCCacheManager | one key, two callers, ttl 1 to 3, clock 4 to 7, one change of the source, four calls | no value from before an invalidation, the background flag has a task, one background task, values move forward, all calls return |
| cache_blocks | CacheManager, MCCacheManager_blocks | the same | finding 3 |
| event_bus | EventBus, MCEventBus | two publishers, four events, ring of three, table of two, one clear | each event delivered once, in its publisher's order, the table shows the newest, the ring is a BoundedLog, events reach the table |
| route_ops | MCRouteOps, MCRouteOps | five routes, two files, two tasks, two operations, one mishap | imports do what their mode says and count what they did, a switch is a switch, own writes are seen |
| route_ops_modify | MCRouteOps, MCRouteOps_modify | one operation, no mishap | finding 4 |
| parts | MCParts, MCParts | below | topology scene, packet rates, the tracer's log and notifications, highlights, diagnosis buttons, firewall rules, TUN capture, DNS cursor, rates and pings, the route form |

Why the bounds are enough for the interesting cases to happen:

* Two retries give a first, a middle and a last attempt; the two places where the code
  compares `attempt` with the range differ between them.
* Four requests are what it takes to have one running, one pending, one that replaces it,
  and one more after the second run, which is connected to other slots than the first.
* Of three marking threads one is the main thread itself, where `mark_dirty()` cannot be
  interleaved with the timer. Four marks let a dispatch be late behind an order twice.
* Two changes, or a change and a manual refresh (which invalidates nothing), give three requests to the queue of the
  pipeline, so that the pending one can be replaced, dropped or overtaken.
* The clock starts above the longest ttl, so that `created_at = 0` means expired. Below
  it (just after boot) it does not (cache_manager.py:260), which is the reason for
  the premise `StartTime > MaxTtl` of ReturnsSinceInvalidation. Keys do
  not interact but through the lock, which a background task of the one key already
  contends for.
* A ring of three and four events wrap it; a table of two is smaller than one batch.
* The five routes are two IPv4 defaults on two interfaces, two routes to one network
  through different gateways (which `route_exists()` does not tell apart), and an IPv6
  route. One file adds and changes, the other has an entry without a field and one whose
  interface raises. One mishap is a change by another program or a failing call, at any
  point. The two tasks are symmetric; no action names one of them.
* The parts: two interfaces of different names that share a gateway, and three
  changes of the network between two refreshes (an edge that goes, comes and goes);
  words of two values, so that counters wrap at every other step; three connections with
  a cap of one per cycle; two routes that the comparison cannot tell apart beside one that
  it can; three starts of a diagnosis, for a late signal of the first to meet the third;
  two rules and one of another program, with two names; two TUN sessions and two loops,
  for a slow thread of the first to meet the next session; four records in a channel
  that holds three; three pings at every second tick. For the rates, two bytes come at once or not at all in
  four seconds and one is the most that counts as sane: enough for a burst that the trackers
  drop, one mishap (a counter that starts again at 0, or a setting of the clock), and a
  change of the interface between two samples. One kind of notification hands over its handle and one does
  not; two adapters and two changes by other programs are enough for the route by a
  forgotten adapter to outlive it.
  The form has three gestures of the
  user between any refreshes and the first load, five routes chosen so that each way to
  name another route than the selected one exists (one gateway on two interfaces; two
  lengths, two gateways of one destination; one route of IPv6), and one change by another
  program. A longer sequence of gestures adds no new kind of form: each gesture sets
  the fields it sets whatever was there.

## 4. Properties, and what they leave open

Each property is stated in words above its definition. Some name exceptions, because the
code has them:

* `LockReturned`: a task that is cancelled emits nothing, so the lock of its queue is
  never released; nor is it when the task emits before its slots are connected
  (task_manager.py:386). After either the queue accepts requests and runs none.
* `RefreshSeesChange`: a refresh is shown what its own fetch returned, be it an empty list
  because a WinAPI call failed; what is excluded is such a list from before its notification.
* `QuietMeansFresh`, `Settles`: a pending request may be dropped (finding 2), the last
  fetch may have raised, some read since the last notification may have failed silently
  (the table then lacks routes until something else refreshes it), and the listener may not
  have started, which is only logged.
* `OwnWritesSeen`: an import ended by an exception skips the invalidation at its end
  (networking.py:199), so a valid cache without its writes stays until the ttl is over or
  the listener reports.
* `SwitchedDefault` has as a premise that the chosen interface has an IPv4 default route:
  the code does not ask (networking.py:221), and without one it raises the metric of all
  the others and reports success.
* `RestoredExactly` and `SuccessIsInstalled` except routes that others changed meanwhile,
  and calls whose failure the code ignores (deletes, metrics).
* `RateIsTrue`: not across a failed reading (zeros), an interface that comes or goes, or a
  poll applied after one that began later.
* `RatesAreTrue`: when the default route moves, the panel's tracker keeps
  the counter of the old interface and shows the difference of two interfaces once. If the
  clock was set between two samples, the bytes are divided by the difference of the clock,
  which has little to do with the time that passed: after a setting back the tracker is
  silent until the clock has caught up, and then shows far too much.
* `PingsInOrder`: a ping takes up to 24 seconds and the next comes after
  five; cancelling one that runs does nothing, and its result may replace a newer one.
* `LogIsTrue`: connections above the cap of a cycle are never published, nor routes of a
  first snapshot above its cap; a failed snapshot makes every open connection look new.
* `NotificationsHold`: a QTimer started from a foreign thread does not run; the change is
  told by whichever start succeeds next. Callbacks registered without a handle may be called
  after `stop()` has let them go.
* `ShowsNetwork`: a default edge that is down is dashed when drawn and solid when patched,
  and one that is the default no longer stays wide until it is painted with its traffic.
* `ButtonsTell`: a stopped test goes on; its `finished` can switch the buttons of the next.
* `FirewallIsKnown`: a delete that fails by the rule's name is tried by its display name,
  which may be another program's rule: then that is gone and the own one stays, unlisted. A
  display name "all" stands for every rule there is (the model's `EveryName`).
* `LeavesNoTrace`: a deletion that fails at the stop is not retried. The default route that
  netsh made is not among the saved ones, and stays as long as Windows has the adapter.
* `ReadsItsSession`, `PublishedExactlyOnce`: not once a thread was too slow for `stop()`.
* `FormTells`: leaving the gateway field, and every button that validates, replaces the
  interface by the first one listed with the same gateway; with the family turned to IPv6
  a mask counts as length 0; the first load puts 0.0.0.0 into the gateway field. After
  each, delete may act on another route than the selected one.

### Observations

Not findings, since no document or test says otherwise, but worth knowing; each is in the
models as the code has it.

* Cache: `get()` is to return the stale value when a fetch fails (cache_manager.py:155), but
  the reader of the routes hides that a WinAPI call failed, and an empty or partial list
  takes the place of a whole one, fresh for a whole ttl. The size of the IPv4 table is asked
  first and the table read then, so that the read fails when the table grows in between.
* WFP: a PID rule with an empty application path blocks every process; `persistent` and the
  layer are ignored; nothing reads the rules of an ended process back.
* ETW: the newest record is rendered into 512 bytes and seldom fits, so that the cursor
  stays 0 and the second poll publishes the whole channel.
* TUN: a packet of size 0 is not released.
* Topology: a patch never updates the address under an item.
* Rates: a rate of zero is not emitted, the panel keeps the last one that was not.
* Form: after selecting an IPv4 row whose length is not the one in the prefix box, the box
  rewrites the field in digits, and delete refuses digits. Filtering one family unchecks
  the default boxes of the other at the next refresh.
* Diagnosis: stopping does not end the tool.
* Nothing creates route_monitor, rtt_monitor, process_monitor, security_monitor,
  strategy_engine or network_cache; the user interface creates no TUNForwarder.

### Findings

1. `wait()` of a task waits for the event that says *running*, not completed: it returns
   True as soon as the task starts and blocks for the whole timeout if it has ended.
   Both callers call it after the task's dialog has closed.
2. A request that arrives during the second run of a serial queue is marked pending and
   never submitted; the lambda that ends that run does not look at it.
3. `get_or_refresh()` is documented never to block on a background refresh, and waits
   for the lock that the background refresh holds around its fetcher.
4. `modify()` deletes the old IPv4 route and then hands the new prefix as a number to a
   helper that reads it as an address: every length from 1 to 32 is refused, and the
   route is gone. `add()` of an IPv4 route fails the same way, but loses nothing.

## 5. Fairness

| Specification | Fair | Why |
|---|---|---|
| TaskRunnable | the steps of run() | the pool gives it a thread, and `fn` returns or raises |
| SerialQueue | Connect, Deliver, each worker | a call of the main thread goes on to its end, Qt serves its queue, as above |
| RefreshScheduler | each emit, OnDispatch, the timer | a thread completes `mark_dirty()`; Qt serves queue and timers; restarts of the timer come to an end, MaxMarks bounds them |
| RefreshPipeline | Progress as a whole | all of the above, and WinAPI calls return; each of these steps uses up something finite, so that fairness of the disjunction is fairness of each |
| CacheManager | the steps of each agent | fetchers return or raise; a thread that waits for the RLock gets it, competing with a bounded number of calls |
| EventBus | AddPending, Flush, BatchUpdate, ClearEnds | a publisher completes its call, timers fire, the main thread completes `clear()` |
| RouteOps, MCParts | none | safety only |

Nothing is assumed of users, other programs, cancellations, shutdown, expiry or the
sources. Notifications that come closer together than the debounce window for ever would
put off a refresh for ever: each dispatch restarts the timer. The scheduler's bound on
marks hides that; it is listed as a hazard.

## 6. Proofs

The proofs hold for all values of the constants. They assume what the modules' named
ASSUMEs say: bounds are naturals; the main thread is one of the threads; files are lists of
entries, initial tables are tables; foreign firewall rules have names and are not this
program's; the names of the main thread, of nobody and of no rule are not those of tasks,
threads or rules; counters wrap at a positive word, and there are finitely many
interfaces; an address is of one of the two families and not the empty one that stands for
"directly", and an interface number is neither a gateway address nor blank. TLC evaluates
all of these on the instances. Every leaf is checked; nothing is assumed beyond that.

Every invariant and every action property that a passing run checks is proved, and so is
the safety half of each refinement.

* **TaskRunnableProofs** (any number of retries, with and without a deadline): TypeOK,
  ErrorMeansAllTried, RunningCoversCalls, NoNewAttemptAfterCancel, and that every step of
  run() is a step of TaskOutcome or none. The invariant adds that the number of calls goes
  with the attempt and the step, and that "timeout" as an error implies a passed deadline.
* **SerialQueueProofs** (any number of requests and cancels): TypeOK, MutualExclusion,
  ReleasesOwnLock, PendingIsNewest, ResultsInOrder, KeepsOutcome. None but the type is
  inductive. What carries them is `LiveOwnsLock`, that a task in the pool or running owns
  the lock and is the only one, next to ReleasesOwnLock, which says the same of a posted
  release. It needs that a runnable is never
  given both kinds of releasing slot (`OneReleaseSlot`) and that one emission posts one
  release, and the order of results needs that runnables start, finish and are posted in
  the order of requests (`StartedInOrder`, `PostedInOrder`).
* **RefreshSchedulerProofs** (any threads, marks and orders): TypeOK, NoLostMark, and the
  safety half of the promise (`RefreshesWereReported`: the scheduler implements
  `Promise!Safety`).
* **RouteOpsProofs** (any routes, initial tables, files, tasks, numbers of operations and
  mishaps): TypeOK, SkipKeepsRoutes, OwnWritesSeen, SuccessIsInstalled, RestoredExactly,
  SwitchedDefault, which is all that the run checks. The argument:
  - `TInv` ties the mode of a task to its step, and what it has yet to do and has made to
    its progress. SkipKeepsRoutes follows from it: a skip never reaches the deleting step,
    and sets metrics only of keys in `mine`.
  - `SeenInv`: a valid cache lacks own writes only while some bulk task is on its way, or
    after one that was cut short.
  - `ImportInv`, per task: what it counted as a success is in its file before the current
    entry (Counted); each such route has the metric of its last entry, is the one under way,
    or was touched by others (Installed); in a restore nothing else is there (NothingElse).
  - `SwitchInv`, per task: each default route is still to be set, is set, or was touched
    by others. It rests on `CacheInv`: a valid cache agrees with the system but for
    `unseen` and `foreign`, which SwitchReads copies to `touched`.
  - One lemma, OtherStepWatched, says of every step that is not the task's own that what it
    changes is in `touched` of that task, so that only a task's own steps need a case each.
* **RefreshPipelineProofs** (any number of changes, requests and reads by others):
  RefreshSeesChange, QuietMeansFresh and, inside the pipeline, MutualExclusion of the
  queue. For RefreshSeesChange the invariant says what the cache may do to a request that has not
  read yet: its value is not older than the request, or will not be returned
  (`CacheIsSafe`); invalidate_all() makes that so for all requests at once, and every
  get() of anybody keeps it (`GetsSafe`), a failing one too: one that raises leaves the
  entry as it was, one that fails silently stores a list read since.
  For QuietMeansFresh:
  - The queue's steps are steps of SerialQueue with no cancel, all slots connected in
    time; SerialQueueProofs is instantiated (`QP`), so that its invariant need not be
    proved again.
  - `Counted`: every request is owed to a notification of its own, to the first load or to
    a gesture, which is why the names for requests never run out.
  - `Told`: once the program listens, a notification is on its way, or the scheduler is
    dirty, or a request made for the routes as they are is `Served`: the result of it or
    of a newer one is shown or posted, or it or a newer one is in the pool, running or
    pending. `GotSince` and `CacheKeepsUp` make newer requests read what is as new, though
    the queue skips those between.
  - At rest nothing is on its way, so that the result of such a request is shown
    (`QuietIsFresh`).
* **CacheProofs** (any keys, threads, ttls, calls): types, FlagIsOneTask,
  ReturnsSinceInvalidation, ValuesMoveForward. The lock makes a fetch the only one
  (`LockOfFetch`), so what a fetcher has read is as new as what it replaces and as the last
  invalidation (`ReadIsNew`); an entry from before an invalidation has created_at 0
  (`StaleIsExpired`). ReturnsSinceInvalidation is proved under StartTime > MaxTtl, since
  a created_at of 0 is expired only then.
* **EventBusProofs** (any size, limit of the table, events, publishers, clears):
  - RingIsBoundedLog, a refinement with no liveness in it, for the steps of the whole bus.
    The core is one lemma of the index arithmetic (`RoundFrom`) and that an append keeps
    the newest items (`AppendKeepsNewest`).
  - LogShowsNewest, which is inductive beside the types: "the newest n of" is a part
    of a sequence, and what the table drops could not have come back: the newest of b
    appended to a depend on the newest of a only (`LastOfConcat`), and the newest of the
    newest are the newest (`LastOfTwice`).
  - DeliveredOnceInOrder. The invariant speaks of what was emitted and what is pending as
    one sequence (`Sent`), which a flush leaves as it is: an event a publisher holds
    between its two locks is its newest and nowhere else (`Holds`), and all others are in
    `Sent` or in what a clear() took, once (`Partition`).
* **PartsProofs** (of MCParts; the constants of all parts are free): the fourteen
  invariants of that run. The parts share nothing but the switch of the event tracer, so
  that one lemma (`PartSteps`) says that a step is one of the part or leaves it alone, and
  each part has an inductive invariant of its own:
  - NotificationsHold: a registration without a handle is known as such (`NotifyInv`), so
    that what a stop leaves behind is among what the property lets off.
  - LogIsTrue has four halves. Of a connection that was published and is still open,
    `TcpInv` says that the last snapshot has it; of drops, `DropsInv` says that for each
    counter in the last snapshot there was a true count with that remainder, at least
    what was published: the difference modulo the word, which may be less than what was
    dropped, is never more (`RiseIsReal`). Those of routes and of links are inductive as
    they stand.
  - LeavesNoTrace: the table is that of the others, of the saved routes, and of what netsh
    made by way of an adapter that Windows has; the saved ones are not the others'
    (`TraceInv`). ReadsItsSession: unless a join timed out, only the thread of
    the capture that is on or being stopped has not ended (`ReaderInv`); that is what
    allows main to close the session after the join.
  - PublishedExactlyOnce: cursor and queries have only passed records that are accounted
    for (`PassedAccounted`); and, unless a join timed out, a query still running finds
    only what is behind the cursor (`OnceInv`).
  - ButtonsTell: of the tests before the current one nothing more is heard, unless one of
    them was stopped or failed, and start is not enabled before that holds of the current
    one (`DiagInv`).
  - RatesAreTrue: since the mark that a tracker keeps of an interface, that interface has
    carried as much as its counter has risen, or more, and the clock has gone on as time
    has, unless it was set (`MarkIsTrue`, `RatesInv`).
  - PingsInOrder: all pings but
    the newest are cancelled, so that one that begins is the newest (`PingsInv`).
  - FirewallIsKnown: an unused key is nowhere (`UnusedIsNowhere`), a removal works off the
    list, and a second try by the display name means that something went wrong
    before (`JobOfList`).
  - HighlightsFollowRoutes is inductive with the types; the work is in what set_routes()
    computes from the last row of a key (`KeptIsShown`).
  - SceneMatchesGraph and ShowsNetwork are proved together (`SceneInv`). What a patch
    draws is the new graph only if the old scene was the old graph, each pen telling of its
    edge (`Draws`), and a graph that was
    built has its edges' ends among its nodes (`BuildIsWellFormed`). A node may know edges
    that are gone, but only such as ended at it.
  - FormTells: while the user has filled in nothing, each field is the selected route's or
    what one of three signals made of it (`FieldsInv`): the gateway once data have
    arrived, the interface once the gateway was left.
  - RateIsTrue: a reading that succeeded is the sum of the remainders of what its
    interfaces had sent (`RateInv`), so two sums differ by the true difference up to a
    multiple of the word.

What a recursive function computes can be proved after all where the recursion goes down
to a least element: the library's induction theorems cannot be applied, but the
well-foundedness of `<` on the naturals and `WFMin` give the least counterexample (`Least`,
`Greatest`, `SmallestOf`), which then refutes itself. In this way PartsProofs shows that
the finite sums of the packet monitor exist and are unique (`SumsExist`, `SumsAreOne`),
that one more summand adds to them, and what their remainders are (`WrappedTotal`).

Only model-checked, since they are liveness or about fairness: Ends, LockReturned, the
liveness half of KeepsPromise, Settles, CallsReturn, EventsReachTheLog. The type
invariants, RunningCoversCalls (`_running` is set around every call), PendingIsNewest
(the latest request wins) and the KeepsOutcome of the queue are proved and not run.

## 7. Not modelled, and the plan

What could come next, in this order:

1. Proofs of what the runs do not ask yet: that get() of the pipeline's cache entry is
   what CacheManager does with a key, so that the two models of it are one; and that
   each part implements an abstract specification, as the queue and the ring do.
2. Liveness of the parts: every notification is followed by network_changed, every ping by
   a result or an error, every removal of a rule ends.
3. The order of `closeEvent()` against services that still run; it is straight-line code
   that calls each service's stop(), which the parts model one by one.

Left out for good: ctypes structures and the conversion of what the system's readers
return (most of winapi_network.py); force layout (floating point), drawing, menus;
formatting, filters and export of event logs, icons; the proxy that sorts and filters the
route table; the table of processes beside the packet rates; parsing of captured packets;
elevation and Qt set-up in main.py; monitors that nothing creates
(process_monitor.py, security_monitor.py, strategy_engine.py, rtt_monitor.py,
route_monitor.py); network_cache.py, which nothing imports.
