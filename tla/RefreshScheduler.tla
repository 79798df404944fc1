-------------------------- MODULE RefreshScheduler --------------------------
(***************************************************************************)
(* RefreshScheduler (services/refresh_scheduler.py): mark_dirty() from any *)
(* thread, the queued _dispatch signal, the single-shot debounce timer on  *)
(* the main thread, force_refresh() and cancel().                          *)
(*                                                                         *)
(* mark_dirty() is two steps, since its lock is released before _dispatch  *)
(* is emitted.  The length of the debounce window is not modelled: a timer *)
(* that runs may fire at any time, before or after the dispatches that are *)
(* waiting in the main thread's event queue.                               *)
(***************************************************************************)
EXTENDS Naturals

CONSTANTS Threads,    \* the threads that call mark_dirty()
          Main,       \* the Qt main thread, one of them
          MaxMarks,   \* how many calls of mark_dirty() are explored
          MaxOrders   \* how many calls of force_refresh() and cancel()

ASSUME MainAssumption == Main \in Threads
ASSUME MaxMarksAssumption == MaxMarks \in Nat
ASSUME MaxOrdersAssumption == MaxOrders \in Nat

VARIABLES dirty,       \* _dirty
          marking,     \* threads between the lock and the emit of mark_dirty()
          dispatches,  \* _dispatch signals in the main thread's event queue
          timer,       \* _timer.isActive()
          refreshes,   \* emissions of refresh_requested
          marks,       \* calls of mark_dirty() so far
          orders       \* calls of force_refresh() and cancel() so far

schedulerVars == <<dirty, marking, dispatches, timer, refreshes>>
vars == <<schedulerVars, marks, orders>>

TypeOK ==
    /\ dirty \in BOOLEAN
    /\ marking \in SUBSET Threads
    /\ dispatches \in Nat
    /\ timer \in BOOLEAN
    /\ refreshes \in Nat
    /\ marks \in 0..MaxMarks
    /\ orders \in 0..MaxOrders

SchedulerInit ==
    /\ dirty = FALSE
    /\ marking = {}
    /\ dispatches = 0
    /\ timer = FALSE
    /\ refreshes = 0

Init ==
    /\ SchedulerInit
    /\ marks = 0
    /\ orders = 0

(* The main thread is in its event loop, not inside mark_dirty().          *)
MainIdle == Main \notin marking

-----------------------------------------------------------------------------
(* mark_dirty()                                                             *)

SetDirty(t) ==
    /\ t \notin marking
    /\ dirty' = TRUE
    /\ marking' = marking \cup {t}
    /\ UNCHANGED <<dispatches, timer, refreshes>>

Post(t) ==
    /\ t \in marking
    /\ marking' = marking \ {t}
    /\ dispatches' = dispatches + 1
    /\ UNCHANGED <<dirty, timer, refreshes>>

-----------------------------------------------------------------------------
(* main thread                                                              *)

OnDispatch ==
    /\ MainIdle
    /\ dispatches > 0
    /\ dispatches' = dispatches - 1
    /\ timer' = TRUE
    /\ UNCHANGED <<dirty, marking, refreshes>>

\* mistake: emits without looking at _dirty
FlushAlways ==
    /\ MainIdle
    /\ timer
    /\ timer' = FALSE
    /\ dirty' = FALSE
    /\ refreshes' = refreshes + 1
    /\ UNCHANGED <<marking, dispatches>>

(* The timer has expired; it is a single shot.                             *)
FlushDirty ==
    /\ MainIdle
    /\ timer
    /\ dirty
    /\ timer' = FALSE
    /\ dirty' = FALSE
    /\ refreshes' = refreshes + 1
    /\ UNCHANGED <<marking, dispatches>>

FlushClean ==
    /\ MainIdle
    /\ timer
    /\ ~dirty
    /\ timer' = FALSE
    /\ UNCHANGED <<dirty, marking, dispatches, refreshes>>

ForceRefresh ==
    /\ MainIdle
    /\ dirty' = FALSE
    /\ timer' = FALSE
    /\ refreshes' = refreshes + 1
    /\ UNCHANGED <<marking, dispatches>>

\* mistake: stops the timer and leaves _dirty
CancelTimerOnly ==
    /\ MainIdle
    /\ timer' = FALSE
    /\ UNCHANGED <<dirty, marking, dispatches, refreshes>>

Cancel ==
    /\ MainIdle
    /\ dirty' = FALSE
    /\ timer' = FALSE
    /\ UNCHANGED <<marking, dispatches, refreshes>>

-----------------------------------------------------------------------------
Mark(t) ==
    /\ marks < MaxMarks
    /\ marks' = marks + 1
    /\ SetDirty(t)
    /\ UNCHANGED orders

Order ==
    /\ orders < MaxOrders
    /\ orders' = orders + 1
    /\ ForceRefresh \/ Cancel
    /\ UNCHANGED marks

Step ==
    /\ \/ \E t \in Threads : Post(t)
       \/ OnDispatch
       \/ FlushDirty
       \/ FlushClean
    /\ UNCHANGED <<marks, orders>>

Next ==
    \/ \E t \in Threads : Mark(t)
    \/ Order
    \/ Step

(* A thread completes its mark_dirty(), the main thread serves its event   *)
(* queue, and a timer that is not restarted any more fires: the calls that *)
(* restart it come to an end, MaxMarks bounds them.                        *)
Fairness ==
    /\ \A t \in Threads : WF_vars(Post(t) /\ UNCHANGED <<marks, orders>>)
    /\ WF_vars(OnDispatch /\ UNCHANGED <<marks, orders>>)
    /\ WF_vars((FlushDirty \/ FlushClean) /\ UNCHANGED <<marks, orders>>)

Spec == Init /\ [][Next]_vars /\ Fairness

-----------------------------------------------------------------------------
(* Properties                                                               *)

(* No notification is lost between the lock of mark_dirty() and the timer: *)
(* while _dirty is set (lines 84-86) some thread is about to emit, or a    *)
(* dispatch is in the queue, or the timer runs.                            *)
NoLostMark == dirty => \/ marking # {}
                       \/ dispatches > 0
                       \/ timer

(* The scheduler keeps the promise of RefreshPromise: each reported change *)
(* is followed by a refresh, unless ordered otherwise, and bursts are      *)
(* merged: a refresh that comes from the timer covers a new report.        *)
Promise == INSTANCE RefreshPromise WITH owed <- dirty

KeepsPromise == Promise!Spec
=============================================================================
