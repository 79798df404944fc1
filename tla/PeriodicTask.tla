----------------------------- MODULE PeriodicTask -----------------------------
(***************************************************************************)
(* PeriodicTaskMgr of task_manager.py: a timer on the main thread that, at *)
(* each tick, gives the pool a TaskRunnable of the same function, unless   *)
(* the one before is running.  Ticks, and the steps of the runnables that  *)
(* are in the pool at the same time, interleave.  What the function does   *)
(* is up to the module that uses this one.                                 *)
(***************************************************************************)
EXTENDS Naturals

CONSTANT MaxTicks      \* bound on the runnables that are ever submitted

ASSUME PeriodicAssumption == MaxTicks \in Nat

Ticks == 1..MaxTicks   \* the runnables, in the order of submission
NoTick == 0

VARIABLES timer,       \* QTimer active and _running: always set together
          current,     \* _current_task
          ticks,       \* where each runnable is: "new", "queued", "running", "over"
          cancelled    \* runnables whose cancel() was called

periodicVars == <<timer, current, ticks, cancelled>>

PeriodicInit ==
    /\ timer = FALSE
    /\ current = NoTick
    /\ ticks = [t \in Ticks |-> "new"]
    /\ cancelled = {}

\* schedule_periodic(): a new manager, started; the one before was stopped.
Schedule ==
    /\ timer' = TRUE
    /\ current' = NoTick
    /\ UNCHANGED <<ticks, cancelled>>

\* stop(): cancels the current runnable only.
StopPeriodic ==
    /\ timer' = FALSE
    /\ cancelled' = cancelled \cup ({current} \ {NoTick})
    /\ current' = NoTick
    /\ UNCHANGED ticks

\* is_running of a task is an event that its thread sets when run() begins: a
\* runnable that waits for a thread of the pool does not count as running.
CurrentRuns == current # NoTick /\ ticks[current] = "running"

\* _tick(), on a manager that runs.
Tick ==
    /\ timer
    /\ ~CurrentRuns
    /\ \E t \in Ticks :
        /\ ticks[t] = "new" /\ \A s \in 1..(t - 1) : ticks[s] # "new"
        /\ ticks' = [ticks EXCEPT ![t] = "queued"]
        /\ current' = t
    /\ UNCHANGED <<timer, cancelled>>

\* The pool starts a runnable; run() drops it if it was cancelled before.
Dropped(t) ==
    /\ ticks[t] = "queued" /\ t \in cancelled
    /\ ticks' = [ticks EXCEPT ![t] = "over"]
    /\ UNCHANGED <<timer, current, cancelled>>

Begun(t) ==
    /\ ticks[t] = "queued" /\ t \notin cancelled
    /\ ticks' = [ticks EXCEPT ![t] = "running"]
    /\ UNCHANGED <<timer, current, cancelled>>

Ended(t) ==
    /\ ticks[t] = "running"
    /\ ticks' = [ticks EXCEPT ![t] = "over"]
    /\ UNCHANGED <<timer, current, cancelled>>
===============================================================================
