---------------------------- MODULE TaskRunnable ----------------------------
(***************************************************************************)
(* One TaskRunnable (services/task_manager.py): run() in a pool thread,    *)
(* step by step, against cancel() and wait() from other threads.  A step   *)
(* ends where another thread can observe or change what run() reads: the   *)
(* _cancelled event, the _running event, the clock, the two signals.       *)
(***************************************************************************)
EXTENDS Integers

CONSTANTS Retry,       \* the retry argument of submit()
          HasTimeout   \* the timeout argument is positive

ASSUME RetryAssumption == Retry \in Nat
ASSUME HasTimeoutAssumption == HasTimeout \in BOOLEAN

Attempts == 1 + Retry

VARIABLES pc,         \* where run() stands
          attempt,    \* the value of the loop variable, Attempts after the loop
          calls,      \* how many times fn was called
          overdue,    \* monotonic() - _start_time exceeds the timeout
          cancelled,  \* the _cancelled event
          running,    \* the _running event
          error,      \* _error: "none", "timeout" or "failure"
          signal,     \* the signal emitted so far
          waiter      \* a thread's wait(timeout): "out", "waiting", "true", "false"

vars == <<pc, attempt, calls, overdue, cancelled, running, error, signal, waiter>>

Steps == {"queued", "entered", "loop", "calling", "returned", "raised",
          "sleeping", "exhausted", "timedOut", "emitted", "ended"}

TypeOK ==
    /\ pc \in Steps
    /\ attempt \in 0..Attempts
    /\ calls \in 0..Attempts
    /\ overdue \in BOOLEAN
    /\ cancelled \in BOOLEAN
    /\ running \in BOOLEAN
    /\ error \in {"none", "timeout", "failure"}
    /\ signal \in {"none", "finished", "error"}
    /\ waiter \in {"out", "waiting", "true", "false"}

Init ==
    /\ pc = "queued"
    /\ attempt = 0
    /\ calls = 0
    /\ overdue = FALSE
    /\ cancelled = FALSE
    /\ running = FALSE
    /\ error = "none"
    /\ signal = "none"
    /\ waiter = "out"

-----------------------------------------------------------------------------
(* run(), in a pool thread                                                  *)

(* Setting the _running event wakes whoever is in its wait().               *)
Enter ==
    /\ pc = "queued"
    /\ running' = TRUE
    /\ pc' = "entered"
    /\ waiter' = IF waiter = "waiting" THEN "true" ELSE waiter
    /\ UNCHANGED <<attempt, calls, overdue, cancelled, error, signal>>

EntryCheck ==
    /\ pc = "entered"
    /\ IF cancelled
       THEN pc' = "ended" /\ running' = FALSE
       ELSE pc' = "loop" /\ UNCHANGED running
    /\ UNCHANGED <<attempt, calls, overdue, cancelled, error, signal, waiter>>

(* What the head of the loop does when the range has n attempts and the     *)
(* cancelled flag reads c.                                                  *)
LoopStep(n, c) ==
    /\ pc = "loop"
    /\ \/ attempt = n /\ pc' = "exhausted"
       \/ attempt < n /\ c /\ pc' = "exhausted"
       \/ attempt < n /\ ~c /\ HasTimeout /\ overdue /\ pc' = "timedOut"
       \/ attempt < n /\ ~c /\ ~(HasTimeout /\ overdue) /\ pc' = "calling"
    /\ error' = IF pc' = "timedOut" THEN "timeout" ELSE error
    /\ UNCHANGED <<attempt, calls, overdue, cancelled, running, signal, waiter>>

\* mistakes: range(retry); no check of _cancelled
LoopTopOneLess == LoopStep(Retry, cancelled)
LoopTopNoCancel == LoopStep(Attempts, FALSE)

LoopTop == LoopStep(Attempts, cancelled)

Call ==
    /\ pc = "calling"
    /\ calls' = calls + 1
    /\ \/ pc' = "returned" /\ error' = "none"
       \/ pc' = "raised" /\ UNCHANGED error
    /\ UNCHANGED <<attempt, overdue, cancelled, running, signal, waiter>>

AfterRaise ==
    /\ pc = "raised"
    /\ attempt' = attempt + 1
    /\ pc' = IF attempt < Attempts - 1 /\ ~cancelled THEN "sleeping" ELSE "loop"
    /\ UNCHANGED <<calls, overdue, cancelled, running, error, signal, waiter>>

\* mistake: waits on _cancelled in place of time.sleep, without a timeout
SleepUntilCancelled ==
    /\ pc = "sleeping"
    /\ cancelled
    /\ pc' = "loop"
    /\ UNCHANGED <<attempt, calls, overdue, cancelled, running, error, signal, waiter>>

Sleep ==
    /\ pc = "sleeping"
    /\ pc' = "loop"
    /\ UNCHANGED <<attempt, calls, overdue, cancelled, running, error, signal, waiter>>

(* The check of _cancelled and the emission that follows it are one step:  *)
(* a cancel() between the two is a cancel() after the emission.            *)
Emit(at, s) ==
    /\ pc = at
    /\ signal' = IF cancelled THEN signal ELSE s
    /\ error' = IF at = "exhausted" THEN "failure" ELSE error
    /\ pc' = "emitted"
    /\ UNCHANGED <<attempt, calls, overdue, cancelled, running, waiter>>

EmitFinished == Emit("returned", "finished")

\* mistake: the return of line 120 is missing
EmitTimeoutNoReturn ==
    /\ pc = "timedOut"
    /\ signal' = IF cancelled THEN signal ELSE "error"
    /\ pc' = "calling"
    /\ UNCHANGED <<attempt, calls, overdue, cancelled, running, error, waiter>>

EmitTimeout == Emit("timedOut", "error")
EmitError == Emit("exhausted", "error")

Clear ==
    /\ pc = "emitted"
    /\ running' = FALSE
    /\ pc' = "ended"
    /\ UNCHANGED <<attempt, calls, overdue, cancelled, error, signal, waiter>>

-----------------------------------------------------------------------------
(* other threads, and the clock                                             *)

Cancel ==
    /\ ~cancelled
    /\ cancelled' = TRUE
    /\ UNCHANGED <<pc, attempt, calls, overdue, running, error, signal, waiter>>

TimePasses ==
    /\ HasTimeout
    /\ ~overdue
    /\ pc \in Steps \ {"queued", "ended"}
    /\ overdue' = TRUE
    /\ UNCHANGED <<pc, attempt, calls, cancelled, running, error, signal, waiter>>

Wait ==
    /\ waiter = "out"
    /\ waiter' = IF running THEN "true" ELSE "waiting"
    /\ UNCHANGED <<pc, attempt, calls, overdue, cancelled, running, error, signal>>

WaitTimesOut ==
    /\ waiter = "waiting"
    /\ waiter' = "false"
    /\ UNCHANGED <<pc, attempt, calls, overdue, cancelled, running, error, signal>>

-----------------------------------------------------------------------------
Run ==
    \/ Enter \/ EntryCheck \/ LoopTop \/ Call \/ AfterRaise \/ Sleep
    \/ EmitFinished \/ EmitTimeout \/ EmitError \/ Clear

Next ==
    \/ Run
    \/ Cancel
    \/ TimePasses
    \/ Wait
    \/ WaitTimesOut

(* The pool gives the runnable a thread and fn returns or raises: the      *)
(* worker does not stop half way.  Nothing is assumed of the others.       *)
Spec == Init /\ [][Next]_vars /\ WF_vars(Run)

-----------------------------------------------------------------------------
(* Properties                                                               *)

(* run() (lines 99-139) with all its retries, timeout checks and early      *)
(* returns keeps the promise of TaskOutcome: cancelled in the pool means    *)
(* fn is never reached, not cancelled means exactly one signal.             *)
phase ==
    IF pc \in {"queued", "entered"} THEN "queued"
    ELSE IF pc \in {"emitted", "ended"} THEN "ended" ELSE "running"

Outcome == INSTANCE TaskOutcome

KeepsOutcome == Outcome!Spec

(* The error signal is given up to last: it means that every attempt was    *)
(* made and failed, or that the deadline passed between two attempts.       *)
ErrorMeansAllTried ==
    signal = "error" => \/ calls = Attempts
                        \/ error = "timeout" /\ overdue

(* Whatever way run() ends (lines 105, 119, 127, 139) _running is cleared,  *)
(* and it is set all the time fn may be executing: PeriodicTaskMgr._tick    *)
(* reads it to decide whether the previous execution is over.               *)
RunningCoversCalls ==
    /\ pc \in {"calling", "returned", "raised", "sleeping"} => running
    /\ pc = "ended" => ~running

(* A cancelled task stops at its next step that reads _cancelled: at most   *)
(* the call of fn in progress still completes, no other one begins.         *)
NoNewAttemptAfterCancel ==
    [][cancelled /\ pc' = "calling" => pc = "calling"]_vars

(* Every task handed to the pool leaves it, reported or cancelled.          *)
Ends == <>(pc = "ended")

(* wait() (lines 95-97) is documented "Wait for this task to complete.      *)
(* Returns True if completed.": nobody is left waiting on one that has      *)
(* completed and emitted its result.                                        *)
NoWaitOnCompleted == ~(waiter = "waiting" /\ pc = "ended" /\ signal = "finished")
=============================================================================
