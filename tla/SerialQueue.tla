---------------------------- MODULE SerialQueue ----------------------------
(***************************************************************************)
(* One named serial queue of TaskManager (services/task_manager.py):       *)
(* submit_serial() on the main thread, the pool thread that runs the       *)
(* queue's task, and the task's signals, delivered to the main thread      *)
(* through its event queue.  The queue's lock is a plain threading.Lock    *)
(* that is taken by submit_serial() and given back by a slot connected to  *)
(* the task's signals.                                                     *)
(*                                                                         *)
(* A request is one call of submit_serial(), numbered in the order of the  *)
(* calls; its runnable, if it ever gets one, carries the same number.      *)
(***************************************************************************)
EXTENDS Integers, Sequences

CONSTANTS NumRequests,  \* how many calls of submit_serial() are explored
          MaxCancels,   \* how many calls of cancel("serial_<queue>")
          FastTasks     \* a task may emit before its slots are connected

ASSUME NumRequestsAssumption == NumRequests \in Nat
ASSUME MaxCancelsAssumption == MaxCancels \in Nat
ASSUME FastTasksAssumption == FastTasks \in BOOLEAN

Requests == 1..NumRequests
None == 0

(* The slots a runnable's signals are connected to, in connection order:   *)
(* on_finished; then _release_and_check for a task started by              *)
(* submit_serial(), a lambda that only releases the lock for the one that  *)
(* _release_and_check itself starts.                                       *)
Slots == {"result", "release", "unlock"}
FirstRunSlots == <<"result", "release">>

\* mistakes: both kinds of slot on the second run; none that releases
RerunSlotsTwice == <<"result", "release", "unlock">>
RerunSlotsNoRelease == <<"result">>

RerunSlots == <<"result", "unlock">>

VARIABLES issued,     \* calls of submit_serial() so far
          status,     \* what became of each request
          cancelled,  \* the _cancelled event of each runnable
          slots,      \* the slots connected to each runnable's signals
          registered, \* _tasks["serial_<queue>"]
          lock,       \* _serial_locks[queue].locked()
          pending,    \* _serial_pending[queue]
          latest,     \* _serial_latest_fn[queue]
          todo,       \* connections the main thread has still to make
          mailbox,    \* slot calls posted to the main thread
          shown,      \* the request whose result on_finished got last
          down,       \* _shutting_down
          cancels,    \* calls of cancel() so far
          early       \* history: a task emitted before all its slots were connected

taskVars == <<status, cancelled, slots, registered>>
queueVars == <<lock, pending, latest>>
vars == <<issued, taskVars, queueVars, todo, mailbox, shown, down, cancels, early>>

(* "waiting": accepted while the queue was busy, no runnable yet; "pool":  *)
(* handed to the pool; "discarded": ended without a signal.                *)
Statuses == {"new", "refused", "waiting", "pool", "running",
             "finished", "error", "discarded"}

Connection == [task : Requests, slot : Slots]

TypeOK ==
    /\ issued \in 0..NumRequests
    /\ status \in [Requests -> Statuses]
    /\ cancelled \in [Requests -> BOOLEAN]
    /\ slots \in [Requests -> SUBSET Slots]
    /\ registered \in Requests \cup {None}
    /\ lock \in BOOLEAN
    /\ pending \in BOOLEAN
    /\ latest \in Requests \cup {None}
    /\ todo \in Seq(Connection)
    /\ mailbox \in Seq(Connection)
    /\ shown \in Requests \cup {None}
    /\ down \in BOOLEAN
    /\ cancels \in 0..MaxCancels
    /\ early \in BOOLEAN

Init ==
    /\ issued = 0
    /\ status = [r \in Requests |-> "new"]
    /\ cancelled = [r \in Requests |-> FALSE]
    /\ slots = [r \in Requests |-> {}]
    /\ registered = None
    /\ lock = FALSE
    /\ pending = FALSE
    /\ latest = None
    /\ todo = <<>>
    /\ mailbox = <<>>
    /\ shown = None
    /\ down = FALSE
    /\ cancels = 0
    /\ early = FALSE

(* The main thread is at its event loop, not inside a call that goes on.   *)
MainIdle == todo = <<>>

(* cancel() of the task registered under the queue's id, if there is one.  *)
CancelRegistered ==
    cancelled' = [r \in Requests |-> cancelled[r] \/ r = registered]

(* submit(): cancel and replace the task of the same id, pool.start(); the *)
(* caller goes on to connect the runnable's signals.                       *)
Submit(r, plan) ==
    /\ CancelRegistered
    /\ registered' = r
    /\ status' = [status EXCEPT ![r] = "pool"]
    /\ todo' = [i \in DOMAIN plan |-> [task |-> r, slot |-> plan[i]]]
    /\ UNCHANGED slots

-----------------------------------------------------------------------------
(* main thread                                                              *)

RequestRefused(r) ==
    /\ down
    /\ status' = [status EXCEPT ![r] = "refused"]
    /\ UNCHANGED <<cancelled, slots, registered, queueVars, todo>>

\* mistake: the lock is not looked at
RequestUnlocked(r) ==
    /\ ~down
    /\ lock' = TRUE
    /\ pending' = FALSE
    /\ latest' = None
    /\ Submit(r, FirstRunSlots)

\* mistake: what an earlier request left pending is not forgotten
RequestIdleKeepsPending(r) ==
    /\ ~down
    /\ ~lock
    /\ lock' = TRUE
    /\ UNCHANGED <<pending, latest>>
    /\ Submit(r, FirstRunSlots)

RequestIdle(r) ==
    /\ ~down
    /\ ~lock
    /\ lock' = TRUE
    /\ pending' = FALSE
    /\ latest' = None
    /\ Submit(r, FirstRunSlots)

RequestBusy(r) ==
    /\ ~down
    /\ lock
    /\ pending' = TRUE
    /\ latest' = r
    /\ status' = [status EXCEPT ![r] = "waiting"]
    /\ UNCHANGED <<cancelled, slots, registered, lock, todo>>

Request(r) ==
    /\ MainIdle
    /\ r = issued + 1
    /\ issued' = r
    /\ RequestRefused(r) \/ RequestIdle(r) \/ RequestBusy(r)
    /\ UNCHANGED <<mailbox, shown, down, cancels, early>>

Connect ==
    /\ todo # <<>>
    /\ slots' = [slots EXCEPT ![Head(todo).task] = @ \cup {Head(todo).slot}]
    /\ todo' = Tail(todo)
    /\ UNCHANGED <<issued, status, cancelled, registered, queueVars, mailbox,
                   shown, down, cancels, early>>


(* The slots run on the main thread, in the order they were posted.        *)
DeliverResult(r) ==
    /\ shown' = r
    /\ UNCHANGED <<taskVars, queueVars, todo>>

(* _release_and_check without a pending request, and the lambda of a       *)
(* second run, which does not look at _serial_pending.                     *)
Unlock ==
    /\ lock' = FALSE
    /\ UNCHANGED <<taskVars, pending, latest, todo>>

(* _release_and_check with one: release, acquire again, run the latest.    *)
(* During a shutdown submit() raises, and the lock stays taken.            *)
Rerun ==
    /\ pending' = FALSE
    /\ latest' = None
    /\ lock' = TRUE
    /\ IF latest # None /\ ~down
       THEN Submit(latest, RerunSlots)
       ELSE UNCHANGED <<taskVars, todo>>

ReleaseAndCheck ==
    \/ pending /\ Rerun
    \/ ~pending /\ Unlock

Deliver ==
    /\ MainIdle
    /\ mailbox # <<>>
    /\ mailbox' = Tail(mailbox)
    /\ LET c == Head(mailbox) IN
       \/ c.slot = "result" /\ DeliverResult(c.task)
       \/ c.slot = "release" /\ ReleaseAndCheck /\ UNCHANGED shown
       \/ c.slot = "unlock" /\ Unlock /\ UNCHANGED shown
    /\ UNCHANGED <<issued, down, cancels, early>>

(* cancel() pops the task from _tasks.                                      *)
Cancel ==
    /\ MainIdle
    /\ cancels < MaxCancels
    /\ registered # None
    /\ CancelRegistered
    /\ registered' = None
    /\ cancels' = cancels + 1
    /\ UNCHANGED <<issued, status, slots, queueVars, todo, mailbox, shown, down,
                   early>>

(* shutdown() refuses new tasks, stops the periodic and dedicated tasks,   *)
(* and then cancels what is registered.  It keeps the main thread busy all *)
(* the while, so that no slot runs in between, and pool threads do not     *)
(* look at the flag.                                                       *)
Shutdown ==
    /\ MainIdle
    /\ ~down
    /\ down' = TRUE
    /\ CancelRegistered
    /\ registered' = None
    /\ UNCHANGED <<issued, status, slots, queueVars, todo, mailbox, shown, cancels,
                   early>>

-----------------------------------------------------------------------------
(* pool thread: TaskRunnable.run(), as TaskOutcome abstracts it             *)

WorkerVarsUnchanged ==
    UNCHANGED <<issued, cancelled, slots, registered, queueVars, todo, shown,
                down, cancels>>

Begin(r) ==
    /\ status[r] = "pool"
    /\ status' = [status EXCEPT ![r] = IF cancelled[r] THEN "discarded" ELSE "running"]
    /\ UNCHANGED <<mailbox, early>>
    /\ WorkerVarsUnchanged

(* fn came back.  Emitting posts a call of each slot connected by then,    *)
(* in connection order; on_finished is connected to finished only.         *)
Post(r, slot, posted) ==
    IF posted /\ slot \in slots[r] THEN <<[task |-> r, slot |-> slot]>> ELSE <<>>

Emission(r, outcome) ==
    Post(r, "result", outcome = "finished") \o Post(r, "release", TRUE)
                                           \o Post(r, "unlock", TRUE)

Connecting(r) == \E i \in DOMAIN todo : todo[i].task = r

Emit(r, outcome) ==
    /\ status[r] = "running"
    /\ ~cancelled[r]
    /\ FastTasks \/ ~Connecting(r)
    /\ early' = (early \/ Connecting(r))
    /\ status' = [status EXCEPT ![r] = outcome]
    /\ mailbox' = mailbox \o Emission(r, outcome)
    /\ WorkerVarsUnchanged

EndCancelled(r) ==
    /\ status[r] = "running"
    /\ cancelled[r]
    /\ status' = [status EXCEPT ![r] = "discarded"]
    /\ UNCHANGED <<mailbox, early>>
    /\ WorkerVarsUnchanged

Worker(r) ==
    \/ Begin(r)
    \/ \E outcome \in {"finished", "error"} : Emit(r, outcome)
    \/ EndCancelled(r)

-----------------------------------------------------------------------------
Next ==
    \/ \E r \in Requests : Request(r)
    \/ Connect
    \/ Deliver
    \/ Cancel
    \/ Shutdown
    \/ \E r \in Requests : Worker(r)

(* The main thread finishes the call it is in and keeps serving its event  *)
(* queue; the pool has a thread for the task and fn comes back.  Nobody    *)
(* has to submit, cancel or shut down.                                     *)
Fairness ==
    /\ WF_vars(Connect)
    /\ WF_vars(Deliver)
    /\ \A r \in Requests : WF_vars(Worker(r))

Spec == Init /\ [][Next]_vars /\ Fairness

-----------------------------------------------------------------------------
(* Properties                                                               *)

Releases == {"release", "unlock"}

(* "Only one task per queue runs at a time" (line 344), whatever happens   *)
(* to signals, cancellations and second runs.                              *)
MutualExclusion ==
    \A r, q \in Requests : status[r] = "running" /\ status[q] = "running" => r = q

(* The slots that give the lock back run once per acquisition: one that    *)
(* is posted finds the lock taken (release() of an unlocked Lock raises),  *)
(* is the only one, and no task of the queue is left to run beside it.     *)
ReleasesOwnLock ==
    \A i \in DOMAIN mailbox :
        mailbox[i].slot \in Releases =>
            /\ lock
            /\ \A r \in Requests : status[r] \notin {"pool", "running"}
            /\ \A j \in DOMAIN mailbox : mailbox[j].slot \in Releases => j = i

(* latest-one-wins (line 348): what is pending is the newest request that  *)
(* was accepted, so that a second run never brings back an older one.      *)
PendingIsNewest ==
    pending => /\ latest # None
               /\ status[latest] = "waiting"
               /\ \A r \in Requests : r > latest => status[r] \in {"new", "refused"}

(* The results reach on_finished in the order of the requests: the table   *)
(* is never overwritten by the result of an earlier refresh.               *)
ResultsInOrder == [][shown' >= shown]_vars

(* Each runnable of the queue behaves as TaskOutcome says a task does.     *)
Reported == {"finished", "error"}
PhaseOf(r) ==
    IF status[r] = "running" THEN "running"
    ELSE IF status[r] \in Reported \cup {"discarded"} THEN "ended" ELSE "queued"
SignalOf(r) == IF status[r] \in Reported THEN status[r] ELSE "none"

Outcome(r) == INSTANCE TaskOutcome WITH
    phase <- PhaseOf(r), cancelled <- cancelled[r], signal <- SignalOf(r)

KeepsOutcome ==
    [][\A r \in Requests : [Outcome(r)!Next]_(Outcome(r)!vars)]_vars

(* A taken lock is given back, so that the queue accepts a task again,     *)
(* unless its task was cancelled (cancel(), shutdown()) or emitted before  *)
(* the slots that give the lock back were connected (lines 386-393).       *)
LockReturned == lock ~> (~lock \/ down \/ cancels > 0 \/ early)

(* submit_serial() documents: "If a task is already running on this queue, *)
(* the new one is marked pending and submitted automatically when the      *)
(* current task finishes".  So when no task is left, none is pending.      *)
QueueAtRest ==
    /\ ~lock
    /\ MainIdle
    /\ mailbox = <<>>
    /\ \A r \in Requests : status[r] \notin {"pool", "running"}

NonePendingAtRest == QueueAtRest => ~pending
=============================================================================
