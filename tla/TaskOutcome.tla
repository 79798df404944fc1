---------------------------- MODULE TaskOutcome ----------------------------
(***************************************************************************)
(* What services/task_manager.py promises of one submitted task, whatever  *)
(* its retries and timeouts: a task cancelled while it waits in the pool   *)
(* never runs and never reports; a task that runs reports exactly once,    *)
(* unless it was cancelled, in which case it may end silently.             *)
(***************************************************************************)

VARIABLES phase,      \* "queued" in the pool, "running" in a worker, "ended"
          cancelled,  \* cancel() has been called
          signal      \* which of the two TaskSignals was emitted

vars == <<phase, cancelled, signal>>

TypeOK ==
    /\ phase \in {"queued", "running", "ended"}
    /\ cancelled \in BOOLEAN
    /\ signal \in {"none", "finished", "error"}

Init ==
    /\ phase = "queued"
    /\ cancelled = FALSE
    /\ signal = "none"

Cancel ==
    /\ cancelled' = TRUE
    /\ UNCHANGED <<phase, signal>>

Begin ==
    /\ phase = "queued"
    /\ ~cancelled
    /\ phase' = "running"
    /\ UNCHANGED <<cancelled, signal>>

Discard ==
    /\ phase = "queued"
    /\ cancelled
    /\ phase' = "ended"
    /\ UNCHANGED <<cancelled, signal>>

Report(s) ==
    /\ phase = "running"
    /\ phase' = "ended"
    /\ signal' = s
    /\ UNCHANGED cancelled

EndSilently ==
    /\ phase = "running"
    /\ cancelled
    /\ phase' = "ended"
    /\ UNCHANGED <<cancelled, signal>>

Next ==
    \/ Cancel
    \/ Begin
    \/ Discard
    \/ \E s \in {"finished", "error"} : Report(s)
    \/ EndSilently

Spec == Init /\ [][Next]_vars
=============================================================================
