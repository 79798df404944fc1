----------------------------- MODULE DedicatedTask -----------------------------
(***************************************************************************)
(* DedicatedTask of task_manager.py: a thread of its own that calls a poll *)
(* function in a loop until its stop event is set.  Every start makes a    *)
(* new object with an event of its own; stop() waits for the thread for a  *)
(* limited time, after which an old loop may still be inside its poll when *)
(* a new one starts.  What a poll does is up to the module that            *)
(* instantiates this one and shares the variables.                         *)
(***************************************************************************)
EXTENDS Naturals

CONSTANT MaxLoops     \* bound on the objects that are ever started

VARIABLES loop,       \* where each thread is: "new", "tests", "polls", "over"
          stopSet,    \* the objects whose _stop_event is set
          started     \* how many objects were started; the last is the current one

Loops == 1..MaxLoops

LoopInit ==
    /\ loop = [l \in Loops |-> "new"]
    /\ stopSet = {}
    /\ started = 0

\* start_dedicated()
LoopStarts ==
    /\ started < MaxLoops
    /\ started' = started + 1
    /\ loop' = [loop EXCEPT ![started + 1] = "tests"]
    /\ UNCHANGED stopSet

\* The loop: while the event is not set, poll, then wait for the interval.
PollBegins(l) ==
    /\ loop[l] = "tests" /\ l \notin stopSet
    /\ loop' = [loop EXCEPT ![l] = "polls"]
    /\ UNCHANGED <<stopSet, started>>

PollEnds(l) ==
    /\ loop[l] = "polls"
    /\ loop' = [loop EXCEPT ![l] = "tests"]
    /\ UNCHANGED <<stopSet, started>>

LoopEnds(l) ==
    /\ loop[l] = "tests" /\ l \in stopSet
    /\ loop' = [loop EXCEPT ![l] = "over"]
    /\ UNCHANGED <<stopSet, started>>

\* stop(): the event is set, then the thread is joined, or it is too slow.
StopIsSet ==
    /\ started > 0
    /\ stopSet' = stopSet \cup {started}
    /\ UNCHANGED <<loop, started>>

Joined == loop[started] = "over"
JoinTimesOut == loop[started] \in {"tests", "polls"}
===============================================================================
