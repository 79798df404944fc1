-------------------------------- MODULE NetDiag --------------------------------
(***************************************************************************)
(* The panel that runs ping, tracert and pathping.  A test is a task of    *)
(* the pool that reads the tool's output and sends it line by line, by     *)
(* signals that wait in the main thread's queue.  Stopping a test cancels  *)
(* its task, which has no effect once it runs: the tool goes on, and its   *)
(* signals stay connected to the panel.                                    *)
(***************************************************************************)
EXTENDS Naturals, Sequences, SequencesExt

CONSTANTS MaxTests,     \* bound on the tests that are started
          MaxPosted     \* bound on the signals that wait

ASSUME NetDiagAssumption == MaxTests \in Nat /\ MaxPosted \in Nat

VARIABLES test,         \* where each task is
          aborted,      \* tasks whose cancel() was called
          lastTest,     \* the test of _signals, or none
          task,         \* _current_task
          startOn, stopOn,     \* the buttons
          posted,       \* signals that wait, as test and kind
          \* History.
          delivered,    \* the finished signals that were handled
          stopped,      \* tests that were stopped or cancelled by a new start
          erred,        \* tests that sent an error
          crossed       \* a signal of an earlier test was handled in the current one

diagVars == <<test, aborted, lastTest, task, startOn, stopOn, posted, delivered,
              stopped, erred, crossed>>
panelVars == <<lastTest, task, startOn, stopOn, delivered, stopped, crossed>>

Tests == 1..MaxTests
NoTest == 0

DiagInit ==
    /\ test = [t \in Tests |-> "new"]
    /\ aborted = {}
    /\ lastTest = NoTest /\ task = NoTest
    /\ startOn = TRUE /\ stopOn = FALSE
    /\ posted = <<>>
    /\ delivered = {} /\ stopped = {} /\ erred = {}
    /\ crossed = FALSE

\* _start_test().  The same tool and target give the same task id, and submit()
\* cancels the task that had it before.
StartTest ==
    /\ startOn
    /\ \E t \in Tests :
        /\ test[t] = "new" /\ \A s \in 1..(t - 1) : test[s] # "new"
        /\ test' = [test EXCEPT ![t] = "queued"]
        /\ lastTest' = t
        /\ task' = t
        /\ \E sameId \in SUBSET {s \in Tests : test[s] \notin {"new", "over"}} :
            /\ aborted' = aborted \cup sameId
            /\ stopped' = stopped \cup sameId
    /\ startOn' = FALSE
    /\ stopOn' = TRUE
    /\ crossed' = FALSE
    /\ UNCHANGED <<posted, delivered, erred>>

\* _stop_test()
StopTest ==
    /\ stopOn
    /\ aborted' = aborted \cup ({task} \ {NoTest})
    /\ stopped' = stopped \cup {lastTest}
    /\ task' = NoTest
    /\ startOn' = TRUE /\ stopOn' = FALSE
    /\ UNCHANGED <<test, lastTest, posted, delivered, erred, crossed>>

\* run() of the task, then _run_diag().
TestDropped(t) ==
    /\ test[t] = "queued" /\ t \in aborted
    /\ test' = [test EXCEPT ![t] = "over"]
    /\ UNCHANGED <<aborted, panelVars, posted, erred>>

Post(t, kind) == /\ Len(posted) < MaxPosted
                 /\ posted' = Append(posted, [of |-> t, kind |-> kind])

TestBegins(t) ==
    /\ test[t] = "queued" /\ t \notin aborted
    /\ test' = [test EXCEPT ![t] = "prints"]
    /\ Post(t, "line")
    /\ UNCHANGED <<aborted, panelVars, erred>>

TestPrints(t) ==
    /\ test[t] = "prints"
    /\ Post(t, "line")
    /\ UNCHANGED <<test, aborted, panelVars, erred>>

\* The tool is not there, or its output cannot be read.
TestFails(t) ==
    /\ test[t] = "prints"
    /\ test' = [test EXCEPT ![t] = "fails"]
    /\ erred' = erred \cup {t}
    /\ Post(t, "error")
    /\ UNCHANGED <<aborted, panelVars>>

\* mistake: finished is sent when the process ends, with output still unread.
TestEndsEarly(t) ==
    /\ test[t] \in {"prints", "fails"}
    /\ t \notin {s.of : s \in {x \in Range(posted) : x.kind = "finished"}}
    /\ \E rest \in {"prints", "over"} : test' = [test EXCEPT ![t] = rest]
    /\ Post(t, "finished")
    /\ UNCHANGED <<aborted, panelVars, erred>>

\* finally:
TestEnds(t) ==
    /\ test[t] \in {"prints", "fails"}
    /\ test' = [test EXCEPT ![t] = "over"]
    /\ Post(t, "finished")
    /\ UNCHANGED <<aborted, panelVars, erred>>

\* _on_output(), _on_finished() or _on_error(), which calls _on_finished().
Deliver ==
    /\ posted # <<>>
    /\ posted' = Tail(posted)
    /\ LET s == Head(posted) IN
        /\ crossed' = (crossed \/ s.of # lastTest)
        /\ startOn' = (startOn \/ s.kind # "line")
        /\ stopOn' = (stopOn /\ s.kind = "line")
        /\ delivered' = IF s.kind = "finished" THEN delivered \cup {s.of} ELSE delivered
    /\ UNCHANGED <<test, aborted, lastTest, task, stopped, erred>>

DiagNext ==
    \/ StartTest \/ StopTest \/ Deliver
    \/ \E t \in Tests : \/ TestDropped(t) \/ TestBegins(t) \/ TestPrints(t)
                        \/ TestFails(t) \/ TestEnds(t)
-------------------------------------------------------------------------------
(* Properties *)

\* The stop button is enabled exactly while the test that was started last has
\* not finished, unless it was stopped or failed itself, or a signal of an
\* earlier test was taken for its own; and that happens only if an earlier test
\* was stopped, which leaves its tool running, or failed, which enables the
\* start button before its last signal.
ButtonsTell ==
    /\ lastTest \notin stopped \cup erred \cup {NoTest} /\ ~crossed =>
          (stopOn <=> lastTest \notin delivered)
    /\ crossed => \E t \in stopped \cup erred : t < lastTest
===============================================================================
