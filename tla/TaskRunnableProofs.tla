------------------------- MODULE TaskRunnableProofs -------------------------
(***************************************************************************)
(* TaskRunnable.run() keeps the promise of TaskOutcome and the bounds on   *)
(* its attempts, for every number of retries, with or without a timeout.   *)
(***************************************************************************)
EXTENDS TaskRunnable, TLAPS

(* calls counts the attempts that reached fn; before the loop is left the  *)
(* two counters agree, but for the attempt whose exception is being        *)
(* handled.  A signal is emitted in the step that leaves the loop's body,  *)
(* and never twice.                                                        *)
CountsAgree ==
    /\ pc \in {"queued", "entered", "loop", "calling", "sleeping", "timedOut"} =>
           calls = attempt
    /\ pc \in {"returned", "raised"} => calls = attempt + 1
    /\ pc \in {"calling", "returned", "raised"} => attempt < Attempts
    /\ pc = "exhausted" => calls = attempt /\ (attempt = Attempts \/ cancelled)

SignalOnce ==
    /\ pc \notin {"emitted", "ended"} => signal = "none"
    /\ pc \in {"timedOut"} => error = "timeout" /\ overdue

IInv ==
    /\ TypeOK
    /\ RunningCoversCalls
    /\ ErrorMeansAllTried
    /\ CountsAgree
    /\ SignalOnce
    /\ pc = "queued" => ~running
    /\ pc \notin {"queued", "ended"} => running

LEMMA IInvInit == Init => IInv
<1> SUFFICES ASSUME Init
             PROVE  IInv
  OBVIOUS
<1> USE DEF Init
<1>1. 0 \in 0..Attempts /\ 0 <= Attempts
  BY RetryAssumption DEF Attempts
<1>2. overdue \in BOOLEAN /\ cancelled \in BOOLEAN /\ running \in BOOLEAN
  OBVIOUS
<1>3. TypeOK
  BY <1>1, <1>2 DEF TypeOK, Steps
<1>4. RunningCoversCalls /\ ErrorMeansAllTried
  BY DEF RunningCoversCalls, ErrorMeansAllTried
<1>5. CountsAgree /\ SignalOnce
  BY <1>1 DEF CountsAgree, SignalOnce
<1> QED
  BY <1>3, <1>4, <1>5 DEF IInv

LEMMA IInvStep == IInv /\ [Next]_vars => IInv'
<1> USE RetryAssumption, HasTimeoutAssumption
    DEF IInv, TypeOK, Steps, RunningCoversCalls, ErrorMeansAllTried, CountsAgree,
        SignalOnce, Attempts
<1> SUFFICES ASSUME IInv, [Next]_vars
             PROVE  IInv'
  OBVIOUS
<1>1. CASE Enter
  BY <1>1 DEF Enter
<1>2. CASE EntryCheck
  BY <1>2 DEF EntryCheck
<1>3. CASE LoopTop
  BY <1>3 DEF LoopTop, LoopStep
<1>4. CASE Call
  BY <1>4 DEF Call
<1>5. CASE AfterRaise
  BY <1>5 DEF AfterRaise
<1>6. CASE Sleep
  BY <1>6 DEF Sleep
<1>7. CASE EmitFinished
  BY <1>7 DEF EmitFinished, Emit
<1>8. CASE EmitTimeout
  BY <1>8 DEF EmitTimeout, Emit
<1>9. CASE EmitError
  BY <1>9 DEF EmitError, Emit
<1>10. CASE Clear
  BY <1>10 DEF Clear
<1>11. CASE Cancel
  BY <1>11 DEF Cancel
<1>12. CASE TimePasses
  BY <1>12 DEF TimePasses
<1>13. CASE Wait
  BY <1>13 DEF Wait
<1>14. CASE WaitTimesOut
  BY <1>14 DEF WaitTimesOut
<1>15. CASE UNCHANGED vars
  BY <1>15 DEF vars
<1> QED
  BY <1>1, <1>2, <1>3, <1>4, <1>5, <1>6, <1>7, <1>8, <1>9, <1>10, <1>11, <1>12,
     <1>13, <1>14, <1>15 DEF Next, Run

LEMMA Inductive == Spec => []IInv
  BY IInvInit, IInvStep, PTL DEF Spec

(* Type correctness, the attempts bounded by 1 + retry among it.           *)
THEOREM TypeCorrect == Spec => []TypeOK
<1>1. IInv => TypeOK
  BY DEF IInv
<1> QED
  BY <1>1, Inductive, PTL

(* The error signal means that every attempt failed or the deadline passed.*)
THEOREM ErrorMeansAllTriedHolds == Spec => []ErrorMeansAllTried
<1>1. IInv => ErrorMeansAllTried
  BY DEF IInv
<1> QED
  BY <1>1, Inductive, PTL

(* _running is set whenever fn may be executing, and cleared at the end.   *)
THEOREM RunningCoversCallsHolds == Spec => []RunningCoversCalls
<1>1. IInv => RunningCoversCalls
  BY DEF IInv
<1> QED
  BY <1>1, Inductive, PTL

(* After cancel() no further call of fn begins.                            *)
THEOREM NoNewAttemptAfterCancelHolds == Spec => NoNewAttemptAfterCancel
<1>1. ASSUME [Next]_vars, cancelled, pc' = "calling"
      PROVE  pc = "calling"
  <2>1. ~LoopTop /\ ~EmitFinished /\ ~EmitTimeout /\ ~EmitError
    BY <1>1 DEF LoopTop, LoopStep, EmitFinished, EmitTimeout, EmitError, Emit
  <2>2. ~Enter /\ ~EntryCheck /\ ~Call /\ ~AfterRaise /\ ~Sleep /\ ~Clear
    BY <1>1 DEF Enter, EntryCheck, Call, AfterRaise, Sleep, Clear
  <2>3. UNCHANGED pc
    BY <1>1, <2>1, <2>2 DEF Next, Run, Cancel, TimePasses, Wait, WaitTimesOut, vars
  <2> QED
    BY <1>1, <2>3
<1>2. [Next]_vars => [cancelled /\ pc' = "calling" => pc = "calling"]_vars
  BY <1>1
<1> QED
  BY <1>2, PTL DEF Spec, NoNewAttemptAfterCancel

(* run() implements TaskOutcome.                                           *)
THEOREM KeepsOutcomeHolds == Spec => KeepsOutcome
<1>1. Init => Outcome!Init
  BY DEF Init, Outcome!Init, phase
<1>2. IInv /\ [Next]_vars => [Outcome!Next]_(Outcome!vars)
  <2> SUFFICES ASSUME IInv, [Next]_vars
               PROVE  [Outcome!Next]_(Outcome!vars)
    OBVIOUS
  <2> USE DEF Outcome!Next, Outcome!vars
  <2>1. CASE EntryCheck
    BY <2>1 DEF EntryCheck, phase, Outcome!Begin, Outcome!Discard
  <2>2. CASE EmitFinished \/ EmitTimeout \/ EmitError
    <3>1. /\ phase = "running" /\ phase' = "ended" /\ cancelled' = cancelled
          /\ \/ cancelled /\ signal' = signal
             \/ signal' \in {"finished", "error"}
      BY <2>2 DEF EmitFinished, EmitTimeout, EmitError, Emit, phase, IInv, TypeOK
    <3> QED
      BY <3>1 DEF Outcome!Report, Outcome!EndSilently
  <2>3. CASE Cancel
    BY <2>3 DEF Cancel, phase, Outcome!Cancel
  <2>4. CASE Enter \/ LoopTop \/ Call \/ AfterRaise \/ Sleep \/ Clear
    BY <2>4 DEF Enter, LoopTop, LoopStep, Call, AfterRaise, Sleep, Clear, phase
  <2>5. CASE TimePasses \/ Wait \/ WaitTimesOut \/ UNCHANGED vars
    BY <2>5 DEF TimePasses, Wait, WaitTimesOut, vars, phase
  <2> QED
    BY <2>1, <2>2, <2>3, <2>4, <2>5 DEF Next, Run
<1> QED
  BY <1>1, <1>2, Inductive, PTL DEF Spec, KeepsOutcome, Outcome!Spec
=============================================================================
