----------------------- MODULE RefreshSchedulerProofs -----------------------
(***************************************************************************)
(* No report to the RefreshScheduler is lost, and its refreshes are those  *)
(* RefreshPromise allows, for any number of threads, calls and orders.     *)
(***************************************************************************)
EXTENDS RefreshScheduler, TLAPS

IInv == TypeOK /\ NoLostMark

LEMMA IInvInit == Init => IInv
<1> SUFFICES ASSUME Init
             PROVE  IInv
  OBVIOUS
<1>1. dirty \in BOOLEAN /\ timer \in BOOLEAN
  BY DEF Init, SchedulerInit
<1>2. TypeOK
  BY <1>1, MaxMarksAssumption, MaxOrdersAssumption DEF Init, SchedulerInit, TypeOK
<1>3. NoLostMark
  BY DEF Init, SchedulerInit, NoLostMark
<1> QED
  BY <1>2, <1>3 DEF IInv

LEMMA TypeStep == TypeOK /\ [Next]_vars => TypeOK'
<1> SUFFICES ASSUME TypeOK, [Next]_vars
             PROVE  TypeOK'
  OBVIOUS
<1> USE MaxMarksAssumption, MaxOrdersAssumption DEF TypeOK
<1>1. ASSUME NEW t \in Threads, Mark(t)
      PROVE  TypeOK'
  BY <1>1 DEF Mark, SetDirty
<1>2. CASE Order
  <2>1. dirty' \in BOOLEAN /\ timer' \in BOOLEAN
    BY <1>2 DEF Order, ForceRefresh, Cancel
  <2> QED
    BY <1>2, <2>1 DEF Order, ForceRefresh, Cancel
<1>3. ASSUME NEW t \in Threads, Post(t), UNCHANGED <<marks, orders>>
      PROVE  TypeOK'
  BY <1>3 DEF Post
<1>4. CASE OnDispatch /\ UNCHANGED <<marks, orders>>
  BY <1>4 DEF OnDispatch
<1>5. CASE (FlushDirty \/ FlushClean) /\ UNCHANGED <<marks, orders>>
  <2>1. dirty' \in BOOLEAN /\ timer' \in BOOLEAN
    BY <1>5 DEF FlushDirty, FlushClean
  <2> QED
    BY <1>5, <2>1 DEF FlushDirty, FlushClean
<1>6. CASE UNCHANGED vars
  BY <1>6 DEF vars, schedulerVars
<1> QED
  BY <1>1, <1>2, <1>3, <1>4, <1>5, <1>6 DEF Next, Step

(* A step that sets _dirty leaves a thread that will emit; a step that     *)
(* uses up what stood for the report leaves its successor, or resets it.   *)
LEMMA NoLostMarkStep == IInv /\ [Next]_vars => NoLostMark'
<1> SUFFICES ASSUME IInv, [Next]_vars
             PROVE  NoLostMark'
  OBVIOUS
<1> USE DEF IInv, TypeOK, NoLostMark
<1>1. ASSUME NEW t \in Threads, Mark(t)
      PROVE  NoLostMark'
  <2>1. t \in marking'
    BY <1>1 DEF Mark, SetDirty
  <2> QED
    BY <2>1
<1>2. CASE Order
  BY <1>2 DEF Order, ForceRefresh, Cancel
<1>3. ASSUME NEW t \in Threads, Post(t)
      PROVE  NoLostMark'
  BY <1>3 DEF Post
<1>4. CASE OnDispatch
  BY <1>4 DEF OnDispatch
<1>5. CASE FlushDirty \/ FlushClean
  BY <1>5 DEF FlushDirty, FlushClean
<1>6. CASE UNCHANGED vars
  BY <1>6 DEF vars, schedulerVars
<1> QED
  BY <1>1, <1>2, <1>3, <1>4, <1>5, <1>6 DEF Next, Step

LEMMA Inductive == Spec => []IInv
<1>1. IInv /\ [Next]_vars => IInv'
  BY TypeStep, NoLostMarkStep DEF IInv
<1> QED
  BY <1>1, IInvInit, PTL DEF Spec

(* Type correctness of the scheduler.                                      *)
THEOREM TypeCorrect == Spec => []TypeOK
<1>1. IInv => TypeOK
  BY DEF IInv
<1> QED
  BY <1>1, Inductive, PTL

(* While _dirty is set, something is on its way to the timer's flush.      *)
THEOREM NoLostMarkHolds == Spec => []NoLostMark
<1>1. IInv => NoLostMark
  BY DEF IInv
<1> QED
  BY <1>1, Inductive, PTL

(* The scheduler makes no refresh but those RefreshPromise allows: each    *)
(* emission of refresh_requested from the timer (line 105) uses up at      *)
(* least one report, and only orders make one out of turn.                 *)
THEOREM RefreshesWereReported == Spec => Promise!Safety
<1>1. Init => Promise!Init
  BY DEF Init, SchedulerInit, Promise!Init
<1>2. [Next]_vars => [Promise!Next]_(Promise!vars)
  <2> SUFFICES ASSUME [Next]_vars
               PROVE  [Promise!Next]_(Promise!vars)
    OBVIOUS
  <2> USE DEF Promise!Next, Promise!vars
  <2>1. ASSUME NEW t \in Threads, Mark(t)
        PROVE  Promise!Report
    BY <2>1 DEF Mark, SetDirty, Promise!Report
  <2>2. CASE Order
    BY <2>2 DEF Order, ForceRefresh, Cancel, Promise!Force, Promise!Forget
  <2>3. ASSUME NEW t \in Threads, Post(t), UNCHANGED <<marks, orders>>
        PROVE  UNCHANGED Promise!vars
    BY <2>3 DEF Post
  <2>4. CASE (OnDispatch \/ FlushClean) /\ UNCHANGED <<marks, orders>>
    BY <2>4 DEF OnDispatch, FlushClean
  <2>5. CASE FlushDirty /\ UNCHANGED <<marks, orders>>
    BY <2>5 DEF FlushDirty, Promise!Refresh
  <2>6. CASE UNCHANGED vars
    BY <2>6 DEF vars, schedulerVars
  <2> QED
    BY <2>1, <2>2, <2>3, <2>4, <2>5, <2>6 DEF Next, Step
<1> QED
  BY <1>1, <1>2, PTL DEF Spec, Promise!Safety
=============================================================================
