------------------------- MODULE SerialQueueProofs -------------------------
(***************************************************************************)
(* Theorems about the serial queue, for any number of requests, cancels    *)
(* and whether or not a task may emit before its slots are connected.      *)
(***************************************************************************)
EXTENDS SerialQueue, SequenceTheorems, TLAPS

LEMMA PostType ==
    ASSUME NEW r \in Requests, NEW slot \in Slots, NEW posted \in BOOLEAN
    PROVE  Post(r, slot, posted) \in Seq(Connection)
<1> DEFINE call == [task |-> r, slot |-> slot]
<1>1. call \in Connection
  BY DEF Connection
<1> HIDE DEF call
<1>2. <<call>> \in Seq(Connection) /\ <<>> \in Seq(Connection)
  BY <1>1
<1>3. Post(r, slot, posted) = <<call>> \/ Post(r, slot, posted) = <<>>
  BY DEF Post, call
<1> QED
  BY <1>2, <1>3

(* What Emit appends to the mailbox are well typed calls.                  *)
LEMMA EmissionType ==
    ASSUME NEW r \in Requests, NEW outcome \in {"finished", "error"}
    PROVE  Emission(r, outcome) \in Seq(Connection)
<1> DEFINE a == Post(r, "result", outcome = "finished")
           b == Post(r, "release", TRUE)
           c == Post(r, "unlock", TRUE)
<1>1. a \in Seq(Connection) /\ b \in Seq(Connection) /\ c \in Seq(Connection)
  BY PostType DEF Slots
<1> HIDE DEF a, b, c
<1>2. (a \o b) \o c \in Seq(Connection)
  BY <1>1
<1>3. Emission(r, outcome) = (a \o b) \o c
  BY DEF Emission, a, b, c
<1> QED
  BY <1>2, <1>3

(* What submit() leaves behind is well typed.                              *)
LEMMA SubmitType ==
    ASSUME TypeOK, NEW r \in Requests, NEW plan \in Seq(Slots), Submit(r, plan)
    PROVE  /\ cancelled' \in [Requests -> BOOLEAN]
           /\ registered' \in Requests \cup {None}
           /\ status' \in [Requests -> Statuses]
           /\ todo' \in Seq(Connection)
           /\ slots' \in [Requests -> SUBSET Slots]
<1>1. todo' \in Seq(Connection)
  <2>1. Len(plan) \in Nat /\ DOMAIN plan = 1..Len(plan)
    BY LenProperties
  <2>2. \A i \in 1..Len(plan) : [task |-> r, slot |-> plan[i]] \in Connection
    BY ElementOfSeq DEF Connection
  <2>3. todo' \in [1..Len(plan) -> Connection]
    BY <2>1, <2>2 DEF Submit
  <2> QED
    BY <2>1, <2>3, SeqDef
<1> QED
  BY <1>1 DEF Submit, CancelRegistered, TypeOK, Statuses

LEMMA PlanTypes == FirstRunSlots \in Seq(Slots) /\ RerunSlots \in Seq(Slots)
  BY DEF FirstRunSlots, RerunSlots, Slots

LEMMA InitTyped == Init => TypeOK
<1> USE NumRequestsAssumption, MaxCancelsAssumption DEF Requests, None
<1> SUFFICES ASSUME Init
             PROVE  TypeOK
  OBVIOUS
<1>1. status \in [Requests -> Statuses]
  BY DEF Init, Statuses
<1>2. cancelled \in [Requests -> BOOLEAN] /\ slots \in [Requests -> SUBSET Slots]
  BY DEF Init
<1>3. todo \in Seq(Connection) /\ mailbox \in Seq(Connection)
  BY DEF Init
<1>4. lock \in BOOLEAN /\ pending \in BOOLEAN /\ down \in BOOLEAN /\ early \in BOOLEAN
  BY DEF Init
<1>5. issued \in 0..NumRequests /\ cancels \in 0..MaxCancels
  BY DEF Init
<1> QED
  BY <1>1, <1>2, <1>3, <1>4, <1>5 DEF Init, TypeOK

LEMMA StepTyped == TypeOK /\ [Next]_vars => TypeOK'
<1> USE NumRequestsAssumption, MaxCancelsAssumption DEF Requests, None
<1> SUFFICES ASSUME TypeOK, [Next]_vars
             PROVE  TypeOK'
  OBVIOUS
<1>1. ASSUME NEW r \in Requests, Request(r)
      PROVE  TypeOK'
  <2>1. CASE RequestRefused(r)
    BY <1>1, <2>1 DEF Request, RequestRefused, TypeOK, Statuses, queueVars
  <2>2. CASE RequestIdle(r)
    <3>1. Submit(r, FirstRunSlots) /\ FirstRunSlots \in Seq(Slots)
      BY <2>2, PlanTypes DEF RequestIdle
    <3>2. /\ cancelled' \in [Requests -> BOOLEAN]
          /\ registered' \in Requests \cup {None}
          /\ status' \in [Requests -> Statuses]
          /\ todo' \in Seq(Connection)
          /\ slots' \in [Requests -> SUBSET Slots]
      BY <3>1, SubmitType
    <3>3. issued' \in 0..NumRequests
      BY <1>1 DEF Request, TypeOK
    <3> QED
      BY <1>1, <2>2, <3>2, <3>3 DEF Request, RequestIdle, TypeOK
  <2>3. CASE RequestBusy(r)
    BY <1>1, <2>3 DEF Request, RequestBusy, TypeOK, Statuses
  <2> QED
    BY <1>1, <2>1, <2>2, <2>3 DEF Request
<1>2. CASE Connect
  <2>1. Head(todo) \in Connection /\ Tail(todo) \in Seq(Connection)
    BY <1>2, HeadTailProperties DEF Connect, TypeOK
  <2>2. slots' \in [Requests -> SUBSET Slots]
    BY <1>2, <2>1 DEF Connect, TypeOK, Connection
  <2> QED
    BY <1>2, <2>1, <2>2 DEF Connect, TypeOK, queueVars
<1>3. CASE Deliver
  <2>1. Head(mailbox) \in Connection /\ Tail(mailbox) \in Seq(Connection)
    BY <1>3, HeadTailProperties DEF Deliver, TypeOK
  <2>2. CASE DeliverResult(Head(mailbox).task)
    BY <1>3, <2>1, <2>2
       DEF Deliver, DeliverResult, TypeOK, Connection, taskVars, queueVars
  <2>3. CASE Unlock /\ UNCHANGED shown
    BY <1>3, <2>1, <2>3 DEF Deliver, Unlock, TypeOK, taskVars
  <2>4. CASE Rerun /\ UNCHANGED shown
    <3>1. CASE latest # None /\ ~down
      <4>1. latest \in Requests /\ Submit(latest, RerunSlots)
        BY <2>4, <3>1 DEF Rerun, TypeOK
      <4> QED
        BY <1>3, <2>1, <2>4, <4>1, SubmitType, PlanTypes DEF Deliver, Rerun, TypeOK
    <3>2. CASE ~(latest # None /\ ~down)
      BY <1>3, <2>1, <2>4, <3>2 DEF Deliver, Rerun, TypeOK, taskVars
    <3> QED
      BY <3>1, <3>2
  <2> QED
    BY <1>3, <2>2, <2>3, <2>4 DEF Deliver, ReleaseAndCheck
<1>4. CASE Cancel
  BY <1>4 DEF Cancel, CancelRegistered, TypeOK, queueVars
<1>5. CASE Shutdown
  BY <1>5 DEF Shutdown, CancelRegistered, TypeOK, queueVars
<1>6. ASSUME NEW r \in Requests, Worker(r)
      PROVE  TypeOK'
  <2>1. CASE Begin(r)
    BY <2>1 DEF Begin, WorkerVarsUnchanged, TypeOK, Statuses, queueVars
  <2>2. ASSUME NEW outcome \in {"finished", "error"}, Emit(r, outcome)
        PROVE  TypeOK'
    <3>1. mailbox' \in Seq(Connection)
      BY <2>2, EmissionType DEF Emit, TypeOK
    <3>2. early' \in BOOLEAN
      BY <2>2 DEF Emit, Connecting, TypeOK
    <3> QED
      BY <2>2, <3>1, <3>2 DEF Emit, WorkerVarsUnchanged, TypeOK, Statuses, queueVars
  <2>3. CASE EndCancelled(r)
    BY <2>3 DEF EndCancelled, WorkerVarsUnchanged, TypeOK, Statuses, queueVars
  <2> QED
    BY <1>6, <2>1, <2>2, <2>3 DEF Worker
<1>7. CASE UNCHANGED vars
  BY <1>7 DEF vars, taskVars, queueVars, TypeOK
<1> QED
  BY <1>1, <1>2, <1>3, <1>4, <1>5, <1>6, <1>7 DEF Next

(* Type correctness: every reachable state has the types TypeOK states.    *)
THEOREM TypeCorrect == Spec => []TypeOK
BY InitTyped, StepTyped, PTL DEF Spec

-----------------------------------------------------------------------------
(* The inductive invariant behind the four safety properties.  The lock is *)
(* accounted for by exactly one holder: a live runnable, or the posted     *)
(* call that will give the lock back.                                      *)

Live(r) == status[r] \in {"pool", "running"}
Unstarted == {"new", "refused", "waiting"}

LiveOwnsLock ==
    \A r \in Requests : Live(r) => lock /\ \A q \in Requests : Live(q) => q = r

(* A runnable is never given both slots that release, neither already      *)
(* connected nor still to be.                                              *)
OneReleaseSlot ==
    /\ \A r \in Requests : ~({"release", "unlock"} \subseteq slots[r])
    /\ \A i \in DOMAIN todo :
           todo[i].slot \in Releases =>
               /\ slots[todo[i].task] \cap Releases \subseteq {todo[i].slot}
               /\ \A j \in DOMAIN todo :
                      todo[j].slot \in Releases => todo[j].slot = todo[i].slot

(* A request without a runnable has no connection either.                  *)
Fresh ==
    \A r \in Requests :
        status[r] \in Unstarted => slots[r] = {} /\ ~Connecting(r)

NotIssued == \A r \in Requests : r > issued => status[r] = "new"

(* Runnables are started in the order of the requests, and the results     *)
(* posted or shown are those of runnables that finished, in that order.    *)
StartedInOrder ==
    \A r, q \in Requests : Live(r) /\ q > r => status[q] \in Unstarted

PostedInOrder ==
    /\ shown # None => status[shown] = "finished"
    /\ \A i \in DOMAIN mailbox :
           mailbox[i].slot = "result" =>
               /\ status[mailbox[i].task] = "finished"
               /\ shown <= mailbox[i].task
               /\ \A j \in DOMAIN mailbox :
                      mailbox[j].slot = "result" /\ i < j =>
                          mailbox[i].task <= mailbox[j].task

IInv ==
    /\ TypeOK
    /\ LiveOwnsLock
    /\ ReleasesOwnLock
    /\ OneReleaseSlot
    /\ Fresh
    /\ NotIssued
    /\ PendingIsNewest
    /\ StartedInOrder
    /\ PostedInOrder

(* The calls one emission posts: of that task, of connected slots, each    *)
(* slot once, on_finished only for a finished task.                        *)
LEMMA EmissionShape ==
    ASSUME NEW r \in Requests, NEW outcome \in {"finished", "error"},
           NEW i \in DOMAIN Emission(r, outcome)
    PROVE  LET e == Emission(r, outcome) IN
           /\ e[i].task = r
           /\ e[i].slot \in slots[r]
           /\ e[i].slot = "result" => outcome = "finished"
           /\ \A j \in DOMAIN e : e[j].slot = e[i].slot => j = i
<1> DEFINE C(s) == [task |-> r, slot |-> s]
           x == IF outcome = "finished" /\ "result" \in slots[r] THEN <<C("result")>> ELSE <<>>
           y == IF "release" \in slots[r] THEN <<C("release")>> ELSE <<>>
           z == IF "unlock" \in slots[r] THEN <<C("unlock")>> ELSE <<>>
           e == (x \o y) \o z
<1>1. Emission(r, outcome) = e
  BY DEF Emission, Post
<1>2. C("result").task = r /\ C("result").slot = "result"
  OBVIOUS
<1>3. C("release").task = r /\ C("release").slot = "release"
  OBVIOUS
<1>4. C("unlock").task = r /\ C("unlock").slot = "unlock"
  OBVIOUS
<1> HIDE DEF C
<1>5. /\ e[i].task = r
      /\ e[i].slot \in slots[r]
      /\ e[i].slot = "result" => outcome = "finished"
      /\ \A j \in DOMAIN e : e[j].slot = e[i].slot => j = i
  <2>1. i \in DOMAIN e
    BY <1>1
  <2> QED
    BY <2>1, <1>2, <1>3, <1>4
<1> QED
  BY <1>1, <1>5

-----------------------------------------------------------------------------
(* Each action preserves the invariant; IInv' is proved part by part.      *)

(* submit() gives a request that has none its runnable, when the lock is   *)
(* taken, nothing of the queue is live and no release is posted.           *)
LEMMA SubmitKeeps ==
    ASSUME IInv, TypeOK', NEW r \in Requests, NEW last \in Releases,
           Submit(r, <<"result", last>>),
           MainIdle,
           status[r] \in Unstarted,
           \A q \in Requests : ~Live(q),
           \A q \in Requests : q > r => status[q] \in Unstarted,
           \A i \in DOMAIN mailbox' : mailbox'[i].slot \notin Releases,
           lock'
    PROVE  /\ LiveOwnsLock'
           /\ ReleasesOwnLock'
           /\ OneReleaseSlot'
           /\ Fresh'
           /\ StartedInOrder'
<1>1. status' = [status EXCEPT ![r] = "pool"] /\ slots' = slots
  BY DEF Submit
<1>2. todo' = <<[task |-> r, slot |-> "result"], [task |-> r, slot |-> last]>>
  BY DEF Submit
<1>3. slots[r] = {}
  BY DEF IInv, Fresh
<1>4. \A q \in Requests : q # r => status'[q] = status[q]
  BY <1>1 DEF IInv, TypeOK
<1>5. status'[r] = "pool"
  BY <1>1 DEF IInv, TypeOK
<1>6. \A q \in Requests : Live(q)' <=> q = r
  BY <1>4, <1>5 DEF Live
<1>7. LiveOwnsLock'
  BY <1>6 DEF LiveOwnsLock
<1>8. ReleasesOwnLock'
  BY DEF ReleasesOwnLock
<1>9. OneReleaseSlot'
  BY <1>1, <1>2, <1>3 DEF OneReleaseSlot, IInv, Releases
<1>10. Fresh'
  BY <1>1, <1>2, <1>4, <1>5 DEF Fresh, IInv, Connecting, MainIdle, Unstarted
<1>11. StartedInOrder'
  BY <1>4, <1>5, <1>6 DEF StartedInOrder, Unstarted, Requests
<1> QED
  BY <1>7, <1>8, <1>9, <1>10, <1>11

LEMMA CallsTyped ==
    ASSUME TypeOK
    PROVE  /\ \A i \in DOMAIN mailbox :
                  mailbox[i].task \in Requests /\ mailbox[i].slot \in Slots
           /\ \A i \in DOMAIN todo :
                  todo[i].task \in Requests /\ todo[i].slot \in Slots
<1>1. \A f \in Seq(Connection) : \A i \in DOMAIN f : f[i] \in Connection
  OBVIOUS
<1>2. \A c \in Connection : c.task \in Requests /\ c.slot \in Slots
  BY DEF Connection
<1> QED
  BY <1>1, <1>2 DEF TypeOK

(* With the lock free, or its release being delivered, nothing is live.    *)
LEMMA NothingLive ==
    ASSUME IInv,
           ~lock \/ \E i \in DOMAIN mailbox : mailbox[i].slot \in Releases
    PROVE  \A q \in Requests : ~Live(q)
  BY DEF IInv, LiveOwnsLock, ReleasesOwnLock, Live

LEMMA RequestKeeps ==
    ASSUME IInv, TypeOK', NEW r \in Requests, Request(r)
    PROVE  IInv'
<1> USE DEF Unstarted
<1>0. /\ MainIdle /\ r = issued + 1 /\ issued' = r
      /\ mailbox' = mailbox /\ shown' = shown
      /\ issued \in 0..NumRequests
  BY DEF Request, IInv, TypeOK
<1>1. status[r] = "new"
  BY <1>0 DEF IInv, NotIssued, Requests
<1>2. \A q \in Requests : q > r => status[q] = "new"
  BY <1>0 DEF IInv, NotIssued, Requests
<1>3. CASE RequestRefused(r) \/ RequestBusy(r)
  <2>1. \/ status' = [status EXCEPT ![r] = "refused"]
        \/ status' = [status EXCEPT ![r] = "waiting"]
    BY <1>3 DEF RequestRefused, RequestBusy
  <2>2. /\ status'[r] \in {"refused", "waiting"}
        /\ \A q \in Requests : q # r => status'[q] = status[q]
    BY <2>1 DEF IInv, TypeOK
  <2>3. slots' = slots /\ todo' = todo /\ lock' = lock
    BY <1>3 DEF RequestRefused, RequestBusy, queueVars
  <2>4. \A q \in Requests : Live(q)' <=> Live(q)
    BY <2>2, <1>1 DEF Live
  <2>5. LiveOwnsLock'
    BY <2>3, <2>4 DEF IInv, LiveOwnsLock
  <2>6. ReleasesOwnLock'
    BY <1>0, <2>2, <2>3 DEF IInv, ReleasesOwnLock
  <2>7. OneReleaseSlot'
    BY <2>3 DEF IInv, OneReleaseSlot
  <2>8. Fresh'
    BY <2>2, <2>3, <1>1 DEF IInv, Fresh, Connecting
  <2>9. NotIssued'
    BY <1>0, <2>2 DEF IInv, NotIssued, Requests
  <2>10. PendingIsNewest'
    <3>1. CASE RequestRefused(r)
      <4>1. pending' = pending /\ latest' = latest /\ status'[r] = "refused"
        BY <3>1 DEF RequestRefused, queueVars, IInv, TypeOK
      <4> QED
        BY <4>1, <1>1, <2>2 DEF IInv, TypeOK, PendingIsNewest
    <3>2. CASE RequestBusy(r)
      <4>1. latest' = r /\ status'[r] = "waiting"
        BY <3>2 DEF RequestBusy, IInv, TypeOK
      <4> QED
        BY <4>1, <1>2, <2>2 DEF PendingIsNewest, Requests, None
    <3> QED
      BY <1>3, <3>1, <3>2
  <2>11. StartedInOrder'
    BY <2>2, <2>4 DEF IInv, StartedInOrder, Requests
  <2>12. PostedInOrder'
    <3>1. \A i \in DOMAIN mailbox : mailbox[i].task \in Requests
      BY CallsTyped DEF IInv
    <3>2. shown \in Requests \cup {None}
      BY DEF IInv, TypeOK
    <3>3. \A q \in Requests : status[q] = "finished" => status'[q] = "finished"
      BY <1>1, <2>2
    <3> QED
      BY <1>0, <3>1, <3>2, <3>3 DEF IInv, PostedInOrder
  <2> QED
    BY <2>5, <2>6, <2>7, <2>8, <2>9, <2>10, <2>11, <2>12 DEF IInv
<1>4. CASE RequestIdle(r)
  <2>1. Submit(r, <<"result", "release">>) /\ ~lock /\ lock' /\ ~pending'
    BY <1>4 DEF RequestIdle, FirstRunSlots
  <2>2. \A i \in DOMAIN mailbox' : mailbox'[i].slot \notin Releases
    BY <1>0, <2>1 DEF IInv, ReleasesOwnLock
  <2>3. "release" \in Releases
    BY DEF Releases
  <2>4. /\ LiveOwnsLock' /\ ReleasesOwnLock' /\ OneReleaseSlot'
        /\ Fresh' /\ StartedInOrder'
    BY <1>0, <1>1, <1>2, <2>1, <2>2, <2>3, NothingLive, SubmitKeeps
  <2>5. status' = [status EXCEPT ![r] = "pool"]
    BY <2>1 DEF Submit
  <2>6. NotIssued'
    BY <1>0, <2>5 DEF IInv, NotIssued, TypeOK, Requests
  <2>7. PendingIsNewest'
    BY <2>1 DEF PendingIsNewest
  <2>8. PostedInOrder'
    BY <1>0, <1>1, <2>5 DEF IInv, PostedInOrder, TypeOK, Connection
  <2> QED
    BY <2>4, <2>6, <2>7, <2>8 DEF IInv
<1> QED
  BY <1>3, <1>4 DEF Request

LEMMA ConnectKeeps ==
    ASSUME IInv, TypeOK', Connect
    PROVE  IInv'
<1> DEFINE c == Head(todo)
<1>1. /\ c \in Connection /\ c = todo[1] /\ 1 \in DOMAIN todo
      /\ \A i \in DOMAIN todo' : todo'[i] = todo[i + 1] /\ i + 1 \in DOMAIN todo
  BY HeadTailProperties DEF Connect, IInv, TypeOK
<1>2. /\ status' = status /\ lock' = lock /\ pending' = pending /\ latest' = latest
      /\ issued' = issued /\ shown' = shown /\ mailbox' = mailbox
      /\ slots' = [slots EXCEPT ![c.task] = @ \cup {c.slot}]
  BY DEF Connect, queueVars
<1>3. OneReleaseSlot'
  <2> USE DEF Releases
  <2>1. c.task \in Requests /\ c.slot \in Slots
    BY <1>1 DEF Connection
  <2>2. /\ slots'[c.task] = slots[c.task] \cup {c.slot}
        /\ \A q \in Requests : q # c.task => slots'[q] = slots[q]
    BY <1>2, <2>1 DEF IInv, TypeOK
  <2>3. \A r \in Requests : ~({"release", "unlock"} \subseteq slots'[r])
    BY <1>1, <2>1, <2>2 DEF IInv, OneReleaseSlot
  <2>4. ASSUME NEW i \in DOMAIN todo', todo'[i].slot \in Releases
        PROVE  /\ slots'[todo'[i].task] \cap Releases \subseteq {todo'[i].slot}
               /\ \A j \in DOMAIN todo' :
                      todo'[j].slot \in Releases => todo'[j].slot = todo'[i].slot
    <3>1. /\ i + 1 \in DOMAIN todo /\ todo'[i] = todo[i + 1]
          /\ todo[i + 1].task \in Requests
      BY <1>1, CallsTyped DEF IInv
    <3>2. /\ slots[todo[i + 1].task] \cap Releases \subseteq {todo[i + 1].slot}
          /\ \A j \in DOMAIN todo :
                 todo[j].slot \in Releases => todo[j].slot = todo[i + 1].slot
      BY <2>4, <3>1 DEF IInv, OneReleaseSlot
    <3>3. c.slot \in Releases => c.slot = todo[i + 1].slot
      BY <1>1, <3>2
    <3>4. slots'[todo[i + 1].task] \subseteq slots[todo[i + 1].task] \cup {c.slot}
      BY <2>2, <3>1
    <3>5. slots'[todo[i + 1].task] \cap Releases \subseteq {todo[i + 1].slot}
      BY <3>2, <3>3, <3>4
    <3> QED
      BY <1>1, <3>1, <3>2, <3>5
  <2> QED
    BY <2>3, <2>4 DEF OneReleaseSlot
<1>4. Fresh'
  BY <1>1, <1>2 DEF IInv, Fresh, Connecting, TypeOK, Connection
<1> QED
  BY <1>2, <1>3, <1>4 DEF IInv, LiveOwnsLock, Live, ReleasesOwnLock, NotIssued,
     PendingIsNewest, StartedInOrder, PostedInOrder

LEMMA DeliverKeeps ==
    ASSUME IInv, TypeOK', Deliver
    PROVE  IInv'
<1> DEFINE c == Head(mailbox)
<1>1. /\ MainIdle /\ c = mailbox[1] /\ 1 \in DOMAIN mailbox
      /\ mailbox' = Tail(mailbox) /\ issued' = issued
      /\ \A i \in DOMAIN mailbox' :
            i \in Nat /\ mailbox'[i] = mailbox[i + 1] /\ i + 1 \in DOMAIN mailbox
  BY HeadTailProperties DEF Deliver, IInv, TypeOK
<1>2. c.task \in Requests /\ \A i \in DOMAIN mailbox : mailbox[i].task \in Requests
  BY <1>1, CallsTyped DEF IInv
<1>3. c.slot \in Releases =>
          /\ lock
          /\ \A q \in Requests : ~Live(q)
          /\ \A i \in DOMAIN mailbox' : mailbox'[i].slot \notin Releases
  BY <1>1 DEF IInv, ReleasesOwnLock, Live
<1>4. ASSUME UNCHANGED shown, \A q \in Requests : status[q] = "finished" => status'[q] = "finished"
      PROVE  PostedInOrder'
  <2>1. shown \in Requests \cup {None}
    BY DEF IInv, TypeOK
  <2> QED
    BY <1>1, <1>2, <1>4, <2>1 DEF IInv, PostedInOrder
<1>5. CASE c.slot = "result" /\ DeliverResult(c.task)
  <2>1. UNCHANGED <<status, cancelled, slots, registered, lock, pending, latest, todo>>
    BY <1>5 DEF DeliverResult, taskVars, queueVars
  <2>2. ReleasesOwnLock'
    BY <1>1, <2>1 DEF IInv, ReleasesOwnLock
  <2>3. PostedInOrder'
    BY <1>1, <1>2, <1>5, <2>1 DEF IInv, PostedInOrder, DeliverResult
  <2> QED
    BY <1>1, <2>1, <2>2, <2>3 DEF IInv, LiveOwnsLock, Live, OneReleaseSlot, Fresh,
       Connecting, NotIssued, PendingIsNewest, StartedInOrder
<1>6. CASE c.slot \in Releases /\ Unlock /\ UNCHANGED shown
  <2>1. UNCHANGED <<status, cancelled, slots, registered, pending, latest, todo>>
    BY <1>6 DEF Unlock, taskVars
  <2>2. ReleasesOwnLock'
    BY <1>3, <1>6 DEF ReleasesOwnLock
  <2>3. LiveOwnsLock'
    BY <1>3, <1>6, <2>1 DEF LiveOwnsLock, Live
  <2>4. PostedInOrder'
    BY <1>4, <1>6, <2>1
  <2> QED
    BY <1>1, <2>1, <2>2, <2>3, <2>4 DEF IInv, Live, OneReleaseSlot, Fresh,
       Connecting, NotIssued, PendingIsNewest, StartedInOrder
<1>7. CASE c.slot \in Releases /\ pending /\ Rerun /\ UNCHANGED shown
  <2>1. /\ latest \in Requests /\ status[latest] = "waiting"
        /\ \A q \in Requests : q > latest => status[q] \in Unstarted
    BY <1>7 DEF IInv, TypeOK, PendingIsNewest, Unstarted
  <2>2. ~pending' /\ lock'
    BY <1>7 DEF Rerun
  <2>3. PendingIsNewest'
    BY <2>2 DEF PendingIsNewest
  <2>4. CASE latest # None /\ ~down
    <3>1. Submit(latest, <<"result", "unlock">>)
      BY <1>7, <2>4 DEF Rerun, RerunSlots
    <3>2. "unlock" \in Releases /\ status[latest] \in Unstarted
      BY <2>1 DEF Releases, Unstarted
    <3>3. /\ LiveOwnsLock' /\ ReleasesOwnLock' /\ OneReleaseSlot'
          /\ Fresh' /\ StartedInOrder'
      BY <1>1, <1>3, <1>7, <2>1, <2>2, <3>1, <3>2, SubmitKeeps
    <3>4. status' = [status EXCEPT ![latest] = "pool"]
      BY <3>1 DEF Submit
    <3>5. NotIssued'
      BY <1>1, <2>1, <3>4 DEF IInv, NotIssued, TypeOK
    <3>6. \A q \in Requests : status[q] = "finished" => status'[q] = "finished"
      BY <2>1, <3>4 DEF IInv, TypeOK
    <3>7. PostedInOrder'
      BY <1>4, <1>7, <3>6
    <3> QED
      BY <2>3, <3>3, <3>5, <3>7 DEF IInv
  <2>5. CASE ~(latest # None /\ ~down)
    <3>1. UNCHANGED <<status, cancelled, slots, registered, todo>>
      BY <1>7, <2>5 DEF Rerun, taskVars
    <3>2. LiveOwnsLock'
      BY <1>3, <1>7, <3>1 DEF LiveOwnsLock, Live
    <3>3. ReleasesOwnLock'
      BY <1>3, <1>7 DEF ReleasesOwnLock
    <3>4. PostedInOrder'
      BY <1>4, <1>7, <3>1
    <3> QED
      BY <1>1, <2>3, <3>1, <3>2, <3>3, <3>4 DEF IInv, Live, OneReleaseSlot, Fresh,
         Connecting, NotIssued, StartedInOrder
  <2> QED
    BY <2>4, <2>5
<1> QED
  BY <1>5, <1>6, <1>7 DEF Deliver, ReleaseAndCheck, Releases

(* cancel() and shutdown() touch nothing the invariant speaks of.          *)
LEMMA CancelKeeps ==
    ASSUME IInv, TypeOK', Cancel \/ Shutdown \/ UNCHANGED vars
    PROVE  IInv'
<1>1. UNCHANGED <<issued, status, slots, lock, pending, latest, todo, mailbox, shown>>
  BY DEF Cancel, Shutdown, vars, taskVars, queueVars
<1> QED
  BY <1>1 DEF IInv, LiveOwnsLock, Live, ReleasesOwnLock, OneReleaseSlot, Fresh,
     Connecting, NotIssued, PendingIsNewest, StartedInOrder, PostedInOrder

(* A pool thread moves one live runnable on; nothing new becomes live.     *)
LEMMA WorkerKeeps ==
    ASSUME IInv, TypeOK', NEW r \in Requests, Worker(r)
    PROVE  IInv'
<1>1. /\ Live(r)
      /\ \A q \in Requests : q # r => status'[q] = status[q]
      /\ status'[r] \in {"running", "finished", "error", "discarded"}
  BY DEF Worker, Begin, Emit, EndCancelled, Live, IInv, TypeOK
<1>2. UNCHANGED <<issued, slots, lock, pending, latest, todo, shown>>
  BY DEF Worker, Begin, Emit, EndCancelled, WorkerVarsUnchanged, queueVars
<1>3. \A q \in Requests : /\ Live(q)' => Live(q)
                          /\ status'[q] \in Unstarted <=> status[q] \in Unstarted
                          /\ status[q] = "new" => status'[q] = "new"
                          /\ status[q] = "waiting" => status'[q] = "waiting"
                          /\ status[q] = "finished" => status'[q] = "finished"
                          /\ status[q] \in {"new", "refused"} => status'[q] = status[q]
  BY <1>1 DEF Live, Unstarted
<1>4. LiveOwnsLock'
  BY <1>2, <1>3 DEF IInv, LiveOwnsLock
<1>5. OneReleaseSlot'
  BY <1>2 DEF IInv, OneReleaseSlot
<1>6. Fresh'
  BY <1>2, <1>3 DEF IInv, Fresh, Connecting
<1>7. NotIssued'
  BY <1>2, <1>3 DEF IInv, NotIssued
<1>8. PendingIsNewest'
  BY <1>2, <1>3 DEF IInv, TypeOK, PendingIsNewest
<1>9. StartedInOrder'
  BY <1>3 DEF IInv, StartedInOrder
<1>10. lock /\ \A i \in DOMAIN mailbox : mailbox[i].slot \notin Releases
  BY <1>1 DEF IInv, LiveOwnsLock, ReleasesOwnLock, Live
<1>11. ReleasesOwnLock' /\ PostedInOrder'
  <2>1. CASE mailbox' = mailbox
    <3>1. ReleasesOwnLock'
      BY <2>1, <1>10 DEF ReleasesOwnLock
    <3>2. PostedInOrder'
      BY <2>1, <1>2, <1>3, CallsTyped DEF IInv, TypeOK, PostedInOrder
    <3> QED
      BY <3>1, <3>2
  <2>2. ASSUME NEW outcome \in {"finished", "error"}, Emit(r, outcome)
        PROVE  ReleasesOwnLock' /\ PostedInOrder'
    <3> DEFINE e == Emission(r, outcome)
               n == Len(mailbox)
    <3>1. /\ status'[r] = outcome /\ mailbox' = mailbox \o e
          /\ e \in Seq(Connection) /\ mailbox \in Seq(Connection)
      BY <2>2, EmissionType DEF Emit, IInv, TypeOK
    <3>2. \A i \in DOMAIN e :
             /\ e[i].task = r
             /\ e[i].slot \in slots[r]
             /\ e[i].slot = "result" => outcome = "finished"
             /\ \A j \in DOMAIN e : e[j].slot = e[i].slot => j = i
      BY EmissionShape
    <3> HIDE DEF e
    <3>3. \A i \in DOMAIN mailbox' :
             \/ i \in DOMAIN mailbox /\ mailbox'[i] = mailbox[i] /\ i \in 1..n
             \/ i \in Nat /\ i > n /\ i - n \in DOMAIN e /\ mailbox'[i] = e[i - n]
      BY <3>1
    <3>4. \A q \in Requests : ~Live(q)'
      BY <1>1, <1>3, <3>1 DEF IInv, LiveOwnsLock, Live
    <3>5. \A i, j \in DOMAIN e :
             e[i].slot \in Releases /\ e[j].slot \in Releases => i = j
      BY <3>2 DEF IInv, OneReleaseSlot, Releases
    <3>6. ReleasesOwnLock'
      <4>1. \A q \in Requests : status'[q] \notin {"pool", "running"}
        BY <3>4 DEF Live
      <4>2. ASSUME NEW i \in DOMAIN mailbox', NEW j \in DOMAIN mailbox',
                   mailbox'[i].slot \in Releases, mailbox'[j].slot \in Releases
            PROVE  j = i
        <5>1. /\ i > n /\ i - n \in DOMAIN e /\ mailbox'[i] = e[i - n] /\ i \in Nat
              /\ j > n /\ j - n \in DOMAIN e /\ mailbox'[j] = e[j - n] /\ j \in Nat
          BY <1>10, <3>3, <4>2
        <5>2. i - n = j - n
          BY <3>5, <4>2, <5>1
        <5>3. n \in Nat
          BY <3>1
        <5> QED
          BY <5>1, <5>2, <5>3
      <4> QED
        BY <1>2, <1>10, <4>1, <4>2 DEF ReleasesOwnLock
    <3>7. PostedInOrder'
      <4>1. \A i \in DOMAIN mailbox :
               /\ mailbox[i].task \in Requests
               /\ mailbox[i].slot = "result" => mailbox[i].task <= r
        <5>1. \A q \in Requests : status[q] = "finished" => q <= r
          BY <1>1 DEF IInv, StartedInOrder, Unstarted, Requests
        <5> QED
          BY <5>1, CallsTyped DEF IInv, PostedInOrder
      <4>2. shown # None => shown \in Requests /\ shown <= r /\ status'[shown] = "finished"
        <5>1. \A q \in Requests : status[q] = "finished" => q <= r
          BY <1>1 DEF IInv, StartedInOrder, Unstarted, Requests
        <5> QED
          BY <5>1, <1>3 DEF IInv, TypeOK, PostedInOrder
      <4>3. shown <= r
        BY <4>2, NumRequestsAssumption DEF None, Requests
      <4>4. ASSUME NEW i \in DOMAIN mailbox', mailbox'[i].slot = "result"
            PROVE  /\ status'[mailbox'[i].task] = "finished"
                   /\ shown <= mailbox'[i].task
                   /\ \A j \in DOMAIN mailbox' :
                          mailbox'[j].slot = "result" /\ i < j =>
                              mailbox'[i].task <= mailbox'[j].task
        <5>1. CASE i \in DOMAIN mailbox /\ mailbox'[i] = mailbox[i] /\ i \in 1..n
          BY <5>1, <4>1, <4>4, <1>3, <3>2, <3>3 DEF IInv, PostedInOrder
        <5>2. CASE i \in Nat /\ i > n /\ i - n \in DOMAIN e /\ mailbox'[i] = e[i - n]
          <6>1. mailbox'[i].task = r /\ outcome = "finished"
            BY <5>2, <4>4, <3>2
          <6>2. ASSUME NEW j \in DOMAIN mailbox', mailbox'[j].slot = "result", i < j
                PROVE  mailbox'[j].task = r
            BY <5>2, <6>2, <3>1, <3>2, <3>3
          <6> QED
            BY <6>1, <6>2, <3>1, <4>3 DEF Requests
        <5> QED
          BY <5>1, <5>2, <3>3
      <4> QED
        BY <1>2, <4>2, <4>4 DEF PostedInOrder
    <3> QED
      BY <3>6, <3>7
  <2> QED
    BY <2>1, <2>2 DEF Worker, Begin, EndCancelled
<1> QED
  BY <1>4, <1>5, <1>6, <1>7, <1>8, <1>9, <1>11 DEF IInv

-----------------------------------------------------------------------------

LEMMA IInvInit == Init => IInv
<1> SUFFICES ASSUME Init, TypeOK
             PROVE  IInv
  BY InitTyped
<1> QED
  BY DEF Init, IInv, LiveOwnsLock, Live, ReleasesOwnLock, OneReleaseSlot, Fresh,
     Connecting, NotIssued, PendingIsNewest, StartedInOrder, PostedInOrder, None,
     Unstarted

LEMMA IInvStep == IInv /\ [Next]_vars => IInv'
<1>1. IInv /\ [Next]_vars => TypeOK'
  BY StepTyped DEF IInv
<1> QED
  BY <1>1, RequestKeeps, ConnectKeeps, DeliverKeeps, CancelKeeps, WorkerKeeps DEF Next

LEMMA Inductive == Spec => []IInv
BY IInvInit, IInvStep, PTL DEF Spec

(* "Only one task per queue runs at a time": for any number of requests,   *)
(* cancellations, lost signals and second runs.                            *)
THEOREM MutualExclusionHolds == Spec => []MutualExclusion
<1>1. IInv => MutualExclusion
  BY DEF IInv, LiveOwnsLock, Live, MutualExclusion
<1> QED
  BY <1>1, Inductive, PTL

(* The lock is given back once per acquisition, never while it is free.    *)
THEOREM ReleasesOwnLockHolds == Spec => []ReleasesOwnLock
<1>1. IInv => ReleasesOwnLock
  BY DEF IInv
<1> QED
  BY <1>1, Inductive, PTL

(* What is pending is the newest accepted request.                         *)
THEOREM PendingIsNewestHolds == Spec => []PendingIsNewest
<1>1. IInv => PendingIsNewest
  BY DEF IInv
<1> QED
  BY <1>1, Inductive, PTL

(* on_finished never gets the result of a request earlier than the one     *)
(* whose result it got last.                                               *)
THEOREM ResultsInOrderHolds == Spec => ResultsInOrder
<1>1. IInv /\ [Next]_vars => [shown' >= shown]_vars
  <2> SUFFICES ASSUME IInv, [Next]_vars
               PROVE  shown' >= shown
    OBVIOUS
  <2>1. shown \in Int
    BY DEF IInv, TypeOK, Requests, None
  <2>2. CASE UNCHANGED shown
    BY <2>1, <2>2
  <2>3. CASE Deliver
    <3>1. Head(mailbox) = mailbox[1] /\ 1 \in DOMAIN mailbox
      BY <2>3 DEF Deliver, IInv, TypeOK
    <3>2. CASE Head(mailbox).slot = "result" /\ DeliverResult(Head(mailbox).task)
      <4>1. shown' = mailbox[1].task /\ shown <= mailbox[1].task
        BY <3>1, <3>2 DEF DeliverResult, IInv, PostedInOrder
      <4>2. mailbox[1].task \in Int
        BY <3>1, CallsTyped DEF IInv, Requests
      <4> QED
        BY <2>1, <4>1, <4>2
    <3> QED
      BY <2>1, <2>3, <3>2 DEF Deliver
  <2>4. Deliver \/ UNCHANGED shown
    BY DEF Next, Request, Connect, Cancel, Shutdown, Worker,
       Begin, Emit, EndCancelled, WorkerVarsUnchanged, vars
  <2> QED
    BY <2>2, <2>3, <2>4
<1> QED
  BY <1>1, Inductive, PTL DEF Spec, ResultsInOrder

LEMMA StepKeepsOutcome ==
    ASSUME IInv, [Next]_vars, NEW r \in Requests
    PROVE  [Outcome(r)!Next]_(Outcome(r)!vars)
<1>1. \A q \in Requests : cancelled[q] \in BOOLEAN /\ status[q] \in Statuses
  BY DEF IInv, TypeOK
<1>2. ASSUME /\ \/ status'[r] = status[r]
                \/ status[r] \in Unstarted /\ status'[r] \in Unstarted \cup {"pool"}
             /\ cancelled'[r] = cancelled[r] \/ cancelled'[r] = TRUE
      PROVE  [Outcome(r)!Next]_(Outcome(r)!vars)
  <2>1. PhaseOf(r)' = PhaseOf(r) /\ SignalOf(r)' = SignalOf(r)
    BY <1>2 DEF PhaseOf, SignalOf, Reported, Unstarted
  <2> QED
    BY <1>2, <2>1 DEF Outcome!Next, Outcome!vars, Outcome!Cancel
<1>3. ASSUME NEW q \in Requests, Request(q)
      PROVE  [Outcome(r)!Next]_(Outcome(r)!vars)
  <2>1. status[q] = "new"
    BY <1>3 DEF Request, IInv, TypeOK, NotIssued, Requests
  <2>2. \/ status' = [status EXCEPT ![q] = "refused"]
        \/ status' = [status EXCEPT ![q] = "waiting"]
        \/ status' = [status EXCEPT ![q] = "pool"]
    BY <1>3 DEF Request, RequestRefused, RequestIdle, RequestBusy, Submit
  <2>3. cancelled'[r] = cancelled[r] \/ cancelled'[r] = TRUE
    BY <1>1, <1>3 DEF Request, RequestRefused, RequestIdle, RequestBusy, Submit,
       CancelRegistered
  <2> QED
    BY <1>2, <2>1, <2>2, <2>3 DEF IInv, TypeOK, Unstarted
<1>4. CASE Deliver
  <2>1. cancelled'[r] = cancelled[r] \/ cancelled'[r] = TRUE
    BY <1>1, <1>4 DEF Deliver, DeliverResult, ReleaseAndCheck, Unlock, Rerun, Submit,
       CancelRegistered, taskVars
  <2>2. \/ status' = status
        \/ pending /\ status' = [status EXCEPT ![latest] = "pool"]
    <3>1. \/ status' = status
          \/ pending /\ Rerun
      BY <1>4 DEF Deliver, DeliverResult, ReleaseAndCheck, Unlock, taskVars
    <3>2. Rerun => status' = status \/ status' = [status EXCEPT ![latest] = "pool"]
      BY DEF Rerun, Submit, taskVars
    <3> QED
      BY <3>1, <3>2
  <2>3. pending => status[latest] = "waiting"
    BY DEF IInv, PendingIsNewest
  <2> QED
    BY <1>2, <2>1, <2>2, <2>3 DEF IInv, TypeOK, Unstarted
<1>5. CASE Connect \/ UNCHANGED vars
  BY <1>2, <1>5 DEF Connect, vars, taskVars
<1>6. CASE Cancel \/ Shutdown
  BY <1>1, <1>2, <1>6 DEF Cancel, Shutdown, CancelRegistered
<1>7. ASSUME NEW q \in Requests, Worker(q)
      PROVE  [Outcome(r)!Next]_(Outcome(r)!vars)
  <2>1. cancelled' = cancelled
    BY <1>7 DEF Worker, Begin, Emit, EndCancelled, WorkerVarsUnchanged
  <2>2. CASE q # r
    BY <1>2, <1>7, <2>1, <2>2 DEF Worker, Begin, Emit, EndCancelled, IInv, TypeOK
  <2>3. CASE q = r
    <3>1. \/ /\ PhaseOf(r) = "queued" /\ SignalOf(r)' = SignalOf(r)
             /\ PhaseOf(r)' = IF cancelled[r] THEN "ended" ELSE "running"
          \/ /\ PhaseOf(r) = "running" /\ PhaseOf(r)' = "ended"
             /\ \/ SignalOf(r)' \in {"finished", "error"}
                \/ cancelled[r] /\ SignalOf(r)' = SignalOf(r)
      BY <1>7, <2>3 DEF Worker, Begin, Emit, EndCancelled, IInv, TypeOK, PhaseOf,
         SignalOf, Reported
    <3> QED
      BY <2>1, <3>1 DEF Outcome!Next, Outcome!vars, Outcome!Begin, Outcome!Discard,
         Outcome!Report, Outcome!EndSilently
  <2> QED
    BY <2>2, <2>3
<1> QED
  BY <1>3, <1>4, <1>5, <1>6, <1>7 DEF Next

(* Every step of the queue is, for each of its runnables, a step of        *)
(* TaskOutcome or none: no second signal, none after a cancelled wait in   *)
(* the pool.                                                               *)
THEOREM KeepsOutcomeHolds == Spec => KeepsOutcome
<1>1. IInv /\ [Next]_vars => [\A r \in Requests : [Outcome(r)!Next]_(Outcome(r)!vars)]_vars
  BY StepKeepsOutcome
<1> QED
  BY <1>1, Inductive, PTL DEF Spec, KeepsOutcome

-----------------------------------------------------------------------------
(* What becomes of a task's result.  These facts serve the modules that    *)
(* the queue is a part of.                                                 *)

Result(r) == [task |-> r, slot |-> "result"]

(* on_finished is connected to a live task, or will be before the main     *)
(* thread is idle again.                                                   *)
ResultConnected ==
    \A r \in Requests :
        Live(r) => "result" \in slots[r] \/ \E i \in DOMAIN todo : todo[i] = Result(r)

(* A result is posted once and not again after it was shown.               *)
PostedOnce ==
    \A i \in DOMAIN mailbox : mailbox[i].slot = "result" =>
        /\ mailbox[i].task # shown
        /\ \A j \in DOMAIN mailbox : mailbox[j] = mailbox[i] => j = i

(* Only cancel() and shutdown() cancel a live task: submit() cancels the   *)
(* one that is registered, which has ended by then.                        *)
CancelledOnDemand ==
    /\ registered # None => status[registered] \notin Unstarted
    /\ \A r \in Requests : cancelled[r] => status[r] \notin Unstarted
    /\ cancels = 0 /\ ~down => \A r \in Requests : cancelled[r] => ~Live(r)

ResultInv == IInv /\ ResultConnected /\ PostedOnce /\ CancelledOnDemand

LEMMA ResultInvInit == Init => ResultInv
BY IInvInit DEF Init, ResultInv, ResultConnected, PostedOnce, CancelledOnDemand, Live, None,
   Unstarted

LEMMA SubmitKeepsResults ==
    ASSUME ResultInv, IInv', NEW r \in Requests, NEW last \in Releases,
           Submit(r, <<"result", last>>),
           status[r] \in Unstarted,
           \A q \in Requests : ~Live(q),
           UNCHANGED <<down, cancels>>
    PROVE  ResultConnected' /\ CancelledOnDemand'
<1> USE DEF ResultInv
<1>1. /\ status' = [status EXCEPT ![r] = "pool"] /\ slots' = slots /\ registered' = r
      /\ cancelled' = [q \in Requests |-> cancelled[q] \/ q = registered]
      /\ todo' = <<[task |-> r, slot |-> "result"], [task |-> r, slot |-> last]>>
  BY DEF Submit, CancelRegistered
<1>2. /\ status'[r] = "pool" /\ \A q \in Requests : q # r => status'[q] = status[q]
      /\ r # None /\ registered \in Requests \cup {None}
  BY <1>1 DEF IInv, TypeOK, Requests, None
<1>3. ResultConnected'
  <2>1. \A q \in Requests : Live(q)' => q = r
    BY <1>2 DEF Live
  <2>2. 1 \in DOMAIN todo' /\ todo'[1] = Result(r)
    BY <1>1 DEF Result
  <2>3. \A q \in Requests : Live(q)' => \E i \in DOMAIN todo' : todo'[i] = Result(q)
    BY <2>1, <2>2
  <2> QED
    BY <2>3 DEF ResultConnected, Result
<1>4. CancelledOnDemand'
  <2>1. \A q \in Requests : cancelled'[q] => q # r
    BY <1>1, <1>2 DEF CancelledOnDemand, None
  <2>2. \A q \in Requests : cancelled'[q] => status'[q] = status[q] /\ ~Live(q)
    BY <1>2, <2>1
  <2>3. \A q \in Requests : cancelled'[q] => status'[q] \notin Unstarted
    <3>1. \A q \in Requests : cancelled'[q] => cancelled[q] \/ q = registered
      BY <1>1
    <3>2. \A q \in Requests : q # None
      BY DEF Requests, None
    <3> QED
      BY <2>2, <3>1, <3>2 DEF CancelledOnDemand
  <2>4. \A q \in Requests : cancelled'[q] => ~Live(q)'
    BY <2>2 DEF Live
  <2>5. registered' # None => status'[registered'] \notin Unstarted
    BY <1>1, <1>2 DEF Unstarted
  <2> QED
    BY <2>3, <2>4, <2>5 DEF CancelledOnDemand
<1> QED
  BY <1>3, <1>4

LEMMA RequestKeepsResults ==
    ASSUME ResultInv, IInv', NEW r \in Requests, Request(r)
    PROVE  ResultInv'
<1> USE DEF ResultInv
<1>1. /\ MainIdle /\ r = issued + 1 /\ UNCHANGED <<mailbox, shown, down, cancels>>
      /\ status[r] = "new"
  BY DEF Request, IInv, TypeOK, NotIssued, Requests
<1>2. CASE RequestIdle(r)
  <2>1. Submit(r, <<"result", "release">>) /\ ~lock /\ "release" \in Releases
    BY <1>2 DEF RequestIdle, FirstRunSlots, Releases
  <2>2. \A q \in Requests : ~Live(q)
    BY <2>1, NothingLive
  <2>3. status[r] \in Unstarted
    BY <1>1 DEF Unstarted
  <2>4. PostedOnce'
    BY <1>1 DEF PostedOnce
  <2> QED
    BY <1>1, <2>1, <2>2, <2>3, <2>4, SubmitKeepsResults
<1>3. CASE RequestRefused(r) \/ RequestBusy(r)
  <2>1. /\ UNCHANGED <<cancelled, slots, registered, todo>>
        /\ \E s \in {"refused", "waiting"} : status' = [status EXCEPT ![r] = s]
    BY <1>3 DEF RequestRefused, RequestBusy
  <2>2. /\ status'[r] \in {"refused", "waiting"}
        /\ \A q \in Requests : q # r => status'[q] = status[q]
    BY <2>1 DEF IInv, TypeOK
  <2>3. \A q \in Requests : Live(q)' <=> Live(q)
    BY <1>1, <2>2 DEF Live
  <2>4. ResultConnected' /\ PostedOnce'
    BY <1>1, <2>1, <2>3 DEF ResultConnected, PostedOnce
  <2>5. \A q \in Requests : status[q] \notin Unstarted => status'[q] \notin Unstarted
    BY <1>1, <2>2 DEF Unstarted
  <2>6. registered \in Requests \cup {None}
    BY DEF IInv, TypeOK
  <2>7. CancelledOnDemand'
    BY <1>1, <2>1, <2>3, <2>5, <2>6 DEF CancelledOnDemand
  <2> QED
    BY <2>4, <2>7
<1> QED
  BY <1>2, <1>3 DEF Request

LEMMA ConnectKeepsResults ==
    ASSUME ResultInv, IInv', Connect
    PROVE  ResultInv'
<1> USE DEF ResultInv
<1> DEFINE c == Head(todo)
<1>1. /\ c \in Connection /\ c = todo[1] /\ todo \in Seq(Connection) /\ todo # <<>>
      /\ todo' = Tail(todo)
  BY HeadTailProperties DEF Connect, IInv, TypeOK
<1>2. /\ UNCHANGED <<status, cancelled, registered, mailbox, shown, down, cancels>>
      /\ slots' = [slots EXCEPT ![c.task] = @ \cup {c.slot}]
  BY DEF Connect, queueVars
<1>3. PostedOnce' /\ CancelledOnDemand'
  BY <1>2 DEF PostedOnce, CancelledOnDemand, Live
<1>4. ResultConnected'
  <2> SUFFICES ASSUME NEW r \in Requests, Live(r)
               PROVE  "result" \in slots'[r] \/ \E i \in DOMAIN todo' : todo'[i] = Result(r)
    BY <1>2 DEF ResultConnected, Live
  <2>1. slots[r] \subseteq slots'[r] /\ (c = Result(r) => "result" \in slots'[r])
    BY <1>2 DEF IInv, TypeOK, Result
  <2>2. ASSUME NEW i \in DOMAIN todo, todo[i] = Result(r), c # Result(r)
        PROVE  \E k \in DOMAIN todo' : todo'[k] = Result(r)
    <3>1. i \in 1..Len(todo) /\ i # 1 /\ Len(todo) \in Nat
      BY <1>1, <2>2
    <3>2. /\ i - 1 \in DOMAIN todo' /\ todo'[i - 1] = todo[i]
      BY <1>1, <3>1
    <3> QED
      BY <2>2, <3>2
  <2> QED
    BY <2>1, <2>2 DEF ResultConnected
<1> QED
  BY <1>3, <1>4

LEMMA DeliverKeepsResults ==
    ASSUME ResultInv, IInv', Deliver
    PROVE  ResultInv'
<1> USE DEF ResultInv
<1> DEFINE c == Head(mailbox)
<1>1. /\ c = mailbox[1] /\ 1 \in DOMAIN mailbox /\ UNCHANGED <<down, cancels>> /\ MainIdle
      /\ \A i \in DOMAIN mailbox' :
            i \in Nat \ {0} /\ mailbox'[i] = mailbox[i + 1] /\ i + 1 \in DOMAIN mailbox
  BY HeadTailProperties DEF Deliver, IInv, TypeOK
<1>2. ASSUME NEW i \in DOMAIN mailbox', mailbox'[i].slot = "result"
      PROVE  /\ mailbox'[i] # c /\ mailbox'[i].task # shown
             /\ \A k \in DOMAIN mailbox' : mailbox'[k] = mailbox'[i] => k = i
  <2>1. /\ i + 1 \in DOMAIN mailbox /\ mailbox'[i] = mailbox[i + 1] /\ i + 1 # 1
        /\ mailbox[i + 1].slot = "result"
    BY <1>1, <1>2
  <2>2. /\ mailbox[i + 1].task # shown
        /\ \A j \in DOMAIN mailbox : mailbox[j] = mailbox[i + 1] => j = i + 1
    BY <2>1 DEF PostedOnce
  <2>3. ASSUME NEW k \in DOMAIN mailbox', mailbox'[k] = mailbox'[i]
        PROVE  k = i
    <3>1. k + 1 \in DOMAIN mailbox /\ mailbox[k + 1] = mailbox[i + 1] /\ k \in Nat /\ i \in Nat
      BY <1>1, <2>1, <2>3
    <3>2. k + 1 = i + 1
      BY <2>2, <3>1
    <3> QED
      BY <3>1, <3>2
  <2> QED
    BY <1>1, <2>1, <2>2, <2>3
<1>3. CASE c.slot = "result" /\ DeliverResult(c.task)
  <2>1. UNCHANGED <<status, cancelled, slots, registered, todo>> /\ shown' = c.task
    BY <1>3 DEF DeliverResult, taskVars
  <2>2. \A i \in DOMAIN mailbox :
            mailbox[i] = [task |-> mailbox[i].task, slot |-> mailbox[i].slot]
    <3>1. \A i \in DOMAIN mailbox : mailbox[i] \in Connection
      BY DEF IInv, TypeOK
    <3>2. \A x \in Connection : x = [task |-> x.task, slot |-> x.slot]
      BY DEF Connection
    <3> QED
      BY <3>1, <3>2
  <2>3. ASSUME NEW i \in DOMAIN mailbox', mailbox'[i].slot = "result"
        PROVE  mailbox'[i].task # c.task
    <3>1. /\ mailbox'[i] = [task |-> mailbox'[i].task, slot |-> mailbox'[i].slot]
          /\ c = [task |-> c.task, slot |-> c.slot]
      BY <1>1, <2>2
    <3> QED
      BY <1>2, <1>3, <2>3, <3>1
  <2>4. PostedOnce'
    BY <1>2, <2>1, <2>3 DEF PostedOnce
  <2> QED
    BY <1>1, <2>1, <2>4 DEF ResultConnected, CancelledOnDemand, Live
<1>4. CASE (Unlock \/ (Rerun /\ ~(latest # None /\ ~down))) /\ UNCHANGED shown
  <2>1. UNCHANGED <<status, cancelled, slots, registered, todo, shown>>
    BY <1>4 DEF Unlock, Rerun, taskVars
  <2>2. PostedOnce'
    BY <1>2, <2>1 DEF PostedOnce
  <2> QED
    BY <1>1, <2>1, <2>2 DEF ResultConnected, CancelledOnDemand, Live
<1>5. CASE c.slot \in Releases /\ pending /\ Rerun /\ latest # None /\ ~down /\ UNCHANGED shown
  <2>1. /\ latest \in Requests /\ status[latest] \in Unstarted
        /\ Submit(latest, <<"result", "unlock">>) /\ "unlock" \in Releases
    BY <1>5 DEF IInv, TypeOK, PendingIsNewest, Unstarted, Rerun, RerunSlots, Releases
  <2>2. \A q \in Requests : ~Live(q)
    BY <1>1, <1>5, NothingLive
  <2>3. PostedOnce'
    BY <1>2, <1>5 DEF PostedOnce
  <2> QED
    BY <1>1, <2>1, <2>2, <2>3, SubmitKeepsResults
<1> QED
  BY <1>3, <1>4, <1>5 DEF Deliver, ReleaseAndCheck, Releases

(* The result of a finished task is posted behind what is posted already.  *)
LEMMA EmitPosts ==
    ASSUME ResultInv, NEW r \in Requests, NEW outcome \in {"finished", "error"},
           Emit(r, outcome), FastTasks = FALSE
    PROVE  /\ \A i \in DOMAIN mailbox : i \in DOMAIN mailbox' /\ mailbox'[i] = mailbox[i]
           /\ outcome = "finished" => \E i \in DOMAIN mailbox' : mailbox'[i] = Result(r)
<1> DEFINE e == Emission(r, outcome)
           y == Post(r, "release", TRUE)
           z == Post(r, "unlock", TRUE)
<1>1. /\ mailbox \in Seq(Connection) /\ e \in Seq(Connection) /\ mailbox' = mailbox \o e
      /\ ~Connecting(r) /\ Live(r)
  BY EmissionType DEF Emit, ResultInv, IInv, TypeOK, Live
<1>2. "result" \in slots[r]
  BY <1>1 DEF ResultInv, ResultConnected, Connecting, Result
<1>3. ASSUME outcome = "finished"
      PROVE  1 \in DOMAIN e /\ e[1] = Result(r)
  <2>1. Post(r, "result", outcome = "finished") = <<Result(r)>>
    BY <1>2, <1>3 DEF Post, Result
  <2>2. e = (<<Result(r)>> \o y) \o z
    BY <2>1 DEF Emission
  <2>3. y \in Seq(Connection) /\ z \in Seq(Connection) /\ Result(r) \in Connection
    BY PostType DEF Connection, Result, Slots
  <2> HIDE DEF e, y, z
  <2> QED
    BY <2>2, <2>3
<1> HIDE DEF e
<1>4. \A i \in DOMAIN mailbox : i \in DOMAIN mailbox' /\ mailbox'[i] = mailbox[i]
  BY <1>1
<1>5. 1 \in DOMAIN e => /\ Len(mailbox) + 1 \in DOMAIN mailbox'
                        /\ mailbox'[Len(mailbox) + 1] = e[1]
  BY <1>1
<1> QED
  BY <1>3, <1>4, <1>5

LEMMA WorkerKeepsResults ==
    ASSUME ResultInv, IInv', NEW r \in Requests, Worker(r)
    PROVE  ResultInv'
<1> USE DEF ResultInv
<1>1. /\ Live(r)
      /\ \A q \in Requests : q # r => status'[q] = status[q]
      /\ status'[r] \in {"running", "finished", "error", "discarded"}
      /\ UNCHANGED <<slots, todo, shown, cancelled, registered, down, cancels>>
  BY DEF Worker, Begin, Emit, EndCancelled, Live, IInv, TypeOK, WorkerVarsUnchanged
<1>2. \A q \in Requests : /\ Live(q)' => Live(q)
                          /\ status[q] \notin Unstarted => status'[q] \notin Unstarted
  BY <1>1 DEF Live, Unstarted
<1>3. ResultConnected'
  BY <1>1, <1>2 DEF ResultConnected
<1>4. registered \in Requests \cup {None}
  BY DEF IInv, TypeOK
<1>5. CancelledOnDemand'
  BY <1>1, <1>2, <1>4 DEF CancelledOnDemand
<1>6. CASE mailbox' = mailbox
  BY <1>1, <1>3, <1>5, <1>6 DEF PostedOnce
<1>7. ASSUME NEW outcome \in {"finished", "error"}, Emit(r, outcome)
      PROVE  PostedOnce'
  <2> DEFINE e == Emission(r, outcome)
             n == Len(mailbox)
  <2>1. /\ mailbox' = mailbox \o e /\ e \in Seq(Connection) /\ mailbox \in Seq(Connection)
        /\ n \in Nat
    BY <1>7, EmissionType DEF Emit, IInv, TypeOK
  <2>2. \A i \in DOMAIN e :
           /\ e[i].task = r
           /\ \A j \in DOMAIN e : e[j].slot = e[i].slot => j = i
    BY EmissionShape
  <2> HIDE DEF e
  <2>3. \A i \in DOMAIN mailbox' :
           \/ i \in DOMAIN mailbox /\ mailbox'[i] = mailbox[i] /\ i \in 1..n
           \/ i \in Nat /\ i > n /\ i - n \in DOMAIN e /\ mailbox'[i] = e[i - n]
    BY <2>1
  <2>4. \A i \in DOMAIN mailbox : mailbox[i].slot = "result" => mailbox[i].task # r
    BY <1>1 DEF IInv, PostedInOrder, Live
  <2>5. shown # r
    BY <1>1 DEF IInv, PostedInOrder, Live, None, Requests
  <2>6. ASSUME NEW i \in DOMAIN mailbox', mailbox'[i].slot = "result"
        PROVE  /\ mailbox'[i].task # shown
               /\ \A j \in DOMAIN mailbox' : mailbox'[j] = mailbox'[i] => j = i
    <3>1. CASE i \in DOMAIN mailbox /\ mailbox'[i] = mailbox[i]
      <4>1. mailbox[i].task # r /\ mailbox[i].task # shown
        BY <2>4, <2>6, <3>1 DEF PostedOnce
      <4>2. ASSUME NEW j \in DOMAIN mailbox', mailbox'[j] = mailbox'[i]
            PROVE  j = i
        <5>1. j \in DOMAIN mailbox /\ mailbox'[j] = mailbox[j]
          BY <2>2, <2>3, <3>1, <4>1, <4>2
        <5> QED
          BY <2>6, <3>1, <4>2, <5>1 DEF PostedOnce
      <4> QED
        BY <3>1, <4>1, <4>2
    <3>2. CASE i \in Nat /\ i > n /\ i - n \in DOMAIN e /\ mailbox'[i] = e[i - n]
      <4>1. mailbox'[i].task = r
        BY <2>2, <3>2
      <4>2. ASSUME NEW j \in DOMAIN mailbox', mailbox'[j] = mailbox'[i]
            PROVE  j = i
        <5>1. j \in Nat /\ j > n /\ j - n \in DOMAIN e /\ mailbox'[j] = e[j - n]
          BY <2>3, <2>4, <2>6, <4>1, <4>2
        <5>2. j - n = i - n
          BY <2>2, <3>2, <4>2, <5>1
        <5> QED
          BY <2>1, <3>2, <5>1, <5>2
      <4> QED
        BY <2>5, <4>1, <4>2
    <3> QED
      BY <2>3, <3>1, <3>2
  <2> QED
    BY <1>1, <2>6 DEF PostedOnce
<1> QED
  BY <1>3, <1>5, <1>6, <1>7 DEF Worker, Begin, EndCancelled

LEMMA ResultInvStep == ResultInv /\ [Next]_vars => ResultInv'
<1> SUFFICES ASSUME ResultInv, [Next]_vars, IInv'
             PROVE  ResultInv'
  BY IInvStep DEF ResultInv
<1>1. CASE Cancel \/ Shutdown \/ UNCHANGED vars
  <2>1. UNCHANGED <<status, slots, todo, mailbox, shown>>
    BY <1>1 DEF Cancel, Shutdown, vars, taskVars, queueVars
  <2>2. ResultConnected' /\ PostedOnce'
    BY <2>1 DEF ResultInv, ResultConnected, PostedOnce, Live
  <2>3. CASE UNCHANGED <<cancelled, registered, down, cancels>>
    BY <2>1, <2>2, <2>3 DEF ResultInv, CancelledOnDemand, Live
  <2>4. CASE Cancel \/ Shutdown
    <3>1. /\ \A r \in Requests : cancelled'[r] => cancelled[r] \/ r = registered
          /\ registered' = None
      BY <2>4 DEF Cancel, Shutdown, CancelRegistered
    <3>3. \A r \in Requests : r # None
      BY NumRequestsAssumption DEF Requests, None
    <3>2. cancels' # 0 \/ down'
      BY <2>4 DEF Cancel, Shutdown, ResultInv, IInv, TypeOK
    <3> QED
      BY <2>1, <2>2, <3>1, <3>2, <3>3 DEF ResultInv, CancelledOnDemand
  <2> QED
    BY <1>1, <2>3, <2>4 DEF vars, taskVars
<1> QED
  BY <1>1, RequestKeepsResults, ConnectKeepsResults, DeliverKeepsResults, WorkerKeepsResults
  DEF Next
=============================================================================
