------------------------- MODULE RefreshPipelineProofs -------------------------
(***************************************************************************)
(* From a notification to the result of the refresh it asked for, for any  *)
(* number of changes and requests: what is shown is not older than the     *)
(* notification, whoever else uses the cache in between.                   *)
(***************************************************************************)
EXTENDS RefreshPipeline, TLAPS

Numbers ==
    /\ world \in Nat \ {0} /\ cached \in Nat /\ issued \in Nat /\ latest \in Nat
    /\ age \in {"fresh", "old", "invalid"}
    /\ got \in [Requests -> Int]
    /\ cachedGap \in Gaps /\ gotGap \in [Requests -> Gaps]
    /\ asked \in [Requests -> Nat]
    /\ status \in [Requests -> Queue!Statuses]

\* A request has no past before it is made.
MadeFirst ==
    /\ latest <= issued
    /\ \A r \in Requests : r > issued => status[r] = "new" /\ got[r] = NotRead

AskedIsPast == \A r \in Requests : asked[r] <= world

\* As long as a request has not read, the cache either has no value from before it
\* was made, or will not return it.
CacheIsSafe ==
    \A r \in Requests :
        got[r] = NotRead => age = "invalid" \/ cached = Empty \/ cached >= asked[r]

\* What a silently failed read left is never returned again once it was invalidated.
GapIsKnown == cachedGap = "before" => age = "invalid"

ReadSince ==
    \A r \in Requests : got[r] # NotRead =>
        (got[r] >= asked[r] /\ gotGap[r] # "before") \/ r \in stale

FinishedHasRead == \A r \in Requests : status[r] = "finished" => got[r] # NotRead

SeesInv ==
    /\ Numbers
    /\ MadeFirst
    /\ AskedIsPast
    /\ CacheIsSafe
    /\ GapIsKnown
    /\ ReadSince
    /\ FinishedHasRead

LEMMA SeesInit == Init => SeesInv
<1> SUFFICES ASSUME Init
             PROVE  SeesInv
  OBVIOUS
<1> USE DEF Init, Queue!Init, Queue!None, NotRead, Empty, Requests, Queue!Requests
<1>1. Numbers
  BY DEF Numbers, Queue!Statuses, Gaps
<1>2. MadeFirst
  BY DEF MadeFirst
<1>3. AskedIsPast /\ CacheIsSafe /\ GapIsKnown /\ ReadSince /\ FinishedHasRead
  BY DEF AskedIsPast, CacheIsSafe, GapIsKnown, ReadSince, FinishedHasRead
<1> QED
  BY <1>1, <1>2, <1>3 DEF SeesInv

\* What a step of the queue does to the requests.
QueueMoves(made) ==
    /\ issued' = made /\ latest' \in Nat /\ latest' <= made
    /\ status' \in [Requests -> Queue!Statuses]
    /\ \A r \in Requests : r > made => status'[r] = status[r]

LEMMA StatusMoves ==
    ASSUME SeesInv, NEW q, NEW s \in Queue!Statuses, s # "finished",
           status' = [status EXCEPT ![q] = s]
    PROVE  /\ status' \in [Requests -> Queue!Statuses]
           /\ \A r \in Requests : \/ status'[r] = status[r]
                                  \/ r = q /\ status'[r] # "finished"
BY DEF SeesInv, Numbers

LEMMA RequestMoves ==
    ASSUME SeesInv, Queue!Request(issued + 1)
    PROVE  /\ QueueMoves(issued + 1)
           /\ \A r \in Requests : status'[r] = "finished" => status[r] = "finished"
<1>1. /\ issued' = issued + 1 /\ latest' \in {latest, issued + 1, 0}
      /\ \E s \in {"refused", "pool", "waiting"} : status' = [status EXCEPT ![issued + 1] = s]
  BY DEF Queue!Request, Queue!RequestRefused, Queue!RequestIdle, Queue!RequestBusy,
         Queue!Submit, Queue!queueVars, Queue!None
<1>2. PICK s \in {"refused", "pool", "waiting"} : status' = [status EXCEPT ![issued + 1] = s]
  BY <1>1
<1>3. s \in Queue!Statuses /\ s # "finished"
  BY DEF Queue!Statuses
<1>4. /\ status' \in [Requests -> Queue!Statuses]
      /\ \A r \in Requests : \/ status'[r] = status[r]
                             \/ r = issued + 1 /\ status'[r] # "finished"
  BY <1>2, <1>3, StatusMoves
<1>5. issued \in Nat /\ latest \in Nat /\ latest <= issued
  BY DEF SeesInv, Numbers, MadeFirst
<1>6. latest' \in Nat /\ latest' <= issued + 1
  BY <1>1, <1>5
<1> QED
  BY <1>1, <1>4, <1>5, <1>6 DEF QueueMoves, Requests

LEMMA DeliverMoves ==
    ASSUME SeesInv, Queue!Deliver
    PROVE  /\ QueueMoves(issued)
           /\ \A r \in Requests : status'[r] = "finished" => status[r] = "finished"
<1>1. issued' = issued /\ latest' \in {latest, 0}
  BY DEF Queue!Deliver, Queue!DeliverResult, Queue!ReleaseAndCheck, Queue!Rerun,
         Queue!Unlock, Queue!queueVars, Queue!None
<1>2. UNCHANGED status \/ status' = [status EXCEPT ![latest] = "pool"]
  BY DEF Queue!Deliver, Queue!DeliverResult, Queue!ReleaseAndCheck, Queue!Rerun,
         Queue!Unlock, Queue!Submit, Queue!taskVars
<1>3. "pool" \in Queue!Statuses /\ "pool" # "finished"
  BY DEF Queue!Statuses
<1>4. issued \in Nat /\ latest \in Nat /\ latest <= issued
      /\ status \in [Requests -> Queue!Statuses]
  BY DEF SeesInv, Numbers, MadeFirst
<1>5. /\ status' \in [Requests -> Queue!Statuses]
      /\ \A r \in Requests : \/ status'[r] = status[r]
                             \/ r = latest /\ status'[r] # "finished"
  BY <1>2, <1>3, <1>4, StatusMoves
<1> QED
  BY <1>1, <1>4, <1>5 DEF QueueMoves, Requests

\* What get() may return and leave behind: a value that is not older than any
\* request that waits for it, or a failure; and a cache that is safe again.
LEMMA GetsSafe ==
    ASSUME SeesInv, NEW g \in Gets
    PROVE  /\ g.cached \in Nat /\ g.age \in {"fresh", "old", "invalid"} /\ g.gap \in Gaps
           /\ g.value \in Int /\ g.value # NotRead
           /\ g.gap = "before" => g.age = "invalid" /\ g.failed
           /\ \A r \in Requests : got[r] = NotRead =>
                /\ g.age = "invalid" \/ g.cached = Empty \/ g.cached >= asked[r]
                /\ g.failed \/ g.value >= asked[r]
<1> USE DEF SeesInv, Numbers, AskedIsPast, CacheIsSafe, GapIsKnown, Outcome, Empty, NotRead,
            Raised
<1>1. CASE g = Outcome(cached, cached, cachedGap, age, FALSE) /\ cached # Empty /\ age = "fresh"
  BY <1>1
<1>2. ASSUME NEW gap \in {"none", "since"}, g = Outcome(world, world, gap, "fresh", FALSE)
      PROVE  /\ g.cached \in Nat /\ g.age \in {"fresh", "old", "invalid"} /\ g.gap \in Gaps
             /\ g.value \in Int /\ g.value # NotRead
             /\ g.gap = "before" => g.age = "invalid" /\ g.failed
             /\ \A r \in Requests : got[r] = NotRead =>
                  /\ g.age = "invalid" \/ g.cached = Empty \/ g.cached >= asked[r]
                  /\ g.failed \/ g.value >= asked[r]
  BY <1>2 DEF Gaps
<1>3. ASSUME NEW b \in AgesAfterFailure(age),
             g = Outcome(IF cached = Empty THEN Raised ELSE cached, cached, cachedGap, b, TRUE)
      PROVE  /\ g.cached \in Nat /\ g.age \in {"fresh", "old", "invalid"} /\ g.gap \in Gaps
             /\ g.value \in Int /\ g.value # NotRead
             /\ g.gap = "before" => g.age = "invalid" /\ g.failed
             /\ \A r \in Requests : got[r] = NotRead =>
                  /\ g.age = "invalid" \/ g.cached = Empty \/ g.cached >= asked[r]
                  /\ g.failed \/ g.value >= asked[r]
  <2>1. b \in {"fresh", "old", "invalid"} /\ (age = "invalid" => b = "invalid")
    BY <1>3 DEF AgesAfterFailure
  <2>2. /\ g.cached = cached /\ g.age = b /\ g.failed /\ g.gap = cachedGap
        /\ g.value = IF cached = 0 THEN -1 ELSE cached
    BY <1>3
  <2> QED
    BY <2>1, <2>2
<1> QED
  BY <1>1, <1>2, <1>3 DEF Gets

\* Somebody reads through the cache, and nothing else happens.
LEMMA GetsStep ==
    ASSUME SeesInv, NEW g \in Gets, Store(g),
           UNCHANGED <<world, readVars, issued, latest, status>>
    PROVE  SeesInv'
<1>1. Numbers'
  BY GetsSafe DEF SeesInv, Numbers, Store, readVars
<1>2. CacheIsSafe' /\ GapIsKnown'
  BY GetsSafe DEF Store, readVars, CacheIsSafe, GapIsKnown
<1>3. MadeFirst' /\ AskedIsPast' /\ ReadSince' /\ FinishedHasRead'
  BY DEF SeesInv, readVars, MadeFirst, AskedIsPast, ReadSince, FinishedHasRead
<1> QED
  BY <1>1, <1>2, <1>3 DEF SeesInv

\* A step of the queue that finishes no task, with the values untouched.
LEMMA QueueStep ==
    ASSUME SeesInv, QueueMoves(issued) \/ QueueMoves(issued + 1),
           \A r \in Requests : status'[r] = "finished" => status[r] = "finished",
           UNCHANGED <<world, cacheVars, readVars>>
    PROVE  SeesInv'
<1> USE DEF SeesInv, QueueMoves, cacheVars, readVars
<1>1. Numbers' /\ MadeFirst'
  BY DEF Numbers, MadeFirst, Requests
<1>2. AskedIsPast' /\ CacheIsSafe' /\ GapIsKnown' /\ ReadSince' /\ FinishedHasRead'
  BY DEF AskedIsPast, CacheIsSafe, GapIsKnown, ReadSince, FinishedHasRead
<1> QED
  BY <1>1, <1>2

\* A request by a notification invalidates the cache first: what was there is never
\* returned by a fetch that succeeds.
LEMMA RefreshStep ==
    ASSUME SeesInv, RefreshNeeded, UNCHANGED world
    PROVE  SeesInv'
<1> USE DEF SeesInv
<1>1. /\ QueueMoves(issued + 1)
      /\ \A r \in Requests : status'[r] = "finished" => status[r] = "finished"
  BY RequestMoves DEF RefreshNeeded, AsyncRefresh
<1>2. cached' = cached /\ age' = "invalid" /\ cachedGap' \in Gaps
  BY DEF RefreshNeeded, Gaps
<1>3. UNCHANGED <<got, gotGap, stale>> /\ asked' \in [Requests -> Nat]
  BY DEF RefreshNeeded, AsyncRefresh, Numbers
<1>4. \A r \in Requests : \/ asked'[r] = asked[r]
                          \/ r > issued /\ asked'[r] = world
  BY DEF RefreshNeeded, AsyncRefresh, Numbers
<1>5. Numbers' /\ MadeFirst'
  BY <1>1, <1>2, <1>3 DEF Numbers, MadeFirst, QueueMoves, Requests
<1>6. AskedIsPast'
  BY <1>4 DEF AskedIsPast, Numbers
<1>7. CacheIsSafe' /\ GapIsKnown'
  BY <1>2 DEF CacheIsSafe, GapIsKnown
<1>8. ReadSince'
  BY <1>3, <1>4 DEF ReadSince, MadeFirst
<1>9. FinishedHasRead'
  BY <1>1, <1>3 DEF FinishedHasRead
<1> QED
  BY <1>5, <1>6, <1>7, <1>8, <1>9

LEMMA ReadStep ==
    ASSUME SeesInv, NEW r \in Requests, Read(r)
    PROVE  SeesInv'
<1> USE DEF SeesInv, Read
<1>1. PICK g \in Gets : /\ Store(g)
                        /\ got' = [got EXCEPT ![r] = g.value]
                        /\ gotGap' = [gotGap EXCEPT ![r] = g.gap]
                        /\ stale' = IF g.failed THEN stale \cup {r} ELSE stale
  OBVIOUS
<1>2. UNCHANGED <<world, asked, issued, latest, status>>
  BY DEF queueVars
<1>3. \A q \in Requests : got'[q] = IF q = r THEN g.value ELSE got[q]
  BY <1>1 DEF Numbers
<1>3a. \A q \in Requests : gotGap'[q] = IF q = r THEN g.gap ELSE gotGap[q]
  BY <1>1 DEF Numbers
<1>4. g.value \in Int /\ g.value # NotRead
  BY GetsSafe
<1>5. Numbers'
  BY <1>1, <1>2, <1>4, GetsSafe DEF Numbers, Store
<1>6. MadeFirst'
  BY <1>2, <1>3 DEF MadeFirst, Numbers
<1>7. AskedIsPast' /\ FinishedHasRead'
  BY <1>2, <1>3, <1>4 DEF AskedIsPast, FinishedHasRead
<1>8. CacheIsSafe' /\ GapIsKnown'
  BY <1>1, <1>2, <1>3, <1>4, GetsSafe DEF CacheIsSafe, GapIsKnown, Store
<1>9. ReadSince'
  <2>1. g.failed \/ (g.value >= asked[r] /\ g.gap # "before")
    BY GetsSafe
  <2> QED
    BY <1>1, <1>2, <1>3, <1>3a, <2>1 DEF ReadSince
<1> QED
  BY <1>5, <1>6, <1>7, <1>8, <1>9

LEMMA RunTaskStep ==
    ASSUME SeesInv, NEW r \in Requests, RunTask(r)
    PROVE  SeesInv'
<1>1. /\ UNCHANGED <<world, cacheVars, readVars, issued, latest>>
      /\ status[r] \in {"pool", "running"}
      /\ \E s \in {"discarded", "running", "finished", "error"} :
            /\ status' = [status EXCEPT ![r] = s]
            /\ s = "finished" => got[r] \in Versions
  BY DEF RunTask, Queue!Begin, Queue!Emit, Queue!WorkerVarsUnchanged, Queue!queueVars
<1>2. PICK s \in {"discarded", "running", "finished", "error"} :
            /\ status' = [status EXCEPT ![r] = s]
            /\ s = "finished" => got[r] \in Versions
  BY <1>1
<1> USE DEF SeesInv, cacheVars, readVars
<1>3. Numbers'
  BY <1>1, <1>2 DEF Numbers, Queue!Statuses
<1>4. MadeFirst'
  BY <1>1, <1>2 DEF MadeFirst, Numbers
<1>5. AskedIsPast' /\ CacheIsSafe' /\ GapIsKnown' /\ ReadSince'
  BY <1>1 DEF AskedIsPast, CacheIsSafe, GapIsKnown, ReadSince
<1>6. FinishedHasRead'
  BY <1>1, <1>2 DEF FinishedHasRead, Numbers, Versions, NotRead
<1> QED
  BY <1>3, <1>4, <1>5, <1>6

\* The routes change, or an entry grows old.
LEMMA WorldStep == SeesInv /\ (RoutesChange \/ Expire) => SeesInv'
<1> SUFFICES ASSUME SeesInv, RoutesChange \/ Expire
             PROVE  SeesInv'
  OBVIOUS
<1> USE DEF SeesInv, RoutesChange, Expire, cacheVars, readVars, queueVars
<1>1. Numbers' /\ MadeFirst'
  BY DEF Numbers, MadeFirst
<1>2. AskedIsPast' /\ ReadSince' /\ FinishedHasRead'
  BY DEF AskedIsPast, ReadSince, FinishedHasRead, Numbers
<1>3. CacheIsSafe' /\ GapIsKnown'
  BY DEF CacheIsSafe, GapIsKnown
<1> QED
  BY <1>1, <1>2, <1>3

LEMMA SeesStep == SeesInv /\ [Next]_vars => SeesInv'
<1> SUFFICES ASSUME SeesInv, [Next]_vars
             PROVE  SeesInv'
  OBVIOUS
<1>1. CASE UNCHANGED <<world, cacheVars, readVars, issued, latest, status>>
  BY <1>1 DEF SeesInv, cacheVars, readVars, Numbers, MadeFirst, AskedIsPast, CacheIsSafe,
              GapIsKnown, ReadSince, FinishedHasRead
<1>2. CASE ReadElsewhere \/ LoadReads
  BY <1>2, GetsStep DEF ReadElsewhere, LoadReads, queueVars
<1>3. CASE ManualRefresh
  BY <1>3, RequestMoves, QueueStep DEF ManualRefresh
<1>4. CASE Deliver
  BY <1>4, DeliverMoves, QueueStep DEF Deliver
<1>5. CASE TimerFires
  <2>1. CASE RefreshNeeded
    BY <1>5, <2>1, RefreshStep DEF TimerFires
  <2> QED
    BY <1>1, <1>5, <2>1 DEF TimerFires, queueVars
<1>6. CASE \/ Notified \/ MarkDirtyEmits \/ Dispatched \/ DataLoaded \/ LoadError
           \/ UNCHANGED vars
  BY <1>1, <1>6 DEF Notified, MarkDirtyEmits, Dispatched, DataLoaded, LoadError, vars, queueVars
<1>7. CASE Connect
  BY <1>1, <1>7 DEF Connect, Queue!Connect, Queue!queueVars
<1> QED
  BY <1>2, <1>3, <1>4, <1>5, <1>6, <1>7, ReadStep, RunTaskStep, WorldStep DEF Next, Progress

\* A refresh that a notification asked for shows routes at least as new as that
\* notification, and none that a silently failed read had left in the cache before it,
\* or its fetch raised: for any number of changes, requests and reads of the cache by
\* others.
THEOREM RefreshSeesChangeHolds == Spec => []RefreshSeesChange
<1>1. SeesInv => RefreshSeesChange
  BY DEF SeesInv, FinishedHasRead, ReadSince, RefreshSeesChange
<1> QED
  BY <1>1, SeesInit, SeesStep, PTL DEF Spec

-------------------------------------------------------------------------------
(* The queue of the pipeline is a serial queue without cancel() and         *)
(* shutdown(), so that what is proved of that queue holds of this one.      *)

QP == INSTANCE SerialQueueProofs WITH MaxCancels <- 0, FastTasks <- FALSE

QueueInv == QP!ResultInv /\ ~down /\ cancels = 0

\* Each request answers a notification of its own, the first one's, or a gesture.
Counted ==
    /\ world \in Nat \ {0} /\ notes \in Nat /\ refreshes \in Nat
    /\ manual \in Nat /\ world + manual <= MaxCauses + 1
    /\ issued = refreshes + manual
    /\ refreshes + notes + (IF dirty THEN 1 ELSE 0)
          <= world - 1 + (IF load = "done" THEN 1 ELSE 0)

LEMMA CountedInit == Init => Counted
BY MaxCausesAssumption
DEF Init, Counted, Scheduler!SchedulerInit, Queue!Init

LEMMA CountedStep == Counted /\ [Next]_vars => Counted'
<1> SUFFICES ASSUME Counted, [Next]_vars
             PROVE  Counted'
  OBVIOUS
<1> USE MaxCausesAssumption DEF Counted
<1>1. CASE RoutesChange \/ ManualRefresh
  BY <1>1 DEF RoutesChange, ManualRefresh, Queue!Request, schedulerVars, queueVars, loadVars
<1>2. CASE Notified \/ DataLoaded
  BY <1>2 DEF Notified, Scheduler!SetDirty, DataLoaded, schedulerVars, queueVars, loadVars
<1>3. CASE TimerFires
  BY <1>3 DEF TimerFires, Scheduler!FlushDirty, Scheduler!FlushClean, RefreshNeeded,
              AsyncRefresh, Queue!Request, queueVars, loadVars
<1>4. CASE UNCHANGED <<world, notes, load, manual, dirty, refreshes, issued>>
  BY <1>4
<1>5. CASE LoadReads \/ LoadError
  BY <1>5 DEF LoadReads, LoadError, schedulerVars, queueVars
<1>6. CASE \/ ReadElsewhere \/ Expire \/ MarkDirtyEmits \/ Dispatched \/ Connect \/ Deliver
           \/ (\E r \in Requests : Read(r) \/ RunTask(r)) \/ UNCHANGED vars
  BY <1>4, <1>6
  DEF ReadElsewhere, Expire, MarkDirtyEmits, Dispatched, Connect, Deliver, Read, RunTask, vars,
      schedulerVars, queueVars, loadVars, Scheduler!Post, Scheduler!OnDispatch, Queue!Connect,
      Queue!Deliver, Queue!Begin, Queue!Emit, Queue!WorkerVarsUnchanged
<1> QED
  BY <1>1, <1>2, <1>3, <1>5, <1>6 DEF Next, Progress

\* So there are never more requests than the model has names for.
LEMMA CountedBound == Counted => issued \in Nat /\ issued <= NumRequests
<1> SUFFICES ASSUME Counted
             PROVE  issued \in Nat /\ issued <= NumRequests
  OBVIOUS
<1>1. refreshes \in Nat /\ manual \in Nat /\ issued = refreshes + manual
  BY DEF Counted
<1>2. refreshes + manual <= MaxCauses + 1
  BY MaxCausesAssumption DEF Counted
<1> QED
  BY <1>1, <1>2, MaxCausesAssumption DEF NumRequests

LEMMA CountedBoundNext == Counted' => issued' \in Nat /\ issued' <= NumRequests
<1>1. Counted' => (issued \in Nat /\ issued <= NumRequests)'
  BY CountedBound, PTL
<1> QED
  BY <1>1 DEF NumRequests

LEMMA QueueRequest ==
    ASSUME NEW r, Queue!Request(r), r \in Requests
    PROVE  QP!Next
<1>1. QP!Request(r)
  BY DEF Queue!Request, QP!Request, Queue!MainIdle, QP!MainIdle, Queue!RequestRefused,
         QP!RequestRefused, Queue!RequestIdle, QP!RequestIdle, Queue!RequestBusy,
         QP!RequestBusy, Queue!Submit, QP!Submit, Queue!CancelRegistered, QP!CancelRegistered,
         Queue!FirstRunSlots, QP!FirstRunSlots, Queue!Requests, QP!Requests, Queue!None,
         QP!None, Queue!queueVars, QP!queueVars
<1> QED
  BY <1>1 DEF QP!Next, QP!Requests, Requests

LEMMA QueueConnect == Queue!Connect => QP!Next
BY DEF Queue!Connect, QP!Connect, Queue!queueVars, QP!queueVars, QP!Next

LEMMA QueueDeliver == Queue!Deliver => QP!Next
<1> SUFFICES ASSUME Queue!Deliver
             PROVE  QP!Deliver
  BY DEF QP!Next
<1> QED
  BY DEF Queue!Deliver, QP!Deliver, Queue!MainIdle, QP!MainIdle, Queue!DeliverResult,
         QP!DeliverResult, Queue!ReleaseAndCheck, QP!ReleaseAndCheck, Queue!Rerun, QP!Rerun,
         Queue!Unlock, QP!Unlock, Queue!Submit, QP!Submit, Queue!CancelRegistered,
         QP!CancelRegistered, Queue!RerunSlots, QP!RerunSlots, Queue!Requests, QP!Requests,
         Queue!None, QP!None, Queue!queueVars, QP!queueVars, Queue!taskVars, QP!taskVars

LEMMA QueueRuns ==
    ASSUME NEW r \in Requests, NEW outcome \in {"finished", "error"}
    PROVE  /\ Queue!Begin(r) => QP!Next
           /\ Queue!Emit(r, outcome) => QP!Next /\ QP!Emit(r, outcome)
<1>1. Queue!Begin(r) => QP!Begin(r)
  BY DEF Queue!Begin, QP!Begin, Queue!WorkerVarsUnchanged, QP!WorkerVarsUnchanged,
         Queue!queueVars, QP!queueVars
<1>2. Queue!Emit(r, outcome) => QP!Emit(r, outcome)
  BY DEF Queue!Emit, QP!Emit, Queue!Connecting, QP!Connecting, Queue!Emission,
         QP!Emission, Queue!Post, QP!Post, Queue!WorkerVarsUnchanged,
         QP!WorkerVarsUnchanged, Queue!queueVars, QP!queueVars
<1> QED
  BY <1>1, <1>2 DEF QP!Next, QP!Worker, QP!Requests, Requests

LEMMA QueueSteps ==
    Counted /\ [Next]_vars => [QP!Next]_(QP!vars) /\ UNCHANGED <<down, cancels>>
<1> SUFFICES ASSUME Counted, [Next]_vars
             PROVE  [QP!Next]_(QP!vars) /\ UNCHANGED <<down, cancels>>
  OBVIOUS
<1>1. CASE UNCHANGED queueVars
  BY <1>1 DEF queueVars, QP!vars, QP!taskVars, QP!queueVars
<1>2. CASE \/ RoutesChange \/ ReadElsewhere \/ Expire \/ Notified \/ MarkDirtyEmits
           \/ Dispatched \/ LoadReads \/ DataLoaded \/ LoadError
           \/ (\E r \in Requests : Read(r)) \/ UNCHANGED vars
  <2>1. UNCHANGED queueVars
    BY <1>2 DEF RoutesChange, ReadElsewhere, Expire, Notified, MarkDirtyEmits, Dispatched,
                LoadReads, DataLoaded, LoadError, Read, vars
  <2> QED
    BY <1>1, <2>1
<1>3. CASE ManualRefresh \/ (RefreshNeeded /\ Scheduler!FlushDirty /\ UNCHANGED manual)
  <2>1. Queue!Request(issued + 1)
    BY <1>3 DEF ManualRefresh, RefreshNeeded, AsyncRefresh
  <2>2. issued + 1 \in Requests
    <3>1. issued \in Nat /\ issued + 1 <= MaxCauses + 1
      BY <1>3, MaxCausesAssumption
      DEF Counted, ManualRefresh, Scheduler!FlushDirty
    <3> QED
      BY <3>1, MaxCausesAssumption DEF Requests, NumRequests
  <2>3. UNCHANGED <<down, cancels>>
    BY <2>1 DEF Queue!Request
  <2> QED
    BY <2>1, <2>2, <2>3, QueueRequest
<1>4. CASE TimerFires
  BY <1>1, <1>3, <1>4 DEF TimerFires
<1>5. CASE Connect
  BY <1>5, QueueConnect DEF Connect, Queue!Connect
<1>6. CASE Deliver
  BY <1>6, QueueDeliver DEF Deliver, Queue!Deliver
<1>7. ASSUME NEW r \in Requests, RunTask(r)
      PROVE  [QP!Next]_(QP!vars) /\ UNCHANGED <<down, cancels>>
  <2>1. QP!Next
    BY <1>7, QueueRuns DEF RunTask
  <2> QED
    BY <1>7, <2>1 DEF RunTask, Queue!Begin, Queue!Emit, Queue!WorkerVarsUnchanged
<1> QED
  <2>1. Progress => \/ Notified \/ MarkDirtyEmits \/ Dispatched \/ TimerFires \/ Connect
                    \/ Deliver \/ LoadReads \/ DataLoaded \/ LoadError
                    \/ \E r \in Requests : Read(r) \/ RunTask(r)
    BY DEF Progress
  <2> QED
    BY <1>2, <1>3, <1>4, <1>5, <1>6, <1>7, <2>1 DEF Next

LEMMA QueueBounds == NumRequests \in Nat /\ 0 \in Nat /\ FALSE \in BOOLEAN
BY MaxCausesAssumption DEF NumRequests

LEMMA QueueInvInit == Init => QueueInv
<1>1. Init => QP!Init /\ ~down /\ cancels = 0
  BY DEF Init, Queue!Init, QP!Init, Queue!Requests, QP!Requests, Queue!None, QP!None
<1> QED
  BY <1>1, QueueBounds, QP!ResultInvInit DEF QueueInv

LEMMA QueueInvStep == QueueInv /\ Counted /\ [Next]_vars => QueueInv'
<1>1. QP!ResultInv /\ [QP!Next]_(QP!vars) => QP!ResultInv'
  BY QueueBounds, QP!ResultInvStep
<1> QED
  BY <1>1, QueueSteps DEF QueueInv

-------------------------------------------------------------------------------
(* From the change to the table                                             *)

\* Nothing is noted before the listener is started, which the first read precedes.
ListenFirst ==
    /\ notes \in Nat /\ dispatches \in Nat
    /\ notes > 0 \/ dirty => listening
    /\ listening => load = "done"
    /\ load \in {"read", "done"} => cached # Empty

MarkKept == dirty => marking # {} \/ dispatches > 0 \/ timer

AskedIsAccepted ==
    \A n \in Requests : asked[n] # NotRead =>
        n <= issued /\ cached # Empty /\ status[n] \notin {"new", "refused"}

\* What the cache has to keep up with stays after the requests have read.
CacheKeepsUp ==
    \A n \in Requests : age = "invalid" \/ cached = Empty \/ cached >= asked[n]

\* Newer requests read what is as new.
GotSince ==
    \A n, q \in Requests : asked[n] # NotRead /\ n <= q /\ got[q] # NotRead =>
        got[q] # Raised /\ (got[q] >= asked[n] \/ q \in stale)

NotAhead == cached <= world /\ \A q \in Requests : got[q] <= world

\* The result of request n or a newer one is shown or on its way, or will be asked for.
Served(n) ==
    \/ pending
    \/ \E q \in Requests : n <= q /\ status[q] \in {"pool", "running"}
    \/ \E i \in DOMAIN mailbox : mailbox[i].slot = "result" /\ n <= mailbox[i].task
    \/ shown \in Requests /\ n <= shown /\ table = got[shown] /\ tableGap = gotGap[shown]

Told ==
    listening => \/ notes > 0
                 \/ dirty
                 \/ \E n \in Requests : asked[n] = world /\ Served(n)

PipeInv ==
    /\ SeesInv /\ QueueInv /\ Counted
    /\ ListenFirst /\ MarkKept
    /\ AskedIsAccepted /\ CacheKeepsUp /\ GotSince /\ NotAhead
    /\ Told

LEMMA PipeInit == Init => PipeInv
<1> SUFFICES ASSUME Init
             PROVE  PipeInv
  OBVIOUS
<1>1. SeesInv /\ QueueInv /\ Counted
  BY SeesInit, QueueInvInit, CountedInit
<1>2. ListenFirst /\ MarkKept /\ Told
  BY DEF Init, Scheduler!SchedulerInit, ListenFirst, MarkKept, Told
<1>3. AskedIsAccepted /\ CacheKeepsUp /\ GotSince /\ NotAhead
  BY DEF Init, AskedIsAccepted, CacheKeepsUp, GotSince, NotAhead, Empty, NotRead
<1> QED
  BY <1>1, <1>2, <1>3 DEF PipeInv

\* What get() returns is what it leaves in the entry, if there is anything.
LEMMA GetsValue ==
    ASSUME Numbers, NEW g \in Gets
    PROVE  /\ \/ g.cached = world
              \/ g.cached = cached /\ (age = "invalid" => g.age = "invalid")
           /\ IF g.cached = Empty THEN g.value = Raised ELSE g.value = g.cached
           /\ ~g.failed => g.value = world \/ (age = "fresh" /\ g.value = cached)
<1> USE DEF Numbers, Outcome, Empty, Raised
<1>1. CASE g = Outcome(cached, cached, cachedGap, age, FALSE) /\ cached # Empty /\ age = "fresh"
  BY <1>1
<1>2. ASSUME NEW gap, g = Outcome(world, world, gap, "fresh", FALSE)
      PROVE  /\ g.cached = world /\ g.value = world
             /\ IF g.cached = Empty THEN g.value = Raised ELSE g.value = g.cached
  BY <1>2
<1>3. ASSUME NEW b \in AgesAfterFailure(age),
             g = Outcome(IF cached = Empty THEN Raised ELSE cached, cached, cachedGap, b, TRUE)
      PROVE  /\ \/ g.cached = world
                \/ g.cached = cached /\ (age = "invalid" => g.age = "invalid")
             /\ IF g.cached = Empty THEN g.value = Raised ELSE g.value = g.cached
             /\ ~g.failed => g.value = world \/ (age = "fresh" /\ g.value = cached)
  BY <1>3 DEF AgesAfterFailure
<1> QED
  BY <1>1, <1>2, <1>3 DEF Gets

\* The cache, the listener and the scheduler; a value never leaves the cache.
LEMMA CachedStep ==
    ASSUME PipeInv, [Next]_vars
    PROVE  /\ cached # Empty => cached' # Empty
           /\ \/ UNCHANGED cacheVars
              \/ cached' = world
              \/ cached' = cached /\ (age = "invalid" => age' = "invalid")
<1> USE DEF PipeInv, SeesInv
<1>1. ASSUME NEW g \in Gets, Store(g)
      PROVE  /\ \/ cached' = world
                \/ cached' = cached /\ (age = "invalid" => age' = "invalid")
             /\ cached # Empty => cached' # Empty
  BY <1>1, GetsValue DEF Store, Numbers, Empty
<1>2. CASE ReadElsewhere \/ LoadReads \/ (\E r \in Requests : Read(r))
  BY <1>1, <1>2 DEF ReadElsewhere, LoadReads, Read
<1>3. CASE RefreshNeeded
  BY <1>3 DEF RefreshNeeded
<1>4. CASE TimerFires
  BY <1>3, <1>4 DEF TimerFires, cacheVars
<1>5. CASE \/ RoutesChange \/ ManualRefresh \/ Notified \/ MarkDirtyEmits \/ Dispatched
           \/ Connect \/ Deliver \/ DataLoaded \/ LoadError
           \/ (\E r \in Requests : RunTask(r)) \/ UNCHANGED vars
  <2>1. UNCHANGED cacheVars
    BY <1>5 DEF RoutesChange, ManualRefresh, Notified, MarkDirtyEmits, Dispatched, Connect,
                Deliver, DataLoaded, LoadError, RunTask, vars
  <2> QED
    BY <2>1 DEF cacheVars
<1>6. CASE Expire
  BY <1>6 DEF Expire
<1> QED
  BY <1>2, <1>4, <1>5, <1>6 DEF Next, Progress

LEMMA ListenStep == PipeInv /\ [Next]_vars => ListenFirst' /\ MarkKept'
<1> SUFFICES ASSUME PipeInv, [Next]_vars
             PROVE  ListenFirst' /\ MarkKept'
  OBVIOUS
<1>1. ListenFirst /\ MarkKept /\ (cached # Empty => cached' # Empty)
  BY CachedStep DEF PipeInv
<1> USE DEF ListenFirst, MarkKept
<1>2. CASE UNCHANGED <<notes, listening, load, dirty, marking, dispatches, timer>>
  BY <1>1, <1>2
<1>3. CASE RoutesChange \/ DataLoaded \/ LoadError
  BY <1>1, <1>3 DEF RoutesChange, DataLoaded, LoadError, loadVars, schedulerVars, cacheVars
<1>4. CASE LoadReads
  <2>1. PICK g \in Gets : /\ Store(g)
                          /\ IF g.value = Raised THEN load' = "failed" ELSE load' = "read"
    BY <1>4 DEF LoadReads
  <2>2. load' = "read" => cached' # Empty
    BY <2>1, GetsValue DEF Store, PipeInv, SeesInv
  <2> QED
    BY <1>1, <1>4, <2>1, <2>2 DEF LoadReads, schedulerVars
<1>5. CASE Notified
  BY <1>1, <1>5 DEF Notified, Scheduler!SetDirty, loadVars, cacheVars
<1>6. CASE MarkDirtyEmits \/ Dispatched
  BY <1>1, <1>6 DEF MarkDirtyEmits, Dispatched, Scheduler!Post, Scheduler!OnDispatch,
                    loadVars, cacheVars
<1>7. CASE TimerFires
  <2>1. UNCHANGED <<notes, listening, load>> /\ ~dirty' /\ dispatches' = dispatches
    BY <1>7 DEF TimerFires, Scheduler!FlushDirty, Scheduler!FlushClean, loadVars
  <2> QED
    BY <1>1, <2>1
<1>8. CASE \/ ManualRefresh \/ ReadElsewhere \/ Expire \/ Connect \/ Deliver
           \/ (\E r \in Requests : Read(r) \/ RunTask(r)) \/ UNCHANGED vars
  <2>1. UNCHANGED <<notes, loadVars, schedulerVars>>
    BY <1>8 DEF ManualRefresh, ReadElsewhere, Expire, Connect, Deliver, Read, RunTask, vars
  <2> QED
    BY <1>2, <2>1 DEF loadVars, schedulerVars
<1> QED
  BY <1>3, <1>4, <1>5, <1>6, <1>7, <1>8 DEF Next, Progress

\* What a step of the pipeline does to the requests: one is made, one reads, or the
\* queue moves one that was accepted.
LEMMA RequestsMove ==
    ASSUME PipeInv, [Next]_vars
    PROVE  /\ \A n \in Requests : n <= issued /\ status[n] \notin {"new", "refused"} =>
                  status'[n] \notin {"new", "refused"}
           /\ issued <= issued'
<1> USE DEF PipeInv, SeesInv, Numbers
<1>1. ASSUME Queue!Request(issued + 1)
      PROVE  /\ \A n \in Requests : n <= issued => status'[n] = status[n]
             /\ issued' = issued + 1
  <2>1. /\ issued' = issued + 1
        /\ \E st \in {"refused", "pool", "waiting"} :
              status' = [status EXCEPT ![issued + 1] = st]
    BY <1>1 DEF Queue!Request, Queue!RequestRefused, Queue!RequestIdle, Queue!RequestBusy,
                Queue!Submit
  <2> QED
    BY <2>1 DEF Requests
<1>2. CASE ManualRefresh \/ TimerFires
  <2>1. CASE Queue!Request(issued + 1)
    BY <1>1, <2>1
  <2>2. CASE UNCHANGED queueVars
    BY <2>2 DEF queueVars
  <2> QED
    BY <1>2, <2>1, <2>2 DEF ManualRefresh, TimerFires, RefreshNeeded, AsyncRefresh
<1>3. CASE Deliver
  BY <1>3 DEF Deliver, Queue!Deliver, Queue!DeliverResult, Queue!ReleaseAndCheck, Queue!Rerun,
              Queue!Unlock, Queue!Submit, Queue!taskVars
<1>4. ASSUME NEW r \in Requests, RunTask(r)
      PROVE  /\ \A n \in Requests : n <= issued /\ status[n] \notin {"new", "refused"} =>
                    status'[n] \notin {"new", "refused"}
             /\ issued <= issued'
  BY <1>4 DEF RunTask, Queue!Begin, Queue!Emit, Queue!WorkerVarsUnchanged
<1>5. CASE \/ RoutesChange \/ ReadElsewhere \/ Expire \/ Notified \/ MarkDirtyEmits
           \/ Dispatched \/ LoadReads \/ DataLoaded \/ LoadError \/ Connect
           \/ (\E r \in Requests : Read(r)) \/ UNCHANGED vars
  <2>1. UNCHANGED <<issued, status>>
    BY <1>5 DEF RoutesChange, ReadElsewhere, Expire, Notified, MarkDirtyEmits, Dispatched,
                LoadReads, DataLoaded, LoadError, Connect, Queue!Connect, Read, vars, queueVars
  <2> QED
    BY <2>1
<1> QED
  BY <1>2, <1>3, <1>4, <1>5 DEF Next, Progress

\* The steps that touch what was asked or read.
LEMMA ReadersOnly ==
    ASSUME [Next]_vars
    PROVE  \/ UNCHANGED readVars
           \/ RefreshNeeded /\ dirty /\ UNCHANGED world
           \/ \E r \in Requests : Read(r)
<1>1. CASE TimerFires
  BY <1>1 DEF TimerFires, Scheduler!FlushDirty
<1>2. CASE \/ RoutesChange \/ ManualRefresh \/ ReadElsewhere \/ Expire \/ Notified
           \/ MarkDirtyEmits \/ Dispatched \/ Connect \/ Deliver \/ LoadReads \/ DataLoaded
           \/ LoadError \/ (\E r \in Requests : RunTask(r)) \/ UNCHANGED vars
  BY <1>2 DEF RoutesChange, ManualRefresh, ReadElsewhere, Expire, Notified, MarkDirtyEmits,
              Dispatched, Connect, Deliver, LoadReads, DataLoaded, LoadError, RunTask, vars
<1> QED
  BY <1>1, <1>2 DEF Next, Progress

LEMMA AskedStep ==
    PipeInv /\ [Next]_vars => AskedIsAccepted' /\ CacheKeepsUp'
<1> SUFFICES ASSUME PipeInv, [Next]_vars
             PROVE  AskedIsAccepted' /\ CacheKeepsUp'
  OBVIOUS
<1>1. /\ cached # Empty => cached' # Empty
      /\ \/ UNCHANGED cacheVars
         \/ cached' = world
         \/ cached' = cached /\ (age = "invalid" => age' = "invalid")
  BY CachedStep
<1>2. /\ \A n \in Requests : n <= issued /\ status[n] \notin {"new", "refused"} =>
             status'[n] \notin {"new", "refused"}
      /\ issued <= issued' /\ issued' \in Nat /\ issued \in Nat
  BY RequestsMove, SeesStep DEF PipeInv, SeesInv, Numbers
<1>3. world \in Nat \ {0} /\ \A n \in Requests : asked[n] \in Nat /\ asked[n] <= world
  BY DEF PipeInv, SeesInv, Numbers, AskedIsPast
<1>4. ASSUME UNCHANGED asked
      PROVE  AskedIsAccepted' /\ CacheKeepsUp'
  <2>1. AskedIsAccepted'
    BY <1>1, <1>2, <1>4 DEF PipeInv, AskedIsAccepted, Requests
  <2>2. CacheKeepsUp'
    BY <1>1, <1>3, <1>4 DEF PipeInv, CacheKeepsUp, cacheVars
  <2> QED
    BY <2>1, <2>2
<1>5. ASSUME RefreshNeeded, dirty, UNCHANGED world
      PROVE  AskedIsAccepted' /\ CacheKeepsUp'
  <2>1. /\ Queue!Request(issued + 1) /\ asked' = [asked EXCEPT ![issued + 1] = world]
        /\ ~down /\ cached # Empty
    BY <1>5 DEF RefreshNeeded, AsyncRefresh, PipeInv, QueueInv, ListenFirst
  <2>2. \A n \in Requests : IF n = issued + 1 THEN asked'[n] = world ELSE asked'[n] = asked[n]
    BY <2>1 DEF PipeInv, SeesInv, Numbers
  <2>3. issued' = issued + 1 /\ (issued + 1 \in Requests => status'[issued + 1] \in {"pool", "waiting"})
    BY <2>1 DEF Queue!Request, Queue!RequestRefused, Queue!RequestIdle, Queue!RequestBusy,
                Queue!Submit, PipeInv, SeesInv, Numbers
  <2>4. AskedIsAccepted'
    BY <1>1, <1>2, <2>1, <2>2, <2>3 DEF PipeInv, AskedIsAccepted, Requests
  <2>5. age' = "invalid"
    BY <1>5 DEF RefreshNeeded
  <2>6. CacheKeepsUp'
    BY <2>5 DEF CacheKeepsUp
  <2> QED
    BY <2>4, <2>6
<1> QED
  BY <1>4, <1>5, ReadersOnly DEF readVars, Read

LEMMA GotStep == PipeInv /\ [Next]_vars => GotSince' /\ NotAhead'
<1> SUFFICES ASSUME PipeInv, [Next]_vars
             PROVE  GotSince' /\ NotAhead'
  OBVIOUS
<1>1. /\ GotSince /\ NotAhead /\ CacheKeepsUp /\ AskedIsAccepted
      /\ issued \in Nat /\ cached \in Nat /\ world \in Nat \ {0}
      /\ got \in [Requests -> Int] /\ asked \in [Requests -> Nat]
      /\ \A n \in Requests : asked[n] <= world /\ (n > issued => got[n] = NotRead)
  BY DEF PipeInv, SeesInv, Numbers, AskedIsPast, MadeFirst
<1>2. world' \in Nat /\ world <= world'
  <2>1. world' = world \/ world' = world + 1
    BY DEF Next, Progress, RoutesChange, ManualRefresh, ReadElsewhere, Expire, Notified,
           MarkDirtyEmits, Dispatched, TimerFires, Connect, Deliver, LoadReads, DataLoaded,
           LoadError, Read, RunTask, vars
  <2> QED
    BY <1>1, <2>1
<1>3. cached' \in Nat /\ cached' <= world
  BY <1>1, CachedStep DEF cacheVars, NotAhead
<1>4. CASE UNCHANGED readVars
  BY <1>1, <1>2, <1>3, <1>4 DEF readVars, GotSince, NotAhead
<1>5. CASE RefreshNeeded /\ dirty /\ UNCHANGED world
  <2>1. UNCHANGED <<got, stale>> /\ asked' = [asked EXCEPT ![issued + 1] = world]
    BY <1>5 DEF RefreshNeeded, AsyncRefresh
  <2>2. NotAhead'
    BY <1>1, <1>2, <1>3, <2>1 DEF NotAhead
  <2>3. GotSince'
    <3> SUFFICES ASSUME NEW n \in Requests, NEW q \in Requests,
                        asked'[n] # NotRead, n <= q, got[q] # NotRead
                 PROVE  got[q] # Raised /\ (got[q] >= asked'[n] \/ q \in stale)
      BY <2>1 DEF GotSince
    <3>1. n # issued + 1
      BY <1>1 DEF Requests
    <3>2. asked'[n] = asked[n]
      BY <1>1, <2>1, <3>1
    <3> QED
      BY <1>1, <3>2 DEF GotSince
  <2> QED
    BY <2>2, <2>3
<1>6. ASSUME NEW r \in Requests, Read(r)
      PROVE  GotSince' /\ NotAhead'
  <2>1. PICK g \in Gets : /\ Store(g)
                          /\ got' = [got EXCEPT ![r] = g.value]
                          /\ stale' = IF g.failed THEN stale \cup {r} ELSE stale
    BY <1>6 DEF Read
  <2>2. /\ UNCHANGED <<asked, world>> /\ got[r] = NotRead
        /\ \A q \in Requests : got'[q] = IF q = r THEN g.value ELSE got[q]
    BY <1>1, <1>6, <2>1 DEF Read
  <2>3. /\ \/ g.cached = world
           \/ g.cached = cached /\ (age = "invalid" => g.age = "invalid")
        /\ IF g.cached = Empty THEN g.value = Raised ELSE g.value = g.cached
        /\ ~g.failed => g.value = world \/ (age = "fresh" /\ g.value = cached)
    BY GetsValue DEF PipeInv, SeesInv
  <2>4. g.value \in Int /\ g.value <= world
    BY <1>1, <2>3 DEF NotAhead, Raised
  <2>5. NotAhead'
    BY <1>1, <1>3, <2>2, <2>4 DEF NotAhead
  <2>6. ASSUME NEW n \in Requests, asked[n] # NotRead
        PROVE  g.value # Raised /\ (g.value >= asked[n] \/ g.failed)
    <3>1. cached # Empty /\ (age = "invalid" \/ cached >= asked[n])
      BY <1>1, <2>6 DEF AskedIsAccepted, CacheKeepsUp
    <3>2. g.cached # Empty /\ g.cached \in Nat
      BY <1>1, <2>3, <3>1 DEF Empty
    <3> QED
      BY <1>1, <2>3, <3>1, <3>2 DEF Raised
  <2>7. GotSince'
    <3> SUFFICES ASSUME NEW n \in Requests, NEW q \in Requests,
                        asked[n] # NotRead, n <= q, got'[q] # NotRead
                 PROVE  got'[q] # Raised /\ (got'[q] >= asked[n] \/ q \in stale')
      BY <2>2 DEF GotSince
    <3>1. CASE q = r
      BY <2>1, <2>2, <2>6, <3>1
    <3>2. CASE q # r
      BY <1>1, <2>1, <2>2, <3>2 DEF GotSince
    <3> QED
      BY <3>1, <3>2
  <2> QED
    BY <2>5, <2>7
<1> QED
  BY <1>4, <1>5, <1>6, ReadersOnly

\* As long as a request's result has not come, it or a newer request is under way.
LEMMA ServedByDeliver ==
    ASSUME PipeInv, NEW n \in Requests, asked[n] # NotRead, Served(n), Deliver
    PROVE  Served(n)'
<1> DEFINE c == Head(mailbox)
<1>1. /\ QP!ResultInv /\ QP!IInv /\ QP!TypeOK /\ ~down
      /\ n <= issued /\ status[n] \notin {"new", "refused"}
  BY DEF PipeInv, QueueInv, QP!ResultInv, QP!IInv, AskedIsAccepted
<1>2. /\ mailbox \in Seq(QP!Connection) /\ mailbox # <<>> /\ mailbox' = Tail(mailbox)
      /\ status \in [Requests -> QP!Statuses] /\ shown \in Requests \cup {0}
      /\ got' = got /\ gotGap' = gotGap
  BY <1>1 DEF Deliver, Queue!Deliver, QP!TypeOK, QP!None, QP!Requests, Requests, readVars
<1>3. /\ c \in QP!Connection /\ c = mailbox[1] /\ 1 \in DOMAIN mailbox
      /\ \A i \in DOMAIN mailbox : i # 1 =>
            i - 1 \in DOMAIN mailbox' /\ mailbox'[i - 1] = mailbox[i]
  BY <1>2
<1>4. c.task \in Requests
  BY <1>3 DEF QP!Connection, QP!Requests, Requests
<1>5. CASE c.slot = "result" /\ Queue!DeliverResult(c.task)
  <2>1. UNCHANGED <<status, pending>> /\ shown' = c.task
    BY <1>5 DEF Queue!DeliverResult, Queue!taskVars, Queue!queueVars
  <2>2. c.task # shown /\ shown <= c.task
    BY <1>1, <1>3, <1>5 DEF QP!ResultInv, QP!PostedOnce, QP!IInv, QP!PostedInOrder
  <2>3. table' = got'[shown'] /\ tableGap' = gotGap'[shown']
    BY <1>2, <2>1, <2>2 DEF Deliver
  <2>4. CASE n <= c.task
    BY <1>4, <2>1, <2>3, <2>4 DEF Served
  <2>5. CASE ~(n <= c.task)
    <3>1. ~(shown \in Requests /\ n <= shown)
      BY <1>4, <2>2, <2>5 DEF Requests
    <3>2. ASSUME NEW i \in DOMAIN mailbox, mailbox[i].slot = "result", n <= mailbox[i].task
          PROVE  Served(n)'
      <4>1. i # 1
        BY <1>3, <2>5, <3>2
      <4> QED
        BY <1>3, <3>2, <4>1 DEF Served
    <3> QED
      BY <2>1, <3>1, <3>2 DEF Served
  <2> QED
    BY <2>4, <2>5
<1>6. CASE c.slot # "result" /\ UNCHANGED shown /\ UNCHANGED <<status, pending>>
  <2>1. table' = table /\ tableGap' = tableGap
    BY <1>6 DEF Deliver, tableVars
  <2>2. ASSUME NEW i \in DOMAIN mailbox, mailbox[i].slot = "result", n <= mailbox[i].task
        PROVE  Served(n)'
    <3>1. i # 1
      BY <1>3, <1>6, <2>2
    <3> QED
      BY <1>3, <2>2, <3>1 DEF Served
  <2> QED
    BY <1>2, <1>6, <2>1, <2>2 DEF Served
<1>7. CASE pending /\ Queue!Rerun
  <2>1. /\ latest \in Requests /\ n <= latest
    <3>1. /\ latest # 0 /\ latest \in Requests
          /\ \A r \in Requests : r > latest => status[r] \in {"new", "refused"}
      BY <1>1, <1>7 DEF QP!IInv, QP!PendingIsNewest, QP!TypeOK, QP!None, QP!Requests, Requests
    <3> QED
      BY <1>1, <3>1 DEF Requests
  <2>2. latest # 0
    BY <2>1 DEF Requests
  <2>3. status' = [status EXCEPT ![latest] = "pool"]
    BY <1>1, <1>7, <2>2 DEF Queue!Rerun, Queue!Submit, Queue!None
  <2>4. status'[latest] = "pool"
    BY <1>2, <2>1, <2>3
  <2> QED
    BY <2>1, <2>4 DEF Served
<1>8. \/ c.slot = "result" /\ Queue!DeliverResult(c.task)
      \/ c.slot # "result" /\ UNCHANGED shown /\ Queue!Unlock
      \/ pending /\ Queue!Rerun
  BY DEF Deliver, Queue!Deliver, Queue!ReleaseAndCheck
<1> QED
  BY <1>5, <1>6, <1>7, <1>8 DEF Queue!Unlock, Queue!taskVars

LEMMA ServedByRequest ==
    ASSUME PipeInv, NEW n \in Requests, n <= issued + 1, Queue!Request(issued + 1),
           n = issued + 1 \/ Served(n), issued + 1 \in Requests
    PROVE  Served(n)'
<1>1. /\ issued \in Nat /\ status \in [Requests -> Queue!Statuses] /\ ~down
  BY DEF PipeInv, SeesInv, Numbers, QueueInv
<1>2. pending' \/ status' = [status EXCEPT ![issued + 1] = "pool"]
  BY <1>1 DEF Queue!Request, Queue!RequestRefused, Queue!RequestIdle, Queue!RequestBusy,
              Queue!Submit
<1>3. pending' \/ status'[issued + 1] = "pool"
  BY <1>1, <1>2
<1> QED
  BY <1>3 DEF Served

LEMMA ServedByTask ==
    ASSUME PipeInv, NEW n \in Requests, asked[n] # NotRead, Served(n),
           NEW r \in Requests, RunTask(r)
    PROVE  Served(n)'
<1>1. /\ QP!ResultInv /\ QP!IInv /\ ~down /\ cancels = 0
      /\ status \in [Requests -> Queue!Statuses]
      /\ UNCHANGED <<pending, shown, tableVars, got, gotGap>>
  BY DEF PipeInv, SeesInv, Numbers, QueueInv, QP!ResultInv, RunTask, Queue!Begin, Queue!Emit,
         Queue!WorkerVarsUnchanged, Queue!queueVars, readVars
<1>2. CASE pending
  BY <1>1, <1>2 DEF Served
<1>3. CASE shown \in Requests /\ n <= shown /\ table = got[shown]
           /\ tableGap = gotGap[shown]
  BY <1>1, <1>3 DEF Served, tableVars
<1>4. CASE Queue!Begin(r)
  <2>1. ~cancelled[r]
    BY <1>1, <1>4 DEF Queue!Begin, QP!ResultInv, QP!CancelledOnDemand, QP!Live, QP!Requests,
                      Requests
  <2>2. /\ status' = [status EXCEPT ![r] = "running"] /\ mailbox' = mailbox
        /\ status[r] = "pool"
    BY <1>4, <2>1 DEF Queue!Begin
  <2>3. \A q \in Requests : status[q] \in {"pool", "running"} =>
                               status'[q] \in {"pool", "running"}
    BY <1>1, <2>2
  <2> QED
    BY <1>2, <1>3, <2>2, <2>3 DEF Served
<1>5. ASSUME NEW outcome \in {"finished", "error"}, Queue!Emit(r, outcome),
             outcome = "error" => got[r] = Raised
      PROVE  Served(n)'
  <2>1. /\ status[r] = "running" /\ status' = [status EXCEPT ![r] = outcome]
        /\ \A q \in Requests : q # r => status'[q] = status[q]
    BY <1>1, <1>5 DEF Queue!Emit
  <2>2. /\ \A i \in DOMAIN mailbox : i \in DOMAIN mailbox' /\ mailbox'[i] = mailbox[i]
        /\ outcome = "finished" => \E i \in DOMAIN mailbox' : mailbox'[i] = QP!Result(r)
    <3>1. QP!Emit(r, outcome)
      BY <1>5, QueueRuns
    <3>2. r \in QP!Requests
      BY DEF QP!Requests, Requests
    <3> QED
      BY <1>1, <3>1, <3>2, QueueBounds, QP!EmitPosts
  <2>3. CASE \E i \in DOMAIN mailbox : mailbox[i].slot = "result" /\ n <= mailbox[i].task
    BY <2>2, <2>3 DEF Served
  <2>4. ASSUME NEW q \in Requests, n <= q, status[q] \in {"pool", "running"}
        PROVE  Served(n)'
    <3>1. CASE q # r
      BY <2>1, <2>4, <3>1 DEF Served
    <3>2. CASE q = r
      <4>1. outcome = "finished"
        BY <1>5, <2>4, <3>2 DEF PipeInv, GotSince, Raised, NotRead
      <4>2. QP!Result(r).slot = "result" /\ QP!Result(r).task = r
        BY DEF QP!Result
      <4> QED
        BY <2>2, <2>4, <3>2, <4>1, <4>2 DEF Served
    <3> QED
      BY <3>1, <3>2
  <2> QED
    BY <1>2, <1>3, <2>3, <2>4 DEF Served
<1> QED
  BY <1>4, <1>5 DEF RunTask, Versions

LEMMA ToldStep == PipeInv /\ Counted' /\ [Next]_vars => Told'
<1> SUFFICES ASSUME PipeInv, Counted', [Next]_vars, listening'
             PROVE  \/ notes' > 0
                    \/ dirty'
                    \/ \E n \in Requests : asked'[n] = world' /\ Served(n)'
  BY DEF Told
<1>1. /\ world \in Nat \ {0} /\ notes \in Nat /\ issued \in Nat
      /\ listening => \/ notes > 0
                      \/ dirty
                      \/ \E n \in Requests : asked[n] = world /\ Served(n)
      /\ \A n \in Requests : asked[n] = world =>
            asked[n] # NotRead /\ n <= issued /\ status[n] \notin {"new", "refused"}
  BY DEF PipeInv, SeesInv, Numbers, Counted, Told, AskedIsAccepted, NotRead
<1>2. CASE RoutesChange
  BY <1>1, <1>2 DEF RoutesChange, loadVars
<1>3. CASE DataLoaded
  BY <1>1, <1>3 DEF DataLoaded
<1>4. CASE Notified
  BY <1>4 DEF Notified, Scheduler!SetDirty
<1>5. CASE RefreshNeeded /\ UNCHANGED world
  <2>1. /\ Queue!Request(issued + 1) /\ asked' = [asked EXCEPT ![issued + 1] = world]
    BY <1>5 DEF RefreshNeeded, AsyncRefresh
  <2>2. PICK n \in Requests : n = issued + 1
    BY <1>1, <2>1, CountedBoundNext DEF Queue!Request, Requests
  <2>3. Served(n)'
    BY <1>1, <2>1, <2>2, ServedByRequest
  <2>4. asked'[n] = world'
    BY <1>5, <2>1, <2>2 DEF PipeInv, SeesInv, Numbers
  <2> QED
    BY <2>3, <2>4
<1>6. ASSUME UNCHANGED <<world, notes, listening, dirty, asked>>,
             \A n \in Requests : asked[n] # NotRead /\ n <= issued /\ Served(n) => Served(n)'
      PROVE  \/ notes' > 0
             \/ dirty'
             \/ \E n \in Requests : asked'[n] = world' /\ Served(n)'
  BY <1>1, <1>6
<1>7. CASE ManualRefresh
  <2>1. Queue!Request(issued + 1) /\ issued' = issued + 1
    BY <1>7 DEF ManualRefresh, Queue!Request
  <2>2. issued + 1 \in Requests
    BY <1>1, <2>1, CountedBoundNext DEF Requests
  <2>3. \A n \in Requests : n <= issued /\ Served(n) => Served(n)'
    <3> SUFFICES ASSUME NEW n \in Requests, n <= issued, Served(n)
                 PROVE  Served(n)'
      OBVIOUS
    <3>1. n <= issued + 1
      BY <1>1 DEF Requests
    <3> QED
      BY <2>1, <2>2, <3>1, ServedByRequest
  <2>4. UNCHANGED <<world, notes, listening, dirty, asked>>
    BY <1>7 DEF ManualRefresh, loadVars, schedulerVars, readVars
  <2> QED
    BY <1>6, <2>3, <2>4
<1>8. CASE Deliver
  <2>1. UNCHANGED <<world, notes, listening, dirty, asked>>
    BY <1>8 DEF Deliver, loadVars, schedulerVars, readVars
  <2> QED
    BY <1>6, <1>8, <2>1, ServedByDeliver
<1>9. ASSUME NEW r \in Requests, RunTask(r)
      PROVE  \/ notes' > 0
             \/ dirty'
             \/ \E n \in Requests : asked'[n] = world' /\ Served(n)'
  <2>1. UNCHANGED <<world, notes, listening, dirty, asked>>
    BY <1>9 DEF RunTask, loadVars, schedulerVars, readVars
  <2> QED
    BY <1>6, <1>9, <2>1, ServedByTask
<1>10. ASSUME NEW r \in Requests, Read(r)
       PROVE  \/ notes' > 0
              \/ dirty'
              \/ \E n \in Requests : asked'[n] = world' /\ Served(n)'
  <2>1. /\ UNCHANGED <<world, notes, listening, dirty, asked>>
        /\ UNCHANGED <<pending, status, mailbox, shown, tableVars>>
    BY <1>10 DEF Read, loadVars, schedulerVars, queueVars
  <2>2. shown \in Requests => got'[shown] = got[shown] /\ gotGap'[shown] = gotGap[shown]
    <3>1. shown \in Requests => status[shown] = "finished" /\ shown # 0
      BY DEF PipeInv, QueueInv, QP!ResultInv, QP!IInv, QP!PostedInOrder, QP!None, Requests
    <3>2. status[r] = "running" /\ got \in [Requests -> Int] /\ gotGap \in [Requests -> Gaps]
      BY <1>10 DEF Read, PipeInv, SeesInv, Numbers
    <3>3. /\ \E v : got' = [got EXCEPT ![r] = v]
          /\ \E v : gotGap' = [gotGap EXCEPT ![r] = v]
      BY <1>10 DEF Read
    <3> QED
      BY <3>1, <3>2, <3>3
  <2> QED
    BY <1>6, <2>1, <2>2 DEF Served, tableVars
<1>11. CASE UNCHANGED <<world, notes, listening, dirty, asked, pending, status, mailbox, shown,
                        tableVars, got, gotGap>>
  BY <1>6, <1>11 DEF Served, tableVars
<1>12. CASE \/ ReadElsewhere \/ Expire \/ MarkDirtyEmits \/ Dispatched \/ Connect \/ LoadReads
            \/ LoadError \/ UNCHANGED vars
  <2>1. UNCHANGED <<world, notes, listening, dirty, asked, pending, status, mailbox, shown,
                    tableVars, got, gotGap>>
    BY <1>12 DEF ReadElsewhere, Expire, MarkDirtyEmits, Dispatched, Connect, LoadReads,
       LoadError, vars, loadVars, schedulerVars, queueVars, readVars, Scheduler!Post,
       Scheduler!OnDispatch, Queue!Connect, Queue!queueVars
  <2> QED
    BY <1>11, <2>1
<1>13. CASE TimerFires
  <2>1. CASE Scheduler!FlushClean /\ UNCHANGED <<cacheVars, readVars, queueVars>>
    <3>1. UNCHANGED <<world, notes, listening, dirty, asked, pending, status, mailbox, shown,
                      tableVars, got, gotGap>>
      BY <1>13, <2>1 DEF TimerFires, Scheduler!FlushClean, loadVars, queueVars, readVars
    <3> QED
      BY <1>11, <3>1
  <2> QED
    BY <1>5, <1>13, <2>1 DEF TimerFires
<1> QED
  BY <1>2, <1>3, <1>4, <1>7, <1>8, <1>9, <1>10, <1>12, <1>13 DEF Next, Progress

LEMMA PipeStep == PipeInv /\ [Next]_vars => PipeInv'
BY SeesStep, QueueInvStep, CountedStep, ListenStep, AskedStep, GotStep, ToldStep DEF PipeInv

\* When nothing is on its way, no notification is outstanding, and the newest request
\* that a notification made, or a newer one, is what the table shows.
LEMMA QuietIsFresh == PipeInv => QuietMeansFresh
<1> SUFFICES ASSUME PipeInv, Quiet, ~pending, shown \notin stale
             PROVE  UpToDate
  BY DEF QuietMeansFresh
<1>1. /\ listening /\ notes = 0 /\ ~dirty /\ mailbox = <<>>
      /\ \A r \in Requests : status[r] \notin {"pool", "running"}
  BY DEF Quiet, Queue!QueueAtRest, PipeInv, MarkKept, Queue!Requests, Requests
<1>2. PICK n \in Requests : asked[n] = world /\ Served(n)
  BY <1>1 DEF PipeInv, Told
<1>3. shown \in Requests /\ n <= shown /\ table = got[shown] /\ tableGap = gotGap[shown]
  BY <1>1, <1>2 DEF Served
<1>4. status[shown] = "finished"
  BY <1>3 DEF PipeInv, QueueInv, QP!ResultInv, QP!IInv, QP!PostedInOrder, QP!None, Requests
<1>5. world \in Nat \ {0} /\ got[shown] \in Int /\ got[shown] # NotRead
  BY <1>3, <1>4 DEF PipeInv, SeesInv, Numbers, FinishedHasRead
<1>6. got[shown] >= asked[n] /\ got[shown] <= world /\ gotGap[shown] # "before"
  BY <1>2, <1>3, <1>5 DEF PipeInv, SeesInv, ReadSince, GotSince, NotAhead, NotRead
<1> QED
  BY <1>2, <1>3, <1>5, <1>6 DEF UpToDate

\* When the listener, the scheduler, the cache and the queue are all at rest, the table
\* shows the routes as they are: no change is lost on the way from its notification, for
\* any number of changes, manual refreshes and reads of the cache by others, unless a read
\* since the last notification failed silently, the last fetch raised, or the queue dropped
\* what was pending.
THEOREM QuietMeansFreshHolds == Spec => []QuietMeansFresh
BY PipeInit, PipeStep, QuietIsFresh, PTL DEF Spec

\* The queue inside the pipeline: one task at a time, whatever else the pipeline does.
THEOREM PipelineQueueIsSerial == Spec => []QP!MutualExclusion
<1>1. PipeInv => QP!MutualExclusion
  BY DEF PipeInv, QueueInv, QP!ResultInv, QP!IInv, QP!LiveOwnsLock, QP!Live, QP!MutualExclusion
<1> QED
  BY <1>1, PipeInit, PipeStep, PTL DEF Spec
===============================================================================
