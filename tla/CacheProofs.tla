------------------------------ MODULE CacheProofs ------------------------------
(***************************************************************************)
(* The cache for any keys, callers, times to live and number of calls: its *)
(* types, the flag of the background refresh, and that neither an old read *)
(* nor an invalidated value comes through.                                 *)
(***************************************************************************)
EXTENDS CacheManager, TLAPS

USE TtlAssumption, TimeAssumption, BoundsAssumption

-------------------------------------------------------------------------------
(* Types                                                                    *)

\* The longer ttl after an error is between the base and the largest one.
LEMMA FailedIsEntry == ASSUME NEW e \in Entry PROVE Failed(e) \in Entry
<1>1. e.errors \in Nat /\ BaseTtl * (2 + e.errors) \in Nat
  BY DEF Entry
<1>2. BaseTtl * (2 + e.errors) >= BaseTtl
  <2> DEFINE n == e.errors
  <2>1. BaseTtl * (2 + n) = BaseTtl + BaseTtl * (1 + n)
    BY <1>1
  <2>2. BaseTtl * (1 + n) \in Nat
    BY <1>1
  <2> QED
    BY <2>1, <2>2, <1>1
<1>3. Smaller(BaseTtl * (2 + e.errors), MaxTtl) \in BaseTtl..MaxTtl
  BY <1>1, <1>2 DEF Smaller
<1>4. Smaller(e.errors + 1, MaxTtl) \in 0..MaxTtl
  BY <1>1 DEF Smaller
<1> QED
  BY <1>3, <1>4 DEF Failed, Entry

\* An entry that is emptied, filled or aged is an entry.
LEMMA ChangedIsEntry ==
    ASSUME NEW e \in Entry, NEW v \in Versions \cup {Empty}, NEW t \in 0..MaxTime
    PROVE  /\ [e EXCEPT !.value = v, !.created = t, !.errors = 0] \in Entry
           /\ [e EXCEPT !.value = v, !.created = t] \in Entry
           /\ [e EXCEPT !.created = t] \in Entry
           /\ [value |-> v, created |-> t, ttl |-> BaseTtl, errors |-> 0] \in Entry
           /\ e.value \in Versions \cup {Empty} /\ e.created \in 0..MaxTime
<1> DEFINE Value == Versions \cup {Empty}
<1> HIDE DEF Value
<1>1. Entry = [value : Value, created : 0..MaxTime, ttl : BaseTtl..MaxTtl, errors : 0..MaxTtl]
  BY DEF Value, Entry
<1>2. v \in Value
  BY DEF Value
<1>3. 0 \in 0..MaxTtl /\ BaseTtl \in BaseTtl..MaxTtl
  OBVIOUS
<1>4. /\ [e EXCEPT !.value = v, !.created = t, !.errors = 0] \in Entry
      /\ [e EXCEPT !.value = v, !.created = t] \in Entry
      /\ [e EXCEPT !.created = t] \in Entry
  BY <1>1, <1>2, <1>3
<1>5. [value |-> v, created |-> t, ttl |-> BaseTtl, errors |-> 0] \in Entry
  BY <1>1, <1>2, <1>3
<1>6. e.value \in Versions \cup {Empty} /\ e.created \in 0..MaxTime
  BY <1>1 DEF Value
<1> QED
  BY <1>4, <1>5, <1>6

LEMMA TypeInit == Init => TypeOK
<1> SUFFICES ASSUME Init
             PROVE  TypeOK
  OBVIOUS
<1> USE DEF Init
<1>1. NewEntry \in Entry
  BY DEF NewEntry, Entry
<1>2. PICK k \in Keys : key = [a \in Agents |-> k]
  OBVIOUS
<1>3. key \in [Agents -> Keys]
  BY <1>2
<1>4. 1 \in Versions
  BY DEF Versions
<1>5. clock \in StartTime..MaxTime /\ calls \in 0..MaxCalls
  OBVIOUS
<1>6. entry \in [Keys -> Entry] /\ snap \in [Keys -> Entry]
  BY <1>1
<1>7. source \in [Keys -> Versions]
  BY <1>4
<1> QED
  BY <1>3, <1>5, <1>6, <1>7 DEF TypeOK

\* What the end of a fetch leaves is of the right types.
LEMMA LeaveType ==
    ASSUME TypeOK, NEW a \in Agents, Leave(a)
    PROVE  /\ lock' \in Agents \cup {NoOne}
           /\ at' \in [Agents -> {Idle, "get", "force", "getOrRefresh", "bg", "fetching", "storing"}]
           /\ read' \in [Agents -> Versions \cup {Empty}]
           /\ pending' \in [Keys -> BOOLEAN]
           /\ bg' \in [Keys -> {"none", "pool", "running"}]
BY DEF TypeOK, Leave

LEMMA TypeStep == TypeOK /\ [Next]_vars => TypeOK'
<1> SUFFICES ASSUME TypeOK, [Next]_vars
             PROVE  TypeOK'
  OBVIOUS
<1> USE DEF TypeOK
<1>1. CASE Tick
  BY <1>1 DEF Tick
<1>15. CASE Shutdown
  BY <1>15 DEF Shutdown
<1>16. CASE UNCHANGED vars
  BY <1>16 DEF vars
<1>2. ASSUME NEW k \in Keys, SourceChanges(k)
      PROVE  TypeOK'
  BY <1>2 DEF SourceChanges, Versions
<1>3. ASSUME NEW c \in Callers, NEW k \in Keys,
             NEW kind \in {"get", "force", "getOrRefresh"}, Call(c, kind, k)
      PROVE  TypeOK'
  BY <1>3 DEF Call, Agents
<1>4. ASSUME NEW c \in Callers, NEW ks \in SUBSET Keys, Invalidate(c, ks)
      PROVE  TypeOK'
  <2>0. 0 \in 0..MaxTime /\ Empty \in Versions \cup {Empty}
    OBVIOUS
  <2>1. \A k \in Keys : Invalidated(entry[k]) \in Entry
    BY <2>0, ChangedIsEntry DEF Invalidated
  <2> QED
    BY <1>4, <2>1 DEF Invalidate, Write
<1>5. ASSUME NEW c \in Callers, NEW k \in Keys, NEW v \in Versions, Set(c, k, v)
      PROVE  TypeOK'
  <2>0. clock \in 0..MaxTime
    OBVIOUS
  <2>1. [entry[k] EXCEPT !.value = v, !.created = clock, !.errors = 0] \in Entry
    BY <2>0, ChangedIsEntry
  <2>2. entry' = [entry EXCEPT ![k] = [entry[k] EXCEPT !.value = v, !.created = clock, !.errors = 0]]
    BY <1>5 DEF Set
  <2>3. entry' \in [Keys -> Entry]
    BY <2>1, <2>2
  <2> QED
    BY <1>5, <2>3 DEF Set, Write
<1>6. ASSUME NEW c \in Callers, Snapshot(c)
      PROVE  TypeOK'
  BY <1>6 DEF Snapshot, Write
<1>7. ASSUME NEW c \in Callers, Rollback(c)
      PROVE  TypeOK'
  <2>0. 0 \in 0..MaxTime /\ Empty \in Versions \cup {Empty}
    OBVIOUS
  <2>1. \A k \in Keys : RolledBack(k) \in Entry
    BY <2>0, ChangedIsEntry DEF RolledBack
  <2> QED
    BY <1>7, <2>1 DEF Rollback, Write
<1>8. ASSUME NEW c \in Callers, Clear(c)
      PROVE  TypeOK'
  <2>0. 0 \in 0..MaxTime /\ Empty \in Versions \cup {Empty}
    OBVIOUS
  <2>1. \A k \in Keys : [entry[k] EXCEPT !.value = Empty, !.created = 0, !.errors = 0] \in Entry
    BY <2>0, ChangedIsEntry
  <2>2. entry' \in [Keys -> Entry]
    BY <1>8, <2>1 DEF Clear
  <2>3. Write(c) /\ UNCHANGED <<floor, snap>>
    BY <1>8 DEF Clear
  <2> QED
    BY <2>2, <2>3 DEF Write
<1>9. ASSUME NEW c \in Callers, Get(c)
      PROVE  TypeOK'
  <2>1. entry[key[c]] \in Entry
    BY DEF Agents
  <2>2. entry[key[c]].value \in Versions \cup {Empty}
    BY <2>1 DEF Entry
  <2>3. CASE StartFetch(c) /\ UNCHANGED last
    BY <1>9, <2>3 DEF Get, StartFetch, Agents
  <2>4. CASE Hit(c)
    <3>1. last' \in [value : Versions \cup {Empty}, floor : Versions \cup {Empty},
                     failed : BOOLEAN]
      BY <2>2, <2>4 DEF Hit, Return, Agents
    <3> QED
      BY <1>9, <2>4, <3>1 DEF Get, Hit
  <2> QED
    BY <1>9, <2>3, <2>4 DEF Get
<1>10. ASSUME NEW c \in Callers, GetOrRefresh(c)
       PROVE  TypeOK'
  BY <1>10 DEF GetOrRefresh, StartFetch, SubmitBackground, Agents
<1>11. ASSUME NEW k \in Keys, BackgroundRuns(k) \/ BackgroundLocks(k)
       PROVE  TypeOK'
  BY <1>11 DEF BackgroundRuns, BackgroundLocks, StartFetch, Agents
<1>12. ASSUME NEW a \in Agents, FetcherReads(a)
       PROVE  TypeOK'
  BY <1>12 DEF FetcherReads
<1>13. ASSUME NEW a \in Agents, FetchSucceeds(a)
       PROVE  TypeOK'
  <2>1. Stored(a) \in Entry
    BY DEF Stored, Entry
  <2> QED
    BY <1>13, <2>1, LeaveType DEF FetchSucceeds, Return
<1>14. ASSUME NEW a \in Agents, FetchFails(a)
       PROVE  TypeOK'
  <2>1. entry[key[a]] \in Entry /\ Failed(entry[key[a]]) \in Entry
    BY FailedIsEntry
  <2>2. entry[key[a]].value \in Versions \cup {Empty}
    BY <2>1 DEF Entry
  <2> QED
    BY <1>14, <2>1, <2>2, LeaveType DEF FetchFails, Return
<1>17. ASSUME NEW a \in Agents, Proceed(a)
       PROVE  TypeOK'
  BY <1>9, <1>10, <1>11, <1>12, <1>13, <1>14, <1>17 DEF Proceed
<1> HIDE DEF TypeOK
<1> QED
  BY <1>1, <1>2, <1>3, <1>4, <1>5, <1>6, <1>7, <1>8, <1>15, <1>16, <1>17 DEF Next

LEMMA TypeAlways == Spec => []TypeOK
BY TypeInit, TypeStep, PTL DEF Spec

-------------------------------------------------------------------------------
(* The flag                                                                 *)

\* A task in the pool or running has its flag set, and the flag has its task.
FlagAgrees == PendingHasTask /\ \A k \in Keys : bg[k] # "none" => pending[k]

LEMMA FlagInit == Init => FlagAgrees
BY DEF Init, FlagAgrees, PendingHasTask

\* The flag and the task are set together and reset together; a task that a
\* shutdown removes from the pool leaves a flag nobody asks for any more.
LEMMA FlagStep == TypeOK /\ FlagAgrees /\ [Next]_vars => FlagAgrees'
<1> SUFFICES ASSUME TypeOK, FlagAgrees, [Next]_vars
             PROVE  FlagAgrees'
  OBVIOUS
<1> USE DEF FlagAgrees, PendingHasTask
<1>1. CASE UNCHANGED <<pending, bg, down>>
  BY <1>1
<1>2. CASE Shutdown
  BY <1>2 DEF Shutdown
<1>3. ASSUME NEW a \in Agents, Leave(a), UNCHANGED down
      PROVE  FlagAgrees'
  BY <1>3 DEF Leave, TypeOK
<1>4. ASSUME NEW c \in Callers, GetOrRefresh(c)
      PROVE  FlagAgrees'
  <2>1. CASE SubmitBackground(key[c]) /\ UNCHANGED down
    BY <2>1 DEF SubmitBackground, TypeOK
  <2> QED
    BY <1>1, <1>4, <2>1 DEF GetOrRefresh
<1>5. ASSUME NEW k \in Keys, BackgroundRuns(k)
      PROVE  FlagAgrees'
  BY <1>5 DEF BackgroundRuns, TypeOK
<1>6. ASSUME NEW a \in Agents, Proceed(a)
      PROVE  FlagAgrees'
  <2>1. CASE FetchSucceeds(a) \/ FetchFails(a)
    BY <2>1, <1>3 DEF FetchSucceeds, FetchFails
  <2>2. CASE FetcherReads(a) \/ (a \in Callers /\ Get(a)) \/ (a \in Keys /\ BackgroundLocks(a))
    BY <2>2, <1>1 DEF FetcherReads, Get, BackgroundLocks
  <2> QED
    BY <1>4, <1>5, <1>6, <2>1, <2>2 DEF Proceed
<1>7. ASSUME Next, ~Shutdown, \A a \in Agents : ~Proceed(a)
      PROVE  UNCHANGED <<pending, bg, down>>
  BY <1>7 DEF Next, Tick, SourceChanges, Call, Invalidate, Set, Snapshot, Rollback,
              Clear, Write
<1> QED
  BY <1>1, <1>2, <1>6, <1>7 DEF vars

\* A background refresh is submitted only for a key whose flag was not set, and so
\* for one that has no task yet.
LEMMA SubmitStep ==
    TypeOK /\ FlagAgrees /\ [Next]_vars =>
        \A k \in Keys : bg[k] # "none" /\ bg'[k] = "pool" => bg[k] = "pool"
<1> SUFFICES ASSUME TypeOK, FlagAgrees, [Next]_vars,
                    NEW k \in Keys, bg[k] # "none", bg'[k] = "pool"
             PROVE  bg[k] = "pool"
  OBVIOUS
<1>1. CASE UNCHANGED bg
  BY <1>1
<1>2. CASE Shutdown
  BY <1>2 DEF Shutdown
<1>3. ASSUME NEW a \in Agents, Leave(a)
      PROVE  bg[k] = "pool"
  BY <1>3 DEF Leave, TypeOK
<1>4. ASSUME NEW c \in Callers, GetOrRefresh(c)
      PROVE  bg[k] = "pool"
  <2>1. pending[k]
    BY DEF FlagAgrees
  <2>2. CASE Revalidate(key[c]) /\ SubmitBackground(key[c])
    BY <2>1, <2>2 DEF Revalidate, SubmitBackground, TypeOK
  <2> QED
    BY <1>1, <1>4, <2>2 DEF GetOrRefresh
<1>5. ASSUME NEW q \in Keys, BackgroundRuns(q)
      PROVE  bg[k] = "pool"
  BY <1>5 DEF BackgroundRuns, TypeOK
<1>6. ASSUME NEW a \in Agents, Proceed(a)
      PROVE  bg[k] = "pool"
  <2>1. CASE FetchSucceeds(a) \/ FetchFails(a)
    BY <2>1, <1>3 DEF FetchSucceeds, FetchFails
  <2>2. CASE FetcherReads(a) \/ (a \in Callers /\ Get(a)) \/ (a \in Keys /\ BackgroundLocks(a))
    BY <2>2, <1>1 DEF FetcherReads, Get, BackgroundLocks
  <2> QED
    BY <1>4, <1>5, <1>6, <2>1, <2>2 DEF Proceed
<1>7. ASSUME Next, ~Shutdown, \A a \in Agents : ~Proceed(a)
      PROVE  UNCHANGED bg
  BY <1>7 DEF Next, Tick, SourceChanges, Call, Invalidate, Set, Snapshot, Rollback,
              Clear, Write
<1> QED
  BY <1>1, <1>2, <1>6, <1>7 DEF vars

\* background_pending stands for one task of its key: it is never left set, and no
\* second task is submitted before the first has reset it.
THEOREM FlagIsOneTaskHolds == Spec => FlagIsOneTask
<1>1. FlagAgrees' => PendingHasTask'
  BY DEF FlagAgrees
<1> QED
  BY <1>1, TypeAlways, FlagInit, FlagStep, SubmitStep, PTL DEF Spec, FlagIsOneTask

-------------------------------------------------------------------------------
(* The values                                                               *)

LockOfFetch == \A a \in Agents : at[a] \in {"fetching", "storing"} => lock = a

\* Nothing is newer than its source.
NotAhead ==
    \A k \in Keys : floor[k] <= source[k] /\ entry[k].value <= source[k] /\ snap[k].value <= source[k]

\* What a fetcher has read is at least as new as what it will replace, and as the
\* last invalidation.
ReadIsNew ==
    \A a \in Agents : at[a] = "storing" =>
        /\ floor[key[a]] <= read[a] /\ entry[key[a]].value <= read[a]
        /\ read[a] <= source[key[a]]

\* A value from before the last invalidation is as old as can be.
StaleIsExpired ==
    \A k \in Keys : \/ entry[k].value = Empty
                    \/ entry[k].created = 0
                    \/ entry[k].value >= floor[k]

ValuesAgree ==
    /\ LockOfFetch
    /\ NotAhead
    /\ ReadIsNew
    /\ StaleIsExpired
    /\ StartTime > MaxTtl => ReturnsSinceInvalidation

\* The parts of the types that the comparison of values needs.
LEMMA ValueTypes ==
    ASSUME TypeOK
    PROVE  /\ clock \in Nat /\ clock >= StartTime
           /\ \A k \in Keys : /\ source[k] \in Nat /\ floor[k] \in Nat
                              /\ entry[k].value \in Nat /\ entry[k].created \in Nat
                              /\ entry[k].ttl \in Nat /\ entry[k].ttl <= MaxTtl
                              /\ snap[k].value \in Nat
           /\ \A a \in Agents : read[a] \in Nat /\ key[a] \in Keys
BY DEF TypeOK, Entry, Versions, Empty

LEMMA ValuesInit == Init => ValuesAgree
BY DEF Init, ValuesAgree, LockOfFetch, NotAhead, ReadIsNew, StaleIsExpired,
       ReturnsSinceInvalidation, NewEntry, Empty, Idle

\* Steps that change no value.  An agent may come to the lock or get it, not more.
LEMMA NoValueStep ==
    ASSUME TypeOK, ValuesAgree, UNCHANGED <<entry, floor, source, snap, read, last>>,
           \A a \in Agents : \/ at'[a] = at[a] /\ key'[a] = key[a] /\ lock' = lock
                             \/ at'[a] \notin {"fetching", "storing"}
                             \/ at'[a] = "fetching" /\ lock' = a
    PROVE  ValuesAgree'
<1> USE DEF ValuesAgree
<1>1. LockOfFetch'
  BY DEF LockOfFetch
<1>2. NotAhead' /\ StaleIsExpired' /\ (StartTime > MaxTtl => ReturnsSinceInvalidation')
  BY DEF NotAhead, StaleIsExpired, ReturnsSinceInvalidation
<1>3. ReadIsNew'
  BY DEF ReadIsNew
<1> QED
  BY <1>1, <1>2, <1>3

\* Steps under the lock that write entries: nobody is in a fetch then.
LEMMA WriteStep ==
    ASSUME TypeOK, ValuesAgree, NEW c \in Callers, Write(c), NotAhead', StaleIsExpired'
    PROVE  ValuesAgree'
<1>1. \A a \in Agents : at[a] \notin {"fetching", "storing"}
  BY NoOneIsNoAgent DEF ValuesAgree, LockOfFetch, Write
<1>2. LockOfFetch' /\ ReadIsNew'
  BY <1>1 DEF LockOfFetch, ReadIsNew, Write
<1>3. StartTime > MaxTtl => ReturnsSinceInvalidation'
  BY DEF ValuesAgree, ReturnsSinceInvalidation, Write
<1> QED
  BY <1>2, <1>3 DEF ValuesAgree

\* A get() that finds an entry young enough finds one since the last invalidation:
\* an invalidated one is older than any ttl, since the clock starts above them.
LEMMA HitStep ==
    ASSUME TypeOK, ValuesAgree, NEW c \in Callers, lock = NoOne,
           at[c] \in {"get", "force"},
           ~IsEmpty(entry[key[c]]), ~Expired(entry[key[c]]), Hit(c),
           UNCHANGED <<source, entry, key, read, snap, floor>>
    PROVE  ValuesAgree'
<1>1. key[c] \in Keys /\ c \in Agents
  BY DEF TypeOK, Agents
<1>2. StartTime > MaxTtl => entry[key[c]].value >= floor[key[c]]
  BY <1>1, ValueTypes DEF ValuesAgree, StaleIsExpired, IsEmpty, Expired
<1>3. StartTime > MaxTtl => ReturnsSinceInvalidation'
  BY <1>2 DEF Hit, Return, ReturnsSinceInvalidation
<1>4. \A a \in Agents : at'[a] \in {"fetching", "storing"} => at'[a] = at[a]
  BY DEF Hit, TypeOK, Idle
<1>5. LockOfFetch' /\ ReadIsNew'
  BY <1>4 DEF ValuesAgree, LockOfFetch, ReadIsNew, Hit
<1>6. NotAhead' /\ StaleIsExpired'
  BY DEF ValuesAgree, NotAhead, StaleIsExpired
<1> QED
  BY <1>3, <1>5, <1>6 DEF ValuesAgree

\* The lock keeps everybody else out of the step that ends a fetch.
LEMMA LeaveStep ==
    ASSUME TypeOK, ValuesAgree, NEW a \in Agents,
           at[a] \in {"fetching", "storing"}, Leave(a), UNCHANGED key
    PROVE  LockOfFetch' /\ ReadIsNew'
<1>1. \A b \in Agents : at'[b] \notin {"fetching", "storing"}
  BY DEF TypeOK, ValuesAgree, LockOfFetch, Leave, Idle
<1> QED
  BY <1>1 DEF LockOfFetch, ReadIsNew

LEMMA ValuesStep == TypeOK /\ ValuesAgree /\ [Next]_vars => ValuesAgree'
<1> SUFFICES ASSUME TypeOK, ValuesAgree, [Next]_vars
             PROVE  ValuesAgree'
  OBVIOUS
<1>1. CASE Tick \/ Shutdown \/ UNCHANGED vars
  BY <1>1, NoValueStep DEF Tick, Shutdown, vars
<1>2. ASSUME NEW k \in Keys, SourceChanges(k)
      PROVE  ValuesAgree'
  <2>1. \A q \in Keys : source[q] <= source'[q] /\ source'[q] \in Nat
    BY <1>2, ValueTypes DEF SourceChanges, TypeOK
  <2>2. NotAhead' /\ ReadIsNew'
    BY <1>2, <2>1, ValueTypes DEF SourceChanges, ValuesAgree, NotAhead, ReadIsNew
  <2> QED
    BY <1>2, <2>2 DEF SourceChanges, ValuesAgree, LockOfFetch, StaleIsExpired,
                      ReturnsSinceInvalidation
<1>3. ASSUME NEW c \in Callers, NEW k \in Keys,
             NEW kind \in {"get", "force", "getOrRefresh"}, Call(c, kind, k)
      PROVE  ValuesAgree'
  <2>1. \A a \in Agents : \/ at'[a] = at[a] /\ key'[a] = key[a]
                          \/ at'[a] \notin {"fetching", "storing"}
    BY <1>3 DEF Call, TypeOK
  <2> QED
    BY <1>3, <2>1, NoValueStep DEF Call
<1>4. ASSUME NEW c \in Callers, NEW ks \in SUBSET Keys, Invalidate(c, ks)
      PROVE  ValuesAgree'
  <2>1. \A k \in Keys : entry'[k].value = entry[k].value
    BY <1>4 DEF Invalidate, Invalidated, TypeOK, Entry
  <2>2. \A k \in ks : entry'[k].created = 0
    BY <1>4 DEF Invalidate, Invalidated, TypeOK, Entry
  <2>3. ASSUME NEW k \in Keys
        PROVE  \/ floor'[k] = source[k]
               \/ k \notin ks /\ floor'[k] = floor[k] /\ entry'[k] = entry[k]
    <3>1. floor'[k] = (IF k \in ks THEN source[k] ELSE floor[k])
      BY <1>4 DEF Invalidate
    <3>2. entry'[k] = (IF k \in ks THEN Invalidated(entry[k]) ELSE entry[k])
      BY <1>4 DEF Invalidate
    <3> QED
      BY <3>1, <3>2
  <2>4. UNCHANGED <<snap, source>> /\ Write(c)
    BY <1>4 DEF Invalidate, Write
  <2>5. NotAhead'
    BY <2>1, <2>3, <2>4, ValueTypes DEF ValuesAgree, NotAhead
  <2>6. StaleIsExpired'
    <3> SUFFICES ASSUME NEW k \in Keys, entry'[k].value # Empty, entry'[k].created # 0
                 PROVE  entry'[k].value >= floor'[k]
      BY DEF StaleIsExpired
    <3>1. k \notin ks /\ floor'[k] = floor[k] /\ entry'[k] = entry[k]
      BY <1>4, <2>2 DEF Invalidate
    <3> QED
      BY <3>1 DEF ValuesAgree, StaleIsExpired
  <2> QED
    BY <2>4, <2>5, <2>6, WriteStep
<1>5. ASSUME NEW c \in Callers, NEW k \in Keys, NEW v \in Versions, Set(c, k, v)
      PROVE  ValuesAgree'
  <2>1. \A q \in Keys : \/ q = k /\ entry'[q].value = v /\ floor'[q] = Empty
                        \/ q # k /\ entry'[q] = entry[q] /\ floor'[q] = floor[q]
    BY <1>5 DEF Set, TypeOK, Entry
  <2>2. UNCHANGED <<snap, source>> /\ Write(c) /\ v <= source[k] /\ v \in Nat
    BY <1>5 DEF Set, Write, Versions
  <2>3. NotAhead' /\ StaleIsExpired'
    BY <2>1, <2>2, ValueTypes DEF ValuesAgree, NotAhead, StaleIsExpired, Empty
  <2> QED
    BY <2>2, <2>3, WriteStep
<1>6. ASSUME NEW c \in Callers, Snapshot(c)
      PROVE  ValuesAgree'
  <2>1. NotAhead' /\ StaleIsExpired' /\ Write(c)
    BY <1>6 DEF Snapshot, Write, ValuesAgree, NotAhead, StaleIsExpired
  <2> QED
    BY <2>1, WriteStep
<1>7. ASSUME NEW c \in Callers, Rollback(c)
      PROVE  ValuesAgree'
  <2>1. ASSUME NEW k \in Keys
        PROVE  entry'[k].value = snap[k].value /\ floor'[k] = Empty
    <3>1. entry[k] \in Entry
      BY DEF TypeOK
    <3>2. RolledBack(k).value = snap[k].value
      BY <3>1 DEF RolledBack, IsEmpty, Entry
    <3>3. entry'[k] = RolledBack(k) /\ floor'[k] = Empty
      BY <1>7 DEF Rollback
    <3> QED
      BY <3>2, <3>3
  <2>2. UNCHANGED <<snap, source>> /\ Write(c)
    BY <1>7 DEF Rollback, Write
  <2>3. NotAhead' /\ StaleIsExpired'
    BY <2>1, <2>2, ValueTypes DEF ValuesAgree, NotAhead, StaleIsExpired, Empty
  <2> QED
    BY <2>2, <2>3, WriteStep
<1>8. ASSUME NEW c \in Callers, Clear(c)
      PROVE  ValuesAgree'
  <2>1. ASSUME NEW k \in Keys
        PROVE  entry'[k].value = Empty
    <3>1. entry[k] \in Entry
      BY DEF TypeOK
    <3>2. [entry[k] EXCEPT !.value = Empty, !.created = 0, !.errors = 0].value = Empty
      BY <3>1 DEF Entry
    <3>3. entry'[k] = [entry[k] EXCEPT !.value = Empty, !.created = 0, !.errors = 0]
      BY <1>8 DEF Clear
    <3> QED
      BY <3>2, <3>3
  <2>2. UNCHANGED <<floor, snap, source>> /\ Write(c)
    BY <1>8 DEF Clear, Write
  <2>3. NotAhead' /\ StaleIsExpired'
    BY <2>1, <2>2, ValueTypes DEF ValuesAgree, NotAhead, StaleIsExpired, Empty
  <2> QED
    BY <2>2, <2>3, WriteStep
<1>9. ASSUME NEW a \in Agents, StartFetch(a),
             UNCHANGED <<entry, floor, source, snap, read, last, key>>, lock = NoOne
      PROVE  ValuesAgree'
  <2>1. \A b \in Agents : \/ at'[b] \notin {"fetching", "storing"}
                          \/ at'[b] = "fetching" /\ lock' = b
    BY <1>9, NoOneIsNoAgent DEF StartFetch, TypeOK, ValuesAgree, LockOfFetch
  <2> QED
    BY <1>9, <2>1, NoValueStep
<1>10. ASSUME NEW c \in Callers, Get(c)
       PROVE  ValuesAgree'
  <2>1. CASE StartFetch(c) /\ UNCHANGED last
    BY <1>9, <1>10, <2>1 DEF Get, Agents
  <2>2. CASE ~IsEmpty(entry[key[c]]) /\ ~Expired(entry[key[c]]) /\ Hit(c)
    BY <1>10, <2>2, HitStep DEF Get
  <2> QED
    BY <1>10, <2>1, <2>2 DEF Get
<1>11. ASSUME NEW c \in Callers, GetOrRefresh(c)
       PROVE  ValuesAgree'
  <2>1. CASE StartFetch(c) /\ UNCHANGED last
    BY <1>9, <1>11, <2>1 DEF GetOrRefresh, Agents
  <2>2. CASE at' = [at EXCEPT ![c] = Idle] /\ UNCHANGED <<lock, last>>
    <3>1. \A a \in Agents : at'[a] = at[a] \/ at'[a] \notin {"fetching", "storing"}
      BY <2>2 DEF TypeOK, Idle
    <3> QED
      BY <1>11, <2>2, <3>1, NoValueStep DEF GetOrRefresh
  <2> QED
    BY <1>11, <2>1, <2>2 DEF GetOrRefresh
<1>12. ASSUME NEW k \in Keys, BackgroundRuns(k)
       PROVE  ValuesAgree'
  <2>1. \A a \in Agents : \/ at'[a] = at[a] /\ key'[a] = key[a]
                          \/ at'[a] \notin {"fetching", "storing"}
    BY <1>12 DEF BackgroundRuns, TypeOK
  <2> QED
    BY <1>12, <2>1, NoValueStep DEF BackgroundRuns
<1>13. ASSUME NEW k \in Keys, BackgroundLocks(k)
       PROVE  ValuesAgree'
  BY <1>9, <1>13 DEF BackgroundLocks, Agents
<1>14. ASSUME NEW a \in Agents, FetcherReads(a)
       PROVE  ValuesAgree'
  <2>1. \A b \in Agents : at'[b] \in {"fetching", "storing"} => at[b] \in {"fetching", "storing"}
    BY <1>14 DEF FetcherReads, TypeOK
  <2>2. LockOfFetch'
    BY <1>14, <2>1 DEF FetcherReads, ValuesAgree, LockOfFetch
  <2>3. \A b \in Agents : at'[b] = "storing" => b = a
    BY <1>14, <2>1 DEF FetcherReads, ValuesAgree, LockOfFetch
  <2>4. read'[a] = source[key[a]]
    BY <1>14 DEF FetcherReads, TypeOK
  <2>5. ReadIsNew'
    BY <1>14, <2>3, <2>4, ValueTypes DEF FetcherReads, ValuesAgree, NotAhead, ReadIsNew
  <2> QED
    BY <1>14, <2>2, <2>5 DEF FetcherReads, ValuesAgree, NotAhead, StaleIsExpired,
                             ReturnsSinceInvalidation
<1>15. ASSUME NEW a \in Agents, FetchSucceeds(a)
       PROVE  ValuesAgree'
  <2>1. LockOfFetch' /\ ReadIsNew'
    BY <1>15, LeaveStep DEF FetchSucceeds
  <2>2. /\ key[a] \in Keys
        /\ floor[key[a]] <= read[a] /\ read[a] <= source[key[a]]
    BY <1>15, ValueTypes DEF FetchSucceeds, ValuesAgree, ReadIsNew
  <2>3. \A k \in Keys : \/ k = key[a] /\ entry'[k].value = read[a]
                        \/ k # key[a] /\ entry'[k] = entry[k]
    BY <1>15 DEF FetchSucceeds, Stored, TypeOK
  <2>4. NotAhead' /\ StaleIsExpired'
    BY <1>15, <2>2, <2>3, ValueTypes
       DEF FetchSucceeds, ValuesAgree, NotAhead, StaleIsExpired
  <2>5. ReturnsSinceInvalidation'
    BY <1>15, <2>2, ValueTypes DEF FetchSucceeds, Return, ReturnsSinceInvalidation
  <2> QED
    BY <2>1, <2>4, <2>5 DEF ValuesAgree
<1>16. ASSUME NEW a \in Agents, FetchFails(a)
       PROVE  ValuesAgree'
  <2>1. LockOfFetch' /\ ReadIsNew'
    BY <1>16, LeaveStep DEF FetchFails
  <2>2. \A k \in Keys : entry'[k].value = entry[k].value /\ entry'[k].created = entry[k].created
    BY <1>16 DEF FetchFails, Failed, TypeOK, Entry
  <2>3. NotAhead' /\ StaleIsExpired'
    BY <1>16, <2>2 DEF FetchFails, ValuesAgree, NotAhead, StaleIsExpired
  <2>4. ReturnsSinceInvalidation'
    BY <1>16 DEF FetchFails, Return, ReturnsSinceInvalidation
  <2> QED
    BY <2>1, <2>3, <2>4 DEF ValuesAgree
<1>17. ASSUME NEW a \in Agents, Proceed(a)
       PROVE  ValuesAgree'
  BY <1>10, <1>11, <1>12, <1>13, <1>14, <1>15, <1>16, <1>17 DEF Proceed
<1> QED
  BY <1>1, <1>2, <1>3, <1>4, <1>5, <1>6, <1>7, <1>8, <1>17 DEF Next

\* The only value that is put in place of another one without the intent to go
\* back is one that a fetcher has read, and the lock kept that one up to date.
LEMMA ForwardStep ==
    ASSUME TypeOK, ValuesAgree, [Next]_vars, NEW k \in Keys
    PROVE  \/ entry'[k].value >= entry[k].value
           \/ \E c \in Callers : \/ \E v \in Versions : Set(c, k, v)
                                 \/ Rollback(c)
                                 \/ Clear(c)
<1> DEFINE Forward == entry'[k].value >= entry[k].value
<1> SUFFICES ASSUME ~(\E c \in Callers : \/ \E v \in Versions : Set(c, k, v)
                                         \/ Rollback(c)
                                         \/ Clear(c))
             PROVE  Forward
  OBVIOUS
<1>1. CASE entry'[k] = entry[k]
  BY <1>1, ValueTypes
<1>2. ASSUME NEW c \in Callers, NEW ks \in SUBSET Keys, Invalidate(c, ks)
      PROVE  Forward
  <2>1. entry[k] \in Entry /\ entry[k].value \in Nat
    BY ValueTypes DEF TypeOK
  <2>2. Invalidated(entry[k]).value = entry[k].value
    BY <2>1 DEF Invalidated, Entry
  <2>3. entry'[k] = (IF k \in ks THEN Invalidated(entry[k]) ELSE entry[k])
    BY <1>2 DEF Invalidate
  <2> QED
    BY <2>1, <2>2, <2>3
<1>3. ASSUME NEW c \in Callers, NEW q \in Keys, NEW v \in Versions, Set(c, q, v)
      PROVE  Forward
  <2>1. q # k
    BY <1>3
  <2>2. entry'[k] = entry[k]
    BY <1>3, <2>1 DEF Set, TypeOK
  <2> QED
    BY <1>1, <2>2
<1>4. ASSUME NEW a \in Agents, FetchSucceeds(a)
      PROVE  Forward
  <2>1. key[a] \in Keys /\ entry[key[a]].value <= read[a]
    BY <1>4, ValueTypes DEF FetchSucceeds, ValuesAgree, ReadIsNew
  <2>2. \/ k = key[a] /\ entry'[k].value = read[a]
        \/ k # key[a] /\ entry'[k] = entry[k]
    BY <1>4 DEF FetchSucceeds, Stored, TypeOK
  <2> QED
    BY <2>1, <2>2, ValueTypes
<1>5. ASSUME NEW a \in Agents, FetchFails(a)
      PROVE  Forward
  <2>1. entry'[k].value = entry[k].value
    BY <1>5 DEF FetchFails, Failed, TypeOK, Entry
  <2> QED
    BY <2>1, ValueTypes
<1>6. ASSUME NEW a \in Agents, Proceed(a)
      PROVE  Forward
  <2>1. CASE \/ FetcherReads(a)
             \/ a \in Callers /\ (Get(a) \/ GetOrRefresh(a))
             \/ a \in Keys /\ (BackgroundRuns(a) \/ BackgroundLocks(a))
    BY <2>1, <1>1 DEF FetcherReads, Get, GetOrRefresh, BackgroundRuns, BackgroundLocks
  <2> QED
    BY <1>4, <1>5, <1>6, <2>1 DEF Proceed
<1>7. CASE \/ Tick \/ Shutdown \/ UNCHANGED vars
           \/ \E q \in Keys : SourceChanges(q)
           \/ \E c \in Callers, q \in Keys, kind \in {"get", "force", "getOrRefresh"} : Call(c, kind, q)
           \/ \E c \in Callers : Snapshot(c)
  BY <1>1, <1>7 DEF Tick, Shutdown, vars, SourceChanges, Call, Snapshot
<1> QED
  BY <1>2, <1>3, <1>6, <1>7 DEF Next

LEMMA ValuesAlways == Spec => []ValuesAgree
BY TypeAlways, ValuesInit, ValuesStep, PTL DEF Spec

\* A get() that reaches the lock after an invalidation returns nothing from before
\* it, if time.monotonic() was above the longest ttl when the cache was created.
THEOREM ReturnsSinceInvalidationHolds ==
    ASSUME StartTime > MaxTtl
    PROVE  Spec => []ReturnsSinceInvalidation
<1>1. ValuesAgree => ReturnsSinceInvalidation
  BY DEF ValuesAgree
<1> QED
  BY <1>1, ValuesAlways, PTL

\* The value of an entry is never replaced by one that was read from the source
\* before it, whoever fetches, but for set(), rollback() and clear().
THEOREM ValuesMoveForwardHolds == Spec => ValuesMoveForward
<1>1. TypeOK /\ ValuesAgree /\ [Next]_vars =>
        \A k \in Keys : \/ entry'[k].value >= entry[k].value
                        \/ \E c \in Callers : \/ \E v \in Versions : Set(c, k, v)
                                              \/ Rollback(c)
                                              \/ Clear(c)
  BY ForwardStep
<1> QED
  BY <1>1, TypeAlways, ValuesAlways, PTL DEF Spec, ValuesMoveForward
===============================================================================
