---------------------------- MODULE CacheManager ----------------------------
(***************************************************************************)
(* CacheManager (services/cache_manager.py): entries with a time to live,  *)
(* read and invalidated by several threads under one RLock, which is held  *)
(* while the fetcher runs; and the background refresh that get_or_refresh  *)
(* submits to the TaskManager.                                             *)
(*                                                                         *)
(* What a fetcher returns is the version of the source it read, a number   *)
(* that grows with each change.  The entries' version numbers, error texts *)
(* and statistics are left out: nothing in the program reads them.         *)
(***************************************************************************)
EXTENDS Integers, FiniteSets

CONSTANTS Keys,        \* the registered keys
          Callers,     \* threads that use the cache
          BaseTtl,     \* base_ttl, in ticks
          MaxTtl,      \* the 60 seconds of line 155
          StartTime,   \* time.monotonic() when the cache is created
          MaxTime,     \* bound on the clock
          MaxChanges,  \* bound on the changes of each source
          MaxCalls     \* bound on the calls

ASSUME TtlAssumption == BaseTtl \in Nat /\ MaxTtl \in Nat /\ BaseTtl <= MaxTtl
ASSUME TimeAssumption == StartTime \in Nat /\ MaxTime \in Nat /\ StartTime <= MaxTime
ASSUME BoundsAssumption == MaxChanges \in Nat /\ MaxCalls \in Nat
ASSUME KeysAreNotCallers == Keys \cap Callers = {}

(* The background refresh of a key runs in a pool thread that goes by the  *)
(* name of the key.                                                        *)
Agents == Callers \cup Keys

Empty == 0
Versions == 1..(MaxChanges + 1)
Idle == "idle"
NoOne == "nobody"

ASSUME NoOneIsNoAgent == NoOne \notin Agents

VARIABLES
    clock,    \* time.monotonic()
    source,   \* the version of each data source
    entry,    \* _entries: value, created (created_at), ttl, errors
    pending,  \* background_pending of each entry
    lock,     \* who holds _lock while a fetch is in progress
    at,       \* what each agent is doing
    key,      \* the key it is doing it to
    read,     \* what the fetcher an agent runs has returned
    bg,       \* the task "cache-bg-<key>": "none", "pool", "running"
    snap,     \* the entries of the last snapshot()
    down,     \* TaskManager is shutting down
    calls,    \* calls so far
    floor,    \* history: version of the source at the last invalidation
    last      \* history: the last value returned

vars == <<clock, source, entry, pending, lock, at, key, read, bg, snap, down,
          calls, floor, last>>

Entry == [value : Versions \cup {Empty}, created : 0..MaxTime,
          ttl : BaseTtl..MaxTtl, errors : 0..MaxTtl]

TypeOK ==
    /\ clock \in StartTime..MaxTime
    /\ source \in [Keys -> Versions]
    /\ entry \in [Keys -> Entry]
    /\ pending \in [Keys -> BOOLEAN]
    /\ lock \in Agents \cup {NoOne}
    /\ at \in [Agents -> {Idle, "get", "force", "getOrRefresh", "bg", "fetching", "storing"}]
    /\ key \in [Agents -> Keys]
    /\ read \in [Agents -> Versions \cup {Empty}]
    /\ bg \in [Keys -> {"none", "pool", "running"}]
    /\ snap \in [Keys -> Entry]
    /\ down \in BOOLEAN
    /\ calls \in 0..MaxCalls
    /\ floor \in [Keys -> Versions \cup {Empty}]
    /\ last \in [value : Versions \cup {Empty}, floor : Versions \cup {Empty},
                 failed : BOOLEAN]

NewEntry == [value |-> Empty, created |-> StartTime, ttl |-> BaseTtl, errors |-> 0]

Init ==
    /\ clock = StartTime
    /\ source = [k \in Keys |-> 1]
    /\ entry = [k \in Keys |-> NewEntry]
    /\ pending = [k \in Keys |-> FALSE]
    /\ lock = NoOne
    /\ at = [a \in Agents |-> Idle]
    /\ key \in {[a \in Agents |-> k] : k \in Keys}
    /\ read = [a \in Agents |-> Empty]
    /\ bg = [k \in Keys |-> "none"]
    /\ snap = [k \in Keys |-> NewEntry]
    /\ down = FALSE
    /\ calls = 0
    /\ floor = [k \in Keys |-> Empty]
    /\ last = [value |-> Empty, floor |-> Empty, failed |-> TRUE]

Smaller(m, n) == IF m < n THEN m ELSE n

Expired(e) == clock - e.created > e.ttl
IsEmpty(e) == e.value = Empty

-----------------------------------------------------------------------------
(* The world                                                                *)

Tick ==
    /\ clock < MaxTime
    /\ clock' = clock + 1
    /\ UNCHANGED <<source, entry, pending, lock, at, key, read, bg, snap, down,
                   calls, floor, last>>

SourceChanges(k) ==
    /\ source[k] <= MaxChanges
    /\ source' = [source EXCEPT ![k] = @ + 1]
    /\ UNCHANGED <<clock, entry, pending, lock, at, key, read, bg, snap, down,
                   calls, floor, last>>

-----------------------------------------------------------------------------
(* Reading                                                                  *)

(* A call of get(), get(force_refresh=True) or get_or_refresh() comes to    *)
(* the lock.                                                                *)
Call(c, kind, k) ==
    /\ calls < MaxCalls
    /\ at[c] = Idle
    /\ calls' = calls + 1
    /\ at' = [at EXCEPT ![c] = kind]
    /\ key' = [key EXCEPT ![c] = k]
    /\ UNCHANGED <<clock, source, entry, pending, lock, read, bg, snap, down,
                   floor, last>>

Return(k, value, failed) ==
    last' = [value |-> value, floor |-> floor[k], failed |-> failed]

StartFetch(a) ==
    /\ lock' = a
    /\ at' = [at EXCEPT ![a] = "fetching"]

Hit(a) ==
    /\ at' = [at EXCEPT ![a] = Idle]
    /\ Return(key[a], entry[key[a]].value, FALSE)
    /\ UNCHANGED lock

Get(c) ==
    /\ lock = NoOne
    /\ at[c] \in {"get", "force"}
    /\ LET e == entry[key[c]] IN
       IF IsEmpty(e) \/ at[c] = "force" \/ Expired(e)
       THEN StartFetch(c) /\ UNCHANGED last
       ELSE Hit(c)
    /\ UNCHANGED <<clock, source, entry, pending, key, read, bg, snap, down,
                   calls, floor>>

(* submit() raises during a shutdown, and background_pending stays set.    *)
SubmitBackground(k) ==
    /\ pending' = [pending EXCEPT ![k] = TRUE]
    /\ bg' = IF down THEN bg ELSE [bg EXCEPT ![k] = "pool"]

Revalidate(k) == Expired(entry[k]) /\ ~pending[k]

GetOrRefresh(c) ==
    /\ lock = NoOne
    /\ at[c] = "getOrRefresh"
    /\ LET k == key[c] IN
       \/ /\ IsEmpty(entry[k])
          /\ StartFetch(c)
          /\ UNCHANGED <<pending, bg, last>>
       \/ /\ ~IsEmpty(entry[k]) /\ Revalidate(k)
          /\ SubmitBackground(k)
          /\ at' = [at EXCEPT ![c] = Idle]
          /\ UNCHANGED <<lock, last>>
       \/ /\ ~IsEmpty(entry[k]) /\ ~Revalidate(k)
          /\ at' = [at EXCEPT ![c] = Idle]
          /\ UNCHANGED <<lock, pending, bg, last>>
    /\ UNCHANGED <<clock, source, entry, key, read, snap, down, calls, floor>>

(* _fetch, in three steps: it begins (above), the fetcher reads the source, *)
(* and it returns or raises.                                                *)
FetcherReads(a) ==
    /\ at[a] = "fetching"
    /\ read' = [read EXCEPT ![a] = source[key[a]]]
    /\ at' = [at EXCEPT ![a] = "storing"]
    /\ UNCHANGED <<clock, source, entry, pending, lock, key, bg, snap, down,
                   calls, floor, last>>

\* mistake: without finally, a fetcher that raises at once skips the reset
LeaveWithoutFinally(a) ==
    /\ lock' = NoOne
    /\ read' = [read EXCEPT ![a] = Empty]
    /\ at' = [at EXCEPT ![a] = Idle]
    /\ pending' = IF a \in Keys /\ at[a] = "storing"
                  THEN [pending EXCEPT ![a] = FALSE] ELSE pending
    /\ bg' = IF a \in Keys THEN [bg EXCEPT ![a] = "none"] ELSE bg

(* The background task's finally clause, and the release of the lock.      *)
Leave(a) ==
    /\ lock' = NoOne
    /\ read' = [read EXCEPT ![a] = Empty]
    /\ at' = [at EXCEPT ![a] = Idle]
    /\ pending' = IF a \in Keys THEN [pending EXCEPT ![a] = FALSE] ELSE pending
    /\ bg' = IF a \in Keys THEN [bg EXCEPT ![a] = "none"] ELSE bg

Stored(a) ==
    [value |-> read[a], created |-> clock, ttl |-> BaseTtl, errors |-> 0]

FetchSucceeds(a) ==
    /\ at[a] = "storing"
    /\ entry' = [entry EXCEPT ![key[a]] = Stored(a)]
    /\ Return(key[a], read[a], FALSE)
    /\ Leave(a)
    /\ UNCHANGED <<clock, source, key, snap, down, calls, floor>>

(* The count of errors matters up to the longest ttl only.                 *)
Failed(e) ==
    [e EXCEPT !.errors = Smaller(@ + 1, MaxTtl),
              !.ttl = Smaller(BaseTtl * (2 + e.errors), MaxTtl)]

\* mistake: the lock is released on success only
FetchFailsLocked(a) ==
    /\ at[a] \in {"fetching", "storing"}
    /\ entry' = [entry EXCEPT ![key[a]] = Failed(@)]
    /\ Return(key[a], entry[key[a]].value, TRUE)
    /\ at' = [at EXCEPT ![a] = Idle]
    /\ UNCHANGED <<clock, source, pending, lock, key, read, bg, snap, down,
                   calls, floor>>

FetchFails(a) ==
    /\ at[a] \in {"fetching", "storing"}
    /\ entry' = [entry EXCEPT ![key[a]] = Failed(@)]
    /\ Return(key[a], entry[key[a]].value, TRUE)
    /\ Leave(a)
    /\ UNCHANGED <<clock, source, key, snap, down, calls, floor>>

-----------------------------------------------------------------------------
(* The background task                                                      *)

BackgroundRuns(k) ==
    /\ bg[k] = "pool"
    /\ bg' = [bg EXCEPT ![k] = "running"]
    /\ at' = [at EXCEPT ![k] = "bg"]
    /\ key' = [key EXCEPT ![k] = k]
    /\ UNCHANGED <<clock, source, entry, pending, lock, read, snap, down, calls,
                   floor, last>>

\* mistake: fetches without the lock
BackgroundUnlocked(k) ==
    /\ at[k] = "bg"
    /\ at' = [at EXCEPT ![k] = "fetching"]
    /\ UNCHANGED <<clock, source, entry, pending, lock, key, read, bg, snap, down,
                   calls, floor, last>>

BackgroundLocks(k) ==
    /\ lock = NoOne
    /\ at[k] = "bg"
    /\ StartFetch(k)
    /\ UNCHANGED <<clock, source, entry, pending, key, read, bg, snap, down,
                   calls, floor, last>>

(* TaskManager.shutdown(): a task still in the pool is cancelled.          *)
Shutdown ==
    /\ ~down
    /\ down' = TRUE
    /\ bg' = [k \in Keys |-> IF bg[k] = "pool" THEN "none" ELSE bg[k]]
    /\ UNCHANGED <<clock, source, entry, pending, lock, at, key, read, snap,
                   calls, floor, last>>

-----------------------------------------------------------------------------
(* Writing: each of these takes the lock for one step                       *)

Write(c) ==
    /\ lock = NoOne
    /\ at[c] = Idle
    /\ calls < MaxCalls
    /\ calls' = calls + 1
    /\ UNCHANGED <<clock, source, pending, lock, at, key, read, bg, down, last>>

\* mistake: the age becomes the ttl, which is not more than the ttl
InvalidatedToTtl(e) == [e EXCEPT !.created = clock - e.ttl]

Invalidated(e) == [e EXCEPT !.created = 0]

(* invalidate(key) and invalidate_all().                                   *)
Invalidate(c, ks) ==
    /\ Write(c)
    /\ entry' = [k \in Keys |-> IF k \in ks THEN Invalidated(entry[k]) ELSE entry[k]]
    /\ floor' = [k \in Keys |-> IF k \in ks THEN source[k] ELSE floor[k]]
    /\ UNCHANGED snap

(* set(): pre-loaded data, as old as it may be.  The ttl is left as the    *)
(* last failure made it.                                                   *)
Set(c, k, v) ==
    /\ Write(c)
    /\ v <= source[k]
    /\ entry' = [entry EXCEPT ![k].value = v, ![k].created = clock, ![k].errors = 0]
    /\ floor' = [floor EXCEPT ![k] = Empty]
    /\ UNCHANGED snap

Snapshot(c) ==
    /\ Write(c)
    /\ snap' = entry
    /\ UNCHANGED <<entry, floor>>

(* rollback(): keys that were empty in the snapshot are emptied.           *)
RolledBack(k) ==
    IF IsEmpty(snap[k])
    THEN [entry[k] EXCEPT !.value = Empty, !.created = 0]
    ELSE [value |-> snap[k].value, created |-> snap[k].created,
          ttl |-> BaseTtl, errors |-> 0]

Rollback(c) ==
    /\ Write(c)
    /\ entry' = [k \in Keys |-> RolledBack(k)]
    /\ floor' = [k \in Keys |-> Empty]
    /\ UNCHANGED snap

Clear(c) ==
    /\ Write(c)
    /\ entry' = [k \in Keys |-> [entry[k] EXCEPT !.value = Empty, !.created = 0, !.errors = 0]]
    /\ UNCHANGED <<floor, snap>>

-----------------------------------------------------------------------------
(* An agent that came to the lock, or holds it, goes on.                    *)
Proceed(a) ==
    \/ a \in Callers /\ (Get(a) \/ GetOrRefresh(a))
    \/ a \in Keys /\ (BackgroundRuns(a) \/ BackgroundLocks(a))
    \/ FetcherReads(a)
    \/ FetchSucceeds(a)
    \/ FetchFails(a)

Next ==
    \/ Tick
    \/ \E k \in Keys : SourceChanges(k)
    \/ \E c \in Callers, k \in Keys :
          \/ \E kind \in {"get", "force", "getOrRefresh"} : Call(c, kind, k)
          \/ Invalidate(c, {k})
          \/ \E v \in Versions : Set(c, k, v)
    \/ \E c \in Callers :
          \/ Invalidate(c, Keys)
          \/ Snapshot(c)
          \/ Rollback(c)
          \/ Clear(c)
    \/ \E a \in Agents : Proceed(a)
    \/ Shutdown

(* Fetchers return or raise, the pool runs its tasks, and a thread that     *)
(* waits for a lock gets it: MaxCalls bounds those it competes with.        *)
Spec == Init /\ [][Next]_vars /\ \A a \in Agents : WF_vars(Proceed(a))

-----------------------------------------------------------------------------
(* Properties                                                               *)

(* invalidate() "Mark cache entry as expired. Next get() will re-fetch."   *)
(* (line 256): a get() that reaches the lock after an invalidation returns *)
(* what was read from the source after it, whoever was fetching meanwhile, *)
(* or the fetch failed.  It needs StartTime > MaxTtl, see Invalidated.     *)
ReturnsSinceInvalidation == last.failed \/ last.value >= last.floor

(* background_pending (line 196) is never left set, which would end the    *)
(* background refreshes of the key for good: a task that will reset it is  *)
(* in the pool, unless the application is closing.                         *)
PendingHasTask ==
    \A k \in Keys : pending[k] => bg[k] \in {"pool", "running"} \/ down

(* The flag of a key stands for a task, and for one: a background task is  *)
(* submitted only when the one before has reset the flag, or submit()      *)
(* would cancel that one half way.                                         *)
FlagIsOneTask ==
    [][PendingHasTask' /\ \A k \in Keys : bg[k] # "none" /\ bg'[k] = "pool" => bg[k] = "pool"]_vars

(* A slow fetch never overwrites the result of a later one: what an entry  *)
(* holds only moves forward, but for set(), rollback() and clear().        *)
ValuesMoveForward ==
    [][\A k \in Keys : \/ entry'[k].value >= entry[k].value
                       \/ \E c \in Callers : \/ \E v \in Versions : Set(c, k, v)
                                             \/ Rollback(c)
                                             \/ Clear(c)]_vars

(* Every call returns, and every background refresh comes to its end: the  *)
(* lock that _fetch holds around a fetcher (lines 142-160) is given back.   *)
CallsReturn == \A a \in Agents : at[a] # Idle ~> at[a] = Idle

(* get_or_refresh() documents "Never blocks on background refresh" (line   *)
(* 184): no call of it waits for a lock that a background refresh holds.   *)
NeverBlocksOnBackground ==
    \A c \in Callers : ~(at[c] = "getOrRefresh" /\ lock \in Keys)
=============================================================================
