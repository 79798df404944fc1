------------------------------- MODULE EtwTracer -------------------------------
(***************************************************************************)
(* The DNS tracer: a thread that polls an event channel of Windows.  The   *)
(* first poll that finds an event takes its record number for the cursor;  *)
(* the later ones read the records above the cursor, move it and publish   *)
(* them.  The channel is circular and grows all the time.  Every record    *)
(* stands for an event of the DNS client that is published when read.      *)
(*                                                                         *)
(* The number of the newest record is read through a buffer of 512 bytes,  *)
(* which a rendered event seldom fits; then the cursor stays at 0.         *)
(***************************************************************************)
EXTENDS Naturals, FiniteSets

CONSTANTS MaxPollers,    \* bound on the loops that are started
          MaxRecords,    \* bound on the records that are ever written
          ChannelSize,   \* records the channel keeps
          MaxUnread      \* bound on the records that cannot be rendered

ASSUME EtwAssumption ==
    /\ MaxPollers \in Nat /\ MaxRecords \in Nat /\ MaxUnread \in Nat
    /\ ChannelSize \in Nat \ {0}

VARIABLES newest,        \* record number of the newest event
          tracing,       \* _running; _stop_event is its complement once started
          cursor,        \* _max_record_id
          initialized,   \* _initialized
          etwMain,       \* where the main thread is: "idle" or "joins"
          etwLoop, etwStopSet, etwStarted,     \* the DedicatedTask
          query,         \* each thread's query: none, or the last record it read
          toPublish,     \* the event it has parsed, or none
          \* History.
          published,     \* how often each record was published
          unread,        \* records that could not be rendered
          etwTooSlow,    \* a join timed out
          firstCursor    \* the cursor of the first poll

etwVars == <<newest, tracing, cursor, initialized, etwMain, etwLoop, etwStopSet,
             etwStarted, query, toPublish, published, unread, etwTooSlow, firstCursor>>
etwHistory == <<published, unread, etwTooSlow, firstCursor>>

Records == 1..MaxRecords
Pollers == 1..MaxPollers
NoQuery == MaxRecords + 1
NoRecord == 0

Poller == INSTANCE DedicatedTask WITH MaxLoops <- MaxPollers, loop <- etwLoop,
                                      stopSet <- etwStopSet, started <- etwStarted

EtwInit ==
    /\ newest = 0
    /\ tracing = FALSE
    /\ cursor = 0 /\ initialized = FALSE
    /\ etwMain = "idle"
    /\ Poller!LoopInit
    /\ query = [l \in Pollers |-> NoQuery]
    /\ toPublish = [l \in Pollers |-> NoRecord]
    /\ published = [r \in Records |-> 0]
    /\ unread = {}
    /\ etwTooSlow = FALSE
    /\ firstCursor = 0

InChannel == {r \in Records : r <= newest /\ r + ChannelSize > newest}

\* The DNS client writes a record, over the oldest if need be.
RecordWritten ==
    /\ newest < MaxRecords
    /\ newest' = newest + 1
    /\ UNCHANGED <<tracing, cursor, initialized, etwMain, etwLoop, etwStopSet, etwStarted,
                   query, toPublish, etwHistory>>

\* start(), when the channel can be opened.  Cursor and flag are those of the
\* session before.
StartTracing ==
    /\ etwMain = "idle" /\ ~tracing
    /\ tracing' = TRUE
    /\ Poller!LoopStarts
    /\ UNCHANGED <<newest, cursor, initialized, etwMain, query, toPublish, etwHistory>>

StopTracing ==
    /\ etwMain = "idle" /\ tracing
    /\ tracing' = FALSE
    /\ Poller!StopIsSet
    /\ etwMain' = "joins"
    /\ UNCHANGED <<newest, cursor, initialized, query, toPublish, etwHistory>>

JoinPoller ==
    /\ etwMain = "joins"
    /\ \/ Poller!Joined /\ UNCHANGED etwTooSlow
       \/ Poller!JoinTimesOut /\ etwTooSlow' = TRUE
    /\ etwMain' = "idle"
    /\ UNCHANGED <<newest, tracing, cursor, initialized, etwLoop, etwStopSet, etwStarted,
                   query, toPublish, published, unread, firstCursor>>

\* _find_max_record_id(), one query: nothing to do on an empty channel; else
\* the newest record is the cursor, if its rendering fits the buffer.
InitialPoll(l) ==
    /\ Poller!PollBegins(l)
    /\ tracing /\ ~initialized
    /\ IF InChannel = {} THEN UNCHANGED <<cursor, initialized, firstCursor>>
       ELSE /\ initialized' = TRUE
            /\ \E fits \in BOOLEAN : cursor' = IF fits THEN newest ELSE cursor
            /\ firstCursor' = cursor'
    /\ UNCHANGED <<newest, tracing, etwMain, query, toPublish, published, unread, etwTooSlow>>

\* _poll_new_events(): the records above the cursor.
OpenQuery(l) ==
    /\ Poller!PollBegins(l)
    /\ tracing /\ initialized
    /\ query' = [query EXCEPT ![l] = cursor]
    /\ UNCHANGED <<newest, tracing, cursor, initialized, etwMain, toPublish, etwHistory>>

\* _process_event(): the cursor moves before the event is published.
NextInChannel(l, r) ==
    /\ query[l] # NoQuery /\ toPublish[l] = NoRecord
    /\ r \in InChannel /\ r > query[l]
    /\ \A s \in InChannel : s > query[l] => r <= s

\* mistake: the cursor stays.
ReadRecordKeepsCursor(l, r) ==
    /\ NextInChannel(l, r)
    /\ query' = [query EXCEPT ![l] = r]
    /\ toPublish' = [toPublish EXCEPT ![l] = r]
    /\ UNCHANGED <<newest, tracing, cursor, initialized, etwMain, etwLoop, etwStopSet,
                   etwStarted, etwHistory>>

ReadRecord(l, r) ==
    /\ NextInChannel(l, r)
    /\ query' = [query EXCEPT ![l] = r]
    /\ cursor' = IF r > cursor THEN r ELSE cursor
    /\ toPublish' = [toPublish EXCEPT ![l] = r]
    /\ UNCHANGED <<newest, tracing, initialized, etwMain, etwLoop, etwStopSet, etwStarted,
                   etwHistory>>

\* The event cannot be rendered: neither cursor nor bus hear of it.
SkipRecord(l, r) ==
    /\ NextInChannel(l, r)
    /\ Cardinality(unread) < MaxUnread
    /\ query' = [query EXCEPT ![l] = r]
    /\ unread' = unread \cup {r}
    /\ UNCHANGED <<newest, tracing, cursor, initialized, etwMain, etwLoop, etwStopSet,
                   etwStarted, toPublish, published, etwTooSlow, firstCursor>>

PublishRecord(l) ==
    /\ toPublish[l] # NoRecord
    /\ published' = [published EXCEPT ![toPublish[l]] = @ + 1]
    /\ toPublish' = [toPublish EXCEPT ![l] = NoRecord]
    /\ UNCHANGED <<newest, tracing, cursor, initialized, etwMain, etwLoop, etwStopSet,
                   etwStarted, query, unread, etwTooSlow, firstCursor>>

\* There is no more, or EvtNext gives up before: the rest is for the next poll.
EtwPollReturns(l) ==
    /\ toPublish[l] = NoRecord
    /\ Poller!PollEnds(l)
    /\ query' = [query EXCEPT ![l] = NoQuery]
    /\ UNCHANGED <<newest, tracing, cursor, initialized, etwMain, toPublish, etwHistory>>

\* _poll_once() after stop(): nothing.
PollRefused(l) ==
    /\ Poller!PollBegins(l) /\ ~tracing
    /\ UNCHANGED <<newest, tracing, cursor, initialized, etwMain, query, toPublish, etwHistory>>

PollerEnds(l) ==
    /\ Poller!LoopEnds(l)
    /\ UNCHANGED <<newest, tracing, cursor, initialized, etwMain, query, toPublish, etwHistory>>

EtwNext ==
    \/ RecordWritten \/ StartTracing \/ StopTracing \/ JoinPoller
    \/ \E l \in Pollers :
        \/ InitialPoll(l) \/ OpenQuery(l) \/ PublishRecord(l) \/ EtwPollReturns(l)
        \/ PollRefused(l) \/ PollerEnds(l)
        \/ \E r \in Records : ReadRecord(l, r) \/ SkipRecord(l, r)
-------------------------------------------------------------------------------
(* Properties *)

\* However often the tracer is stopped and started, and wherever a poll gives
\* up, no DNS event is published twice, unless a thread was too slow for stop().
PublishedOnce ==
    ~etwTooSlow => \A r \in Records : published[r] <= 1

\* No event behind the cursor is missed: what the cursor passed since the first
\* poll was published or is about to be, but for the records that could not be
\* rendered and those the channel dropped before they were read.
NoneSkipped ==
    \A r \in (firstCursor + 1)..cursor :
        \/ published[r] > 0
        \/ r \in unread
        \/ \E l \in Pollers : toPublish[l] = r
        \/ r + ChannelSize <= newest

\* Both: every event the cursor passes is published once.
PublishedExactlyOnce == PublishedOnce /\ NoneSkipped
===============================================================================
