------------------------------ MODULE EventBus ------------------------------
(***************************************************************************)
(* EventBus (services/event_bus.py) and the event log that shows its       *)
(* batches (ui/event_log_widget.py).  Publishers are the tracers' threads; *)
(* publish() appends to the ring buffer and to the pending list under two  *)
(* different locks, one after the other.  Flushing, clearing, stopping and *)
(* showing happen on the main thread.                                      *)
(*                                                                         *)
(* An event is its number in the order of the calls of publish(); filters  *)
(* and the layout of the table are left out.                               *)
(***************************************************************************)
EXTENDS RingBuffer, FiniteSets

CONSTANTS Publishers,
          NumEvents,   \* how many events are explored
          MaxClears,   \* how many times the log is cleared
          MaxDisplay   \* MAX_DISPLAY

ASSUME EventsAssumption == NumEvents \in Nat /\ Items = 1..NumEvents
ASSUME MaxClearsAssumption == MaxClears \in Nat
ASSUME MaxDisplayAssumption == MaxDisplay \in Nat \ {0}

VARIABLES
    issued,     \* calls of publish() so far
    holding,    \* the event of each publisher between the two locks, or None
    publisher,  \* history: who published each event
    pending,    \* _pending
    running,    \* the flush timer is active
    clearing,   \* the main thread is between the two clears of clear()
    received,   \* EventLogWidget._pending_events
    scheduled,  \* _update_pending
    display,    \* _display_events
    clears,     \* calls of _clear() so far
    emitted,    \* history: all events emitted in batches, in order
    kept,       \* history: the emitted events that came after the last _clear()
    dropped     \* history: events that a clear() took from _pending

busVars == <<pending, running, clearing>>
widgetVars == <<received, scheduled, display>>
historyVars == <<publisher, emitted, kept, dropped>>
vars == <<ringVars, issued, holding, busVars, widgetVars, clears, historyVars>>

Events == Items

TypeOK ==
    /\ RingTypeOK
    /\ issued \in 0..NumEvents
    /\ holding \in [Publishers -> Events \cup {None}]
    /\ publisher \in [Events -> Publishers \cup {None}]
    /\ pending \in Seq(Events)
    /\ running \in BOOLEAN
    /\ clearing \in BOOLEAN
    /\ received \in Seq(Events)
    /\ scheduled \in BOOLEAN
    /\ display \in Seq(Events)
    /\ clears \in 0..MaxClears
    /\ emitted \in Seq(Events)
    /\ kept \in Seq(Events)
    /\ dropped \in SUBSET Events

Init ==
    /\ RingInit
    /\ issued = 0
    /\ holding = [p \in Publishers |-> None]
    /\ publisher = [e \in Events |-> None]
    /\ pending = <<>>
    /\ running = TRUE
    /\ clearing = FALSE
    /\ received = <<>>
    /\ scheduled = FALSE
    /\ display = <<>>
    /\ clears = 0
    /\ emitted = <<>>
    /\ kept = <<>>
    /\ dropped = {}

LastOf(s, n) == IF Len(s) > n THEN SubSeq(s, Len(s) - n + 1, Len(s)) ELSE s

-----------------------------------------------------------------------------
(* publish()                                                                *)

AppendToRing(p) ==
    /\ holding[p] = None
    /\ issued < NumEvents
    /\ issued' = issued + 1
    /\ holding' = [holding EXCEPT ![p] = issued + 1]
    /\ publisher' = [publisher EXCEPT ![issued + 1] = p]
    /\ RingAppend(issued + 1)
    /\ UNCHANGED <<busVars, widgetVars, clears, emitted, kept, dropped>>

\* mistake: the newest event is put first
AddPendingFirst(p) ==
    /\ holding[p] # None
    /\ pending' = <<holding[p]>> \o pending
    /\ holding' = [holding EXCEPT ![p] = None]
    /\ UNCHANGED <<ringVars, issued, running, clearing, widgetVars, clears,
                   historyVars>>

AddPending(p) ==
    /\ holding[p] # None
    /\ pending' = Append(pending, holding[p])
    /\ holding' = [holding EXCEPT ![p] = None]
    /\ UNCHANGED <<ringVars, issued, running, clearing, widgetVars, clears,
                   historyVars>>

-----------------------------------------------------------------------------
(* main thread                                                              *)

MainIdle == ~clearing

\* mistake: the update is scheduled only for the first batch ever
OnBatchOnce(batch) ==
    /\ received' = received \o batch
    /\ scheduled' = (scheduled \/ display = <<>>)
    /\ UNCHANGED display

(* _on_batch: the widget's slot, called by the emission of batch_ready.    *)
OnBatch(batch) ==
    /\ received' = received \o batch
    /\ scheduled' = TRUE
    /\ UNCHANGED display

EmitPending ==
    IF pending = <<>>
    THEN UNCHANGED <<pending, widgetVars, emitted, kept>>
    ELSE /\ OnBatch(pending)
         /\ pending' = <<>>
         /\ emitted' = emitted \o pending
         /\ kept' = kept \o pending

(* The flush timer fires.                                                  *)
Flush ==
    /\ MainIdle
    /\ running
    /\ pending # <<>>
    /\ EmitPending
    /\ UNCHANGED <<ringVars, issued, holding, running, clearing, clears,
                   publisher, dropped>>

Stop ==
    /\ MainIdle
    /\ running
    /\ running' = FALSE
    /\ EmitPending
    /\ UNCHANGED <<ringVars, issued, holding, clearing, clears, publisher, dropped>>

\* mistake: the oldest events are kept
KeepOldest(s) == IF Len(s) > MaxDisplay THEN SubSeq(s, 1, MaxDisplay) ELSE s

KeepNewest(s) == LastOf(s, MaxDisplay)

(* _batch_update, when the widget's single-shot timer fires.               *)
BatchUpdate ==
    /\ MainIdle
    /\ scheduled
    /\ scheduled' = FALSE
    /\ display' = IF received = <<>> THEN display ELSE KeepNewest(display \o received)
    /\ received' = <<>>
    /\ UNCHANGED <<ringVars, issued, holding, busVars, clears, historyVars>>

(* The widget's _clear(), up to the first half of EventBus.clear().        *)
ClearBegins ==
    /\ MainIdle
    /\ clears < MaxClears
    /\ clears' = clears + 1
    /\ clearing' = TRUE
    /\ display' = <<>>
    /\ received' = <<>>
    /\ kept' = <<>>
    /\ RingClear
    /\ UNCHANGED <<issued, holding, pending, running, scheduled, publisher,
                   emitted, dropped>>

ClearEnds ==
    /\ clearing
    /\ clearing' = FALSE
    /\ pending' = <<>>
    /\ dropped' = dropped \cup {pending[i] : i \in DOMAIN pending}
    /\ UNCHANGED <<ringVars, issued, holding, running, widgetVars, clears,
                   publisher, emitted, kept>>

-----------------------------------------------------------------------------
Next ==
    \/ \E p \in Publishers : AppendToRing(p) \/ AddPending(p)
    \/ Flush
    \/ Stop
    \/ BatchUpdate
    \/ ClearBegins
    \/ ClearEnds

(* A publisher completes its publish(); the main thread's timers fire.     *)
Fairness ==
    /\ \A p \in Publishers : WF_vars(AddPending(p))
    /\ WF_vars(Flush)
    /\ WF_vars(BatchUpdate)
    /\ WF_vars(ClearEnds)

Spec == Init /\ [][Next]_vars /\ Fairness

-----------------------------------------------------------------------------
(* Properties                                                               *)

(* get_slice(start, end) is a slice of get_all(), full or not.             *)
SliceAgrees ==
    \A start, end \in 0..Size :
        start < end /\ end <= count => GetSlice(start, end) = SubSeq(GetAll, start + 1, end)

(* The array written round and round (lines 21-41) is a log of the newest  *)
(* max_size events, through wraps and clears, and its slices are slices of *)
(* that log.                                                               *)
Log == INSTANCE BoundedLog WITH log <- GetAll

RingIsBoundedLog == Log!Spec /\ []SliceAgrees

(* Every event whose publish() is complete was emitted once, waits in      *)
(* _pending, or was taken by a clear(): whatever the order of publishers,  *)
(* flushes and clears, none is emitted twice and none disappears.          *)
Occurrences(e, s) == Cardinality({i \in DOMAIN s : s[i] = e})

DeliveredOnce ==
    \A e \in 1..issued :
        \/ \E p \in Publishers : holding[p] = e
        \/ Occurrences(e, emitted) + Occurrences(e, pending)
              + (IF e \in dropped THEN 1 ELSE 0) = 1

(* The events of one publisher are emitted in the order it published them: *)
(* a connect is never shown after the disconnect that followed it.         *)
PublisherOrder ==
    \A i, j \in DOMAIN emitted :
        i < j /\ publisher[emitted[i]] = publisher[emitted[j]] => emitted[i] < emitted[j]

(* Both: batches are a partition of the published events, each in its      *)
(* publisher's order.                                                      *)
DeliveredOnceInOrder == DeliveredOnce /\ PublisherOrder

(* An event the widget received is shown by an update that is scheduled,   *)
(* _update_pending is never left unset with events waiting; and the table  *)
(* holds the newest events that came since it was cleared.                 *)
LogShowsNewest ==
    /\ received # <<>> => scheduled
    /\ LastOf(display \o received, MaxDisplay) = LastOf(kept, MaxDisplay)

(* What was published reaches the table, unless it is cleared or the bus   *)
(* stops: no event is left in a list whose timer does not run.             *)
EventsReachTheLog ==
    \A e \in Events :
        issued >= e ~> \/ ~running
                       \/ e \in dropped
                       \/ Occurrences(e, emitted) > 0 /\ received = <<>>
=============================================================================
