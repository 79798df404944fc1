--------------------------- MODULE PacketInterceptor ---------------------------
(***************************************************************************)
(* The packet monitor: a periodic task reads the byte counters of all      *)
(* interfaces, which are words that wrap, and shows the difference to the  *)
(* last reading.  Polls may overlap, be stale or fail; interfaces come and *)
(* go; the user starts and stops it at any time.                           *)
(*                                                                         *)
(* One of the four counters stands for all.  A rate is kept as the number  *)
(* of bytes it is computed from.  Time is the order of the calls of        *)
(* time.time().                                                            *)
(***************************************************************************)
EXTENDS PeriodicTask, Integers, FiniteSets, FiniteSetsExt

CONSTANTS Nics,           \* interfaces
          Word,           \* 2^32: where a counter wraps
          MaxSent,        \* bound on the bytes that are sent in all
          MaxStarts,      \* bound on the calls of start_capture()
          MaxFlaps        \* bound on interfaces that come or go

ASSUME InterceptorAssumption ==
    /\ IsFiniteSet(Nics)
    /\ Word \in Nat \ {0} /\ MaxSent \in Nat /\ MaxStarts \in Nat /\ MaxFlaps \in Nat

VARIABLES sent,        \* bytes each interface really sent
          plugged,     \* interfaces GetIfTable lists
          capturing,   \* _running
          clock,       \* time.time()
          buffer,      \* _buf, which all polls share: what GetIfTable wrote last
          poll,        \* the locals of each poll
          last,        \* _last_up and what it stands for
          lastSample,  \* _last_sample
          shown,       \* _up_bps, as bytes; NotShown before the first
          starts, flaps

interceptorVars == <<timer, current, ticks, cancelled, sent, plugged, capturing,
                     clock, buffer, poll, last, lastSample, shown, starts, flaps>>

\* A reading: the sum of the counters, and (history) the true bytes and the
\* interfaces behind it, when it was made, and whether the call failed.
Counter(i) == sent[i] % Word
Reading == [sum |-> MapThenSumSet(Counter, plugged), truth |-> sent,
            nics |-> plugged, at |-> clock, ok |-> TRUE]
Zeros == [sum |-> 0, truth |-> [i \in Nics |-> 0], nics |-> {}, at |-> 0, ok |-> FALSE]

NotShown == [bytes |-> 0, from |-> Zeros, to |-> Zeros]

Idle == [at |-> "none", now |-> 0, got |-> Zeros, positive |-> FALSE]

InterceptorInit ==
    /\ PeriodicInit
    /\ sent = [i \in Nics |-> 0]
    /\ plugged = Nics
    /\ capturing = FALSE
    /\ clock = 1
    /\ buffer = Zeros
    /\ poll = [t \in Ticks |-> Idle]
    /\ last = Zeros
    /\ lastSample = 0
    /\ shown = NotShown
    /\ starts = 0 /\ flaps = 0

\* start_capture(): read_all() for the baseline, then the timer.
StartCapture ==
    /\ ~capturing /\ starts < MaxStarts
    /\ starts' = starts + 1
    /\ capturing' = TRUE
    /\ lastSample' = clock
    /\ clock' = clock + 1
    /\ \/ buffer' = Reading /\ last' = Reading
       \/ last' = Zeros /\ UNCHANGED buffer
    /\ Schedule
    /\ UNCHANGED <<sent, plugged, poll, shown, flaps>>

\* stop_capture().  A poll that has begun goes on.
StopCapture ==
    /\ capturing
    /\ capturing' = FALSE
    /\ StopPeriodic
    /\ UNCHANGED <<sent, plugged, clock, buffer, poll, last, lastSample, shown, starts, flaps>>

TimerTicks ==
    /\ Tick
    /\ UNCHANGED <<sent, plugged, capturing, clock, buffer, poll, last, lastSample,
                   shown, starts, flaps>>

\* A cancelled runnable, or a poll after the stop: _poll() returns at once.
PollDropped(t) ==
    /\ \/ Dropped(t)
       \/ ~capturing /\ ticks[t] = "queued" /\ t \notin cancelled
          /\ ticks' = [ticks EXCEPT ![t] = "over"] /\ UNCHANGED <<timer, current, cancelled>>
    /\ UNCHANGED <<sent, plugged, capturing, clock, buffer, poll, last, lastSample,
                   shown, starts, flaps>>

PollBegins(t) ==
    /\ capturing
    /\ Begun(t)
    /\ poll' = [poll EXCEPT ![t] = [@ EXCEPT !.at = "reads", !.now = clock]]
    /\ clock' = clock + 1
    /\ UNCHANGED <<sent, plugged, capturing, buffer, last, lastSample, shown, starts, flaps>>

\* GetIfTable writes the shared buffer.
PollReads(t) ==
    /\ poll[t].at = "reads"
    /\ poll' = [poll EXCEPT ![t].at = "sums"]
    /\ buffer' = Reading
    /\ UNCHANGED <<periodicVars, sent, plugged, capturing, clock, last, lastSample,
                   shown, starts, flaps>>

\* GetIfTable fails: read_all() returns zeros.
PollFails(t) ==
    /\ poll[t].at = "reads"
    /\ poll' = [poll EXCEPT ![t] = [@ EXCEPT !.at = "applies", !.got = Zeros,
                                             !.positive = poll[t].now > lastSample]]
    /\ UNCHANGED <<periodicVars, sent, plugged, capturing, clock, buffer, last, lastSample,
                   shown, starts, flaps>>

\* The rows are summed from the buffer as it is by then, and dt is computed.
PollSums(t) ==
    /\ poll[t].at = "sums"
    /\ poll' = [poll EXCEPT ![t] = [@ EXCEPT !.at = "applies", !.got = buffer,
                                             !.positive = poll[t].now > lastSample]]
    /\ UNCHANGED <<periodicVars, sent, plugged, capturing, clock, buffer, last, lastSample,
                   shown, starts, flaps>>

\* mistake: a counter that wrapped counts as reset.
DifferenceUnwrapped(new, old) == IF new < old THEN 0 ELSE new - old

\* Python's % of a negative number is positive, as TLA+'s is.
Difference(new, old) == (new - old + Word) % Word

\* Under _stats_lock, and _last_sample right after it.
PollApplies(t) ==
    /\ poll[t].at = "applies"
    /\ shown' = IF poll[t].positive
                THEN [bytes |-> Difference(poll[t].got.sum, last.sum),
                      from |-> last, to |-> poll[t].got]
                ELSE shown
    /\ last' = poll[t].got
    /\ lastSample' = poll[t].now
    /\ poll' = [poll EXCEPT ![t] = Idle]
    /\ Ended(t)
    /\ UNCHANGED <<sent, plugged, capturing, clock, buffer, starts, flaps>>

Sends(i) ==
    /\ i \in plugged /\ MapThenSumSet(LAMBDA j : sent[j], Nics) < MaxSent
    /\ sent' = [sent EXCEPT ![i] = @ + 1]
    /\ UNCHANGED <<periodicVars, plugged, capturing, clock, buffer, poll, last,
                   lastSample, shown, starts, flaps>>

\* An interface leaves the table, or comes back with its counters as they were.
Flaps(i) ==
    /\ flaps < MaxFlaps
    /\ flaps' = flaps + 1
    /\ plugged' = IF i \in plugged THEN plugged \ {i} ELSE plugged \cup {i}
    /\ UNCHANGED <<periodicVars, sent, capturing, clock, buffer, poll, last,
                   lastSample, shown, starts>>

PollStep(t) ==
    \/ PollDropped(t) \/ PollBegins(t) \/ PollReads(t) \/ PollFails(t)
    \/ PollSums(t) \/ PollApplies(t)

InterceptorNext ==
    \/ StartCapture \/ StopCapture \/ TimerTicks
    \/ \E t \in Ticks : PollStep(t)
    \/ \E i \in Nics : Sends(i) \/ Flaps(i)
-------------------------------------------------------------------------------
(* Properties *)

Bytes(reading) == MapThenSumSet(LAMBDA i : reading.truth[i], reading.nics)

\* The rate on the card is made of the bytes really sent between the two
\* readings it compares, however many counters wrapped, whatever polls overlap
\* and however often the monitor is stopped and started in between: unless one
\* of the two readings failed (zeros), an interface came or went, less than one
\* word's worth cannot be told from more, or a poll that began earlier was
\* applied later, so that the new reading is older than the last.
RateIsTrue ==
    LET true == Bytes(shown.to) - Bytes(shown.from)
    IN  shown.from.ok /\ shown.to.ok /\ shown.from.nics = shown.to.nics
        /\ shown.from.at <= shown.to.at /\ true \in 0..(Word - 1)
        => shown.bytes = true
===============================================================================
