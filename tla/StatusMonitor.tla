----------------------------- MODULE StatusMonitor -----------------------------
(***************************************************************************)
(* The rates and the latency on the screen.  NetworkStatsEngine ticks once *)
(* a second on the main thread: it samples the byte counter of the default *)
(* route's interface, and at every fifth tick submits a ping to the pool   *)
(* and looks the interface up again.  The topology's trackers sample the   *)
(* counters of their own interfaces, one each, and drop what cannot be     *)
(* true.  A ping takes up to 24 seconds: its result is a queued signal,    *)
(* and the next ping cancels it, which stops only one that has not begun.  *)
(*                                                                         *)
(* One direction stands for both.  The read-out of the name servers has    *)
(* the shape of a ping.  The smoothing of rates is left out: a sample is   *)
(* what enters it.                                                         *)
(***************************************************************************)
EXTENDS Naturals, Sequences, FiniteSetsExt

CONSTANTS Paths,         \* interfaces
          NoPath,        \* _iface_index = -1
          MaxOctets,     \* bound on the bytes that are carried in all
          Burst,         \* bytes that come at once
          MaxSane,       \* MAX_SANE_BYTES_PER_SEC
          LastSecond,    \* bound on the time that passes, and on what the clock is set to
          MaxMishaps,    \* bound on settings of the clock and counters that start again at 0
          PingTicks,     \* PING_INTERVAL_TICKS
          MaxPings       \* bound on the pings that are submitted

ASSUME StatusAssumption ==
    /\ NoPath \notin Paths
    /\ MaxOctets \in Nat /\ Burst \in Nat /\ MaxSane \in Nat /\ LastSecond \in Nat
    /\ MaxMishaps \in Nat /\ MaxPings \in Nat /\ PingTicks \in Nat \ {0}

VARIABLES counter,       \* what GetIfEntry2 returns for each interface
          carried,       \* history: bytes each has really carried
          second,        \* time.time()
          uptime,        \* history: the time that has really passed
          clockSets,     \* history: how often the clock was set
          route,         \* the interface of the IPv4 default route, or none
          engine,        \* "new", "on", "off"
          tickCount,     \* _tick_count modulo PING_INTERVAL_TICKS
          panelIface,    \* _iface_index of the panel's BandwidthTracker
          panelPrev,     \* its _prev_out and _prev_time
          panelRate,     \* the last rate that was emitted
          mapPrev,       \* _prev_out, _prev_time of each InterfaceBandwidthTracker
          mapRate,       \* the last sample that entered its average
          ping,          \* where each ping is: "new", "queued", "running", "over"
          pingCancelled, \* pings whose cancel() was called
          results,       \* latency_ready signals that wait
          latency,       \* the ping whose result the panel shows, or none
          \* History.
          begunWhen,     \* ping -> the newest ping submitted when it began
          newestShown,   \* the newest ping the panel has shown
          restarts       \* how often a counter started again

statusVars == <<counter, carried, second, uptime, clockSets, route, engine, tickCount,
                panelIface, panelPrev, panelRate, mapPrev, mapRate, ping, pingCancelled,
                results, latency, begunWhen, newestShown, restarts>>
clockVars == <<second, uptime, clockSets>>
worldVars == <<counter, carried, clockVars, route, restarts>>
panelVarsOfRate == <<panelIface, panelPrev, panelRate>>
mapVars == <<mapPrev, mapRate>>
pingVars == <<ping, pingCancelled, results, latency, begunWhen, newestShown>>

Pings == 1..MaxPings
NoPing == 0

\* A counter value and the clock, with (history) its interface and the true bytes
\* and time behind them.
Mark(i) == [value |-> counter[i], at |-> second, of |-> i,
            truth |-> carried[i], up |-> uptime, sets |-> clockSets]
Never(i) == [value |-> 0, at |-> 0, of |-> i, truth |-> 0, up |-> 0, sets |-> 0]
NoRate(i) == [bytes |-> 0, seconds |-> 0, from |-> Never(i), to |-> Never(i)]

StatusInit ==
    /\ counter = [i \in Paths |-> 0]
    /\ carried = [i \in Paths |-> 0]
    /\ second = 2 /\ uptime = 1 /\ clockSets = 0
    /\ route \in Paths \cup {NoPath}
    /\ engine = "new" /\ tickCount = 0
    /\ panelIface = NoPath
    /\ panelPrev = Never(NoPath) /\ panelRate = NoRate(NoPath)
    /\ mapPrev = [i \in Paths |-> Never(i)]
    /\ mapRate = [i \in Paths |-> NoRate(i)]
    /\ ping = [p \in Pings |-> "new"]
    /\ pingCancelled = {}
    /\ results = <<>> /\ latency = NoPing
    /\ begunWhen = [p \in Pings |-> NoPing] /\ newestShown = NoPing
    /\ restarts = 0
-------------------------------------------------------------------------------
(* The two trackers *)

\* mistake: without its sign, as unsigned counters are often compared.
RisenOrFallen(curr, prev) == IF curr >= prev THEN curr - prev ELSE prev - curr

\* A counter that fell has started again: 2^64 bytes do not pass, and what
\* _delta64() makes of the wrap is then above its limit.
Risen(curr, prev) == IF curr >= prev THEN curr - prev ELSE 0

Sample(from, to) == [bytes |-> Risen(to.value, from.value), seconds |-> to.at - from.at,
                     from |-> from, to |-> to]

\* mistake: the time is stored before it is known whether the entry can be read.
EntryUnreadableStoresTime ==
    /\ panelPrev' = IF panelPrev.at = 0 THEN panelPrev ELSE [panelPrev EXCEPT !.at = second]
    /\ UNCHANGED panelRate

\* get_if_entry2() fails, or there is no interface to ask for.
EntryUnreadable == UNCHANGED <<panelPrev, panelRate>>

\* BandwidthTracker.tick(), and bandwidth_ready if the rate is not zero.
SamplePanel ==
    \/ EntryUnreadable
    \/ /\ panelIface # NoPath
       /\ IF panelPrev.at = 0 \/ second > panelPrev.at
          THEN panelPrev' = Mark(panelIface)
          ELSE UNCHANGED panelPrev
       /\ panelRate' = IF /\ panelPrev.at # 0 /\ second > panelPrev.at
                          /\ Risen(counter[panelIface], panelPrev.value) > 0
                       THEN Sample(panelPrev, Mark(panelIface)) ELSE panelRate

\* InterfaceBandwidthTracker.tick(): a sample above the limit is dropped, and
\* its bytes are left for the next one.
Sane(i) == Risen(counter[i], mapPrev[i].value) <= MaxSane * (second - mapPrev[i].at)

SampleMap(i) ==
    /\ \/ /\ mapPrev[i].at = 0
          /\ UNCHANGED mapRate
       \/ /\ mapPrev[i].at # 0 /\ second > mapPrev[i].at /\ Sane(i)
          /\ mapRate' = [mapRate EXCEPT ![i] = Sample(mapPrev[i], Mark(i))]
    /\ mapPrev' = [mapPrev EXCEPT ![i] = Mark(i)]
    /\ UNCHANGED <<worldVars, engine, tickCount, panelVarsOfRate, pingVars>>

\* _init_bw_trackers(), when a graph is drawn anew.
NewTrackers ==
    /\ mapPrev' = [i \in Paths |-> Never(i)]
    /\ mapRate' = [i \in Paths |-> NoRate(i)]
    /\ UNCHANGED <<worldVars, engine, tickCount, panelVarsOfRate, pingVars>>
-------------------------------------------------------------------------------
(* NetworkStatsEngine *)

\* find_default_iface(): without a default route the last interface stays.
LooksUp == panelIface' = IF route = NoPath THEN panelIface ELSE route

InPool == {p \in Pings : ping[p] # "new"}
Newest == IF InPool = {} THEN NoPing ELSE CHOOSE p \in InPool : \A q \in InPool : q <= p

\* mistake: the ping before is not cancelled.
SubmitPingToo ==
    /\ Newest < MaxPings
    /\ ping' = [ping EXCEPT ![Newest + 1] = "queued"]
    /\ UNCHANGED <<pingCancelled, results, latency, begunWhen, newestShown>>

\* submit() with the id "stats-ping": the task of that id is cancelled, over or not.
SubmitPing ==
    /\ Newest < MaxPings
    /\ ping' = [ping EXCEPT ![Newest + 1] = "queued"]
    /\ pingCancelled' = pingCancelled \cup ({Newest} \ {NoPing})
    /\ UNCHANGED <<results, latency, begunWhen, newestShown>>

StartEngine ==
    /\ engine = "new"
    /\ engine' = "on"
    /\ LooksUp
    /\ SubmitPing
    /\ UNCHANGED <<worldVars, tickCount, panelPrev, panelRate, mapVars>>

StopEngine ==
    /\ engine = "on"
    /\ engine' = "off"
    /\ UNCHANGED <<worldVars, tickCount, panelVarsOfRate, mapVars, pingVars>>

\* _tick()
EngineTicks ==
    /\ engine = "on"
    /\ tickCount' = (tickCount + 1) % PingTicks
    /\ SamplePanel
    /\ IF tickCount' = 0 THEN SubmitPing /\ LooksUp
                         ELSE UNCHANGED <<panelIface, pingVars>>
    /\ UNCHANGED <<worldVars, engine, mapVars>>

\* run() of the ping's task.
PingDropped(p) ==
    /\ ping[p] = "queued" /\ p \in pingCancelled
    /\ ping' = [ping EXCEPT ![p] = "over"]
    /\ UNCHANGED <<worldVars, engine, tickCount, panelVarsOfRate, mapVars, pingCancelled,
                   results, latency, begunWhen, newestShown>>

PingBegins(p) ==
    /\ ping[p] = "queued" /\ p \notin pingCancelled
    /\ ping' = [ping EXCEPT ![p] = "running"]
    /\ begunWhen' = [begunWhen EXCEPT ![p] = Newest]
    /\ UNCHANGED <<worldVars, engine, tickCount, panelVarsOfRate, mapVars, pingCancelled,
                   results, latency, newestShown>>

\* The function sends its result itself, cancelled or not.
PingEnds(p) ==
    /\ ping[p] = "running"
    /\ ping' = [ping EXCEPT ![p] = "over"]
    /\ results' = Append(results, p)
    /\ UNCHANGED <<worldVars, engine, tickCount, panelVarsOfRate, mapVars, pingCancelled,
                   latency, begunWhen, newestShown>>

\* StatusPanel.update_latency()
ShowLatency ==
    /\ results # <<>>
    /\ results' = Tail(results)
    /\ latency' = Head(results)
    /\ newestShown' = IF Head(results) > newestShown THEN Head(results) ELSE newestShown
    /\ UNCHANGED <<worldVars, engine, tickCount, panelVarsOfRate, mapVars, ping,
                   pingCancelled, begunWhen>>
-------------------------------------------------------------------------------
(* The system *)

Carries(i, n) ==
    /\ MapThenSumSet(LAMBDA j : carried[j], Paths) + n <= MaxOctets
    /\ counter' = [counter EXCEPT ![i] = @ + n]
    /\ carried' = [carried EXCEPT ![i] = @ + n]
    /\ UNCHANGED <<clockVars, route, restarts, engine, tickCount, panelVarsOfRate, mapVars, pingVars>>

CounterRestarts(i) ==
    /\ restarts + clockSets < MaxMishaps
    /\ restarts' = restarts + 1
    /\ counter' = [counter EXCEPT ![i] = 0]
    /\ UNCHANGED <<carried, clockVars, route, engine, tickCount, panelVarsOfRate, mapVars, pingVars>>

SecondPasses ==
    /\ uptime < LastSecond
    /\ uptime' = uptime + 1
    /\ second' = second + 1
    /\ UNCHANGED <<counter, carried, clockSets, route, restarts, engine, tickCount,
                   panelVarsOfRate, mapVars, pingVars>>

\* The user or the time service sets the clock, forward or back.
ClockIsSet ==
    /\ restarts + clockSets < MaxMishaps
    /\ clockSets' = clockSets + 1
    /\ second' \in 1..LastSecond \ {second}
    /\ UNCHANGED <<counter, carried, uptime, route, restarts, engine, tickCount,
                   panelVarsOfRate, mapVars, pingVars>>

RouteMoves ==
    /\ route' \in (Paths \cup {NoPath}) \ {route}
    /\ UNCHANGED <<counter, carried, clockVars, restarts, engine, tickCount,
                   panelVarsOfRate, mapVars, pingVars>>

World ==
    \/ SecondPasses \/ ClockIsSet \/ RouteMoves
    \/ \E i \in Paths : \/ CounterRestarts(i)
                        \/ \E n \in {1, Burst} : Carries(i, n)

Engine == StartEngine \/ StopEngine \/ EngineTicks

PingStep(p) == PingDropped(p) \/ PingBegins(p) \/ PingEnds(p)

\* The map's samples have nothing to do with the engine's, and pings nothing
\* with counters.
MapNext == World \/ NewTrackers \/ \E i \in Paths : SampleMap(i)
RatesNext == World \/ Engine
PingsNext == Engine \/ ShowLatency \/ \E p \in Pings : PingStep(p)
-------------------------------------------------------------------------------
(* Properties *)

\* A rate is the true traffic of one interface between its two samples, whatever
\* failed or was dropped in between, over the time that has really passed between
\* them.  Three cases are let off.  The panel's tracker keeps the counter of the
\* interface before when the default route moves, and then shows the difference of
\* two interfaces' counters, once.  A counter that started again counts for too
\* little, never for too much.  And if the clock was set between the samples, the
\* bytes are right and the time is what the clock says, often far too little: then
\* it is only known not to be zero.
Honest(rate) ==
    /\ rate.bytes # 0 => rate.seconds > 0
    /\ rate.from.sets = rate.to.sets => rate.seconds = rate.to.up - rate.from.up
    /\ rate.from.of = rate.to.of =>
           /\ rate.bytes <= rate.to.truth - rate.from.truth
           /\ restarts = 0 => rate.bytes = rate.to.truth - rate.from.truth

RatesAreTrue == Honest(panelRate) /\ \A i \in Paths : Honest(mapRate[i])

\* The panel goes back from a ping's result to an older one's only if the older
\* ping was running when the newer one was submitted: one that was still queued
\* is never heard of again.
PingsInOrder == latency < newestShown => begunWhen[latency] < newestShown
===============================================================================
