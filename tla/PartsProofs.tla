------------------------------ MODULE PartsProofs ------------------------------
(***************************************************************************)
(* What is proved of the parts of the program that stand side by side:     *)
(* each by an inductive invariant of its own, which the steps of the other *)
(* parts leave alone.                                                      *)
(***************************************************************************)
EXTENDS MCParts, FiniteSetTheorems, SequenceTheorems, WellFoundedInduction, TLAPS

\* A step is one of the part, or leaves it alone.
LEMMA PartSteps ==
    ASSUME [Next]_partsVars
    PROVE  /\ NotifyNext \/ UNCHANGED notifyOnly
           /\ TcpNext \/ UNCHANGED tcpOnly
           /\ RoutesNext \/ UNCHANGED routesOnly
           /\ LinksNext \/ UNCHANGED linksOnly
           /\ DropsNext \/ UNCHANGED dropsOnly
           /\ TunNext \/ UNCHANGED tunVars
           /\ WfpNext \/ UNCHANGED wfpVars
           /\ EtwNext \/ UNCHANGED etwVars
           /\ DiagNext \/ UNCHANGED diagVars
           /\ RouteModelNext \/ UNCHANGED routeModelVars
           /\ InterceptorNext \/ UNCHANGED interceptorVars
           /\ TopologyNext \/ UNCHANGED topologyVars
           /\ RouteFormNext \/ UNCHANGED tabVars
           /\ MapNext \/ RatesNext \/ PingsNext \/ UNCHANGED statusVars
<1>1. CASE UNCHANGED partsVars
  BY <1>1 DEF partsVars
<1>2. CASE Next
  BY <1>2 DEF Next, OthersRest, Rests, StatusParts, TunParts, TunNext
<1> QED
  BY <1>1, <1>2

-------------------------------------------------------------------------------
(* Notifications of the event tracer. *)

\* A registration without a handle is known as such.
NotifyInv ==
    /\ NotificationsHold
    /\ handles \subseteq registered
    /\ registered \ handles \subseteq unowned

LEMMA NotifyInvStep == NotifyInv /\ [Next]_partsVars => NotifyInv'
<1> SUFFICES ASSUME NotifyInv, [Next]_partsVars
             PROVE  NotifyInv'
  OBVIOUS
<1> USE DEF NotifyInv, NotificationsHold
<1>1. CASE UNCHANGED notifyOnly
  BY <1>1 DEF notifyOnly, listenerVars, signalVars
<1>2. CASE StartListeners \/ DropCallbacks
  BY <1>2 DEF StartListeners, DropCallbacks, LetGo, signalVars
<1>3. ASSUME NEW k \in Kinds, CancelListener(k)
      PROVE  NotifyInv'
  BY <1>3 DEF CancelListener, signalVars
<1>4. CASE \/ DebounceFires \/ EmitSignals \/ EmissionClears
           \/ \E k \in Kinds : Callback(k) \/ CallsLetGo(k)
  BY <1>4 DEF DebounceFires, EmitSignals, EmissionClears, Callback, CallsLetGo, Flag,
              listenerVars
<1> QED
  BY <1>1, <1>2, <1>3, <1>4, PartSteps DEF NotifyNext

\* However notifications, the debounce timer, the signals, start and stop interleave,
\* and whichever registrations hand over their handle: a callback that Python has let go
\* is only called if its handle was never received, and a change that network_changed
\* has not followed yet has the timer running for it.
THEOREM NotificationsHoldAlways == Spec => []NotificationsHold
<1>1. Init => NotifyInv
  BY DEF Init, NotifyInit, NotifyInv, NotificationsHold
<1>2. NotifyInv => NotificationsHold
  BY DEF NotifyInv
<1> QED
  BY <1>1, <1>2, NotifyInvStep, PTL DEF Spec

-------------------------------------------------------------------------------
(* What the published events tell of connections. *)

LEMMA LesserOfTwo ==
    ASSUME NEW a \in Int, NEW b \in Int
    PROVE  Min({a, b}) = IF a <= b THEN a ELSE b
<1> DEFINE m == IF a <= b THEN a ELSE b
<1>1. \A x \in {a, b} : (\A y \in {a, b} : x <= y) => x = m
  OBVIOUS
<1>2. m \in {a, b} /\ \A y \in {a, b} : m <= y
  OBVIOUS
<1> QED
  BY <1>1, <1>2 DEF Min

\* Without a failed snapshot, an open connection that was published is one that the
\* next poll will not take for new.
TcpInv ==
    /\ reports \in [Conns -> Nat] /\ established \subseteq Conns
    /\ ~tcpReady => prevTcp = {}
    /\ ~tcpFailed => \A c \in Conns : /\ reports[c] <= 1
                                      /\ reports[c] > 0 /\ c \in established => c \in prevTcp
    /\ ConnectsReportedOnce

LEMMA TcpInvStep == TcpInv /\ [Next]_partsVars => TcpInv'
<1> SUFFICES ASSUME TcpInv, [Next]_partsVars
             PROVE  TcpInv'
  OBVIOUS
<1> USE DEF TcpInv, ConnectsReportedOnce
<1>1. CASE UNCHANGED tcpOnly
  BY <1>1 DEF tcpOnly
<1>2. CASE TcpToggle
  BY <1>2 DEF TcpToggle
<1>3. ASSUME NEW c \in Conns, Opens(c) \/ Closes(c)
      PROVE  TcpInv'
  <2>1. CASE Opens(c)
    <3>1. /\ c \notin established /\ established' = established \cup {c}
          /\ reports' = [reports EXCEPT ![c] = 0]
          /\ unreported' = IF c \in prevTcp THEN unreported \cup {c} ELSE unreported \ {c}
          /\ UNCHANGED <<prevTcp, tcpReady, tcpFailed>>
      BY <2>1 DEF Opens
    <3>2. \A d \in Conns : reports'[d] = IF d = c THEN 0 ELSE reports[d]
      BY <3>1
    <3>3. reports' \in [Conns -> Nat]
      BY <3>1
    <3>4. ~tcpFailed' => \A d \in Conns : /\ reports'[d] <= 1
                                          /\ reports'[d] > 0 /\ d \in established' => d \in prevTcp'
      BY <3>1, <3>2
    <3>5. \A d \in (prevTcp \cap established)' : reports'[d] >= 1 \/ d \in unreported'
      BY <3>1, <3>2
    <3> QED
      BY <3>1, <3>3, <3>4, <3>5
  <2>2. CASE Closes(c)
    BY <2>2 DEF Closes
  <2> QED
    BY <1>3, <2>1, <2>2
<1>4. ASSUME NEW snap, PollTcp(snap),
             \/ snap = established /\ UNCHANGED tcpFailed
             \/ snap = {} /\ tcpFailed'
      PROVE  TcpInv'
  <2>1. PICK S : /\ S \in Published(IF tcpReady THEN snap \ prevTcp ELSE {})
                 /\ reports' = [c \in Conns |-> IF c \in S THEN Min({reports[c] + 1, 2})
                                                ELSE reports[c]]
                 /\ unreported' = (unreported \cup (snap \ prevTcp)) \ S
    BY <1>4 DEF PollTcp
  <2>2. /\ S \subseteq snap \ prevTcp
        /\ tcpReady' = TRUE /\ prevTcp' = snap /\ established' = established
    BY <1>4, <2>1 DEF PollTcp, Published
  <2>3. \A c \in Conns : /\ c \in S => reports'[c] \in 1..(reports[c] + 1)
                         /\ c \notin S => reports'[c] = reports[c]
    BY <2>1, LesserOfTwo
  <2>4. reports' \in [Conns -> Nat]
    BY <2>1, <2>3
  <2>5. ~tcpFailed' => \A c \in Conns : /\ reports'[c] <= 1
                                        /\ reports'[c] > 0 /\ c \in established' => c \in prevTcp'
    BY <1>4, <2>2, <2>3
  <2>6. \A c \in (prevTcp \cap established)' : reports'[c] >= 1 \/ c \in unreported'
    <3> SUFFICES ASSUME NEW c \in snap \cap established, c \notin unreported'
                 PROVE  reports'[c] >= 1
      BY <2>2
    <3>1. CASE c \in S
      BY <2>3, <3>1
    <3>2. CASE c \notin S
      BY <2>1, <2>3, <3>2
    <3> QED
      BY <3>1, <3>2
  <2> QED
    BY <2>2, <2>4, <2>5, <2>6
<1> QED
  BY <1>1, <1>2, <1>3, <1>4, PartSteps DEF TcpNext, PollTcpSucceeds, PollTcpFails

-------------------------------------------------------------------------------
(* What they tell of routes and interfaces. *)

\* The value of a key depends on the routes of that key only.
LEMMA ByKeyOfSame ==
    ASSUME NEW A, NEW B, NEW k, \A r : r[1] = k => (r \in A <=> r \in B)
    PROVE  /\ k \in DOMAIN ByKey(A) <=> k \in DOMAIN ByKey(B)
           /\ k \in DOMAIN ByKey(A) => ByKey(A)[k] = ByKey(B)[k]
<1>1. {r[2] : r \in {q \in A : q[1] = k}} = {r[2] : r \in {q \in B : q[1] = k}}
  OBVIOUS
<1>2. k \in {r[1] : r \in A} <=> k \in {r[1] : r \in B}
  OBVIOUS
<1> QED
  BY <1>1, <1>2 DEF ByKey

LEMMA RouteLogStep == RouteLogIsTrue /\ [Next]_partsVars => RouteLogIsTrue'
<1> SUFFICES ASSUME RouteLogIsTrue, [Next]_partsVars
             PROVE  RouteLogIsTrue'
  OBVIOUS
<1>1. CASE UNCHANGED <<prevRoutes, routesReady, logged, unlogged>>
  BY <1>1 DEF RouteLogIsTrue
<1>2. CASE FirstRoutes
  <2>1. PICK S \in SUBSET routeSet : /\ logged' = ByKey(S)
                                     /\ unlogged' = {r[1] : r \in routeSet \ S}
                                     /\ prevRoutes' = routeSet
    BY <1>2 DEF FirstRoutes
  <2>2. ASSUME NEW k \in RouteKeys \ unlogged'
        PROVE  /\ k \in DOMAIN ByKey(routeSet) <=> k \in DOMAIN ByKey(S)
               /\ k \in DOMAIN ByKey(routeSet) => ByKey(routeSet)[k] = ByKey(S)[k]
    <3>1. \A r : r[1] = k => (r \in routeSet <=> r \in S)
      BY <2>1, <2>2
    <3> QED
      BY <3>1, ByKeyOfSame
  <2> QED
    BY <2>1, <2>2 DEF RouteLogIsTrue
<1>3. CASE PollRoutes
  <2> DEFINE prev == ByKey(prevRoutes)
             curr == ByKey(routeSet)
             told == NewKeys(prev, curr) \cup ChangedKeys(prev, curr)
             gone == GoneKeys(prev, curr)
  <2>1. /\ logged' = [k \in (DOMAIN logged \ gone) \cup told |->
                         IF k \in told THEN curr[k] ELSE logged[k]]
        /\ unlogged' = unlogged \ (told \cup gone)
        /\ routesReady /\ prevRoutes' = routeSet
    BY <1>3 DEF PollRoutes
  <2>2. ByKey(prevRoutes)' = curr
    BY <2>1 DEF ByKey
  <2> SUFFICES ASSUME NEW k \in RouteKeys \ unlogged'
               PROVE  /\ k \in DOMAIN curr <=> k \in DOMAIN logged'
                      /\ k \in DOMAIN curr => Visible[curr[k]] = Visible[logged'[k]]
    BY <2>2 DEF RouteLogIsTrue
  <2>3. k \notin told \cup gone => /\ k \in DOMAIN prev <=> k \in DOMAIN logged
                                   /\ k \in DOMAIN prev => Visible[prev[k]] = Visible[logged[k]]
    BY <2>1 DEF RouteLogIsTrue
  <2> QED
    BY <2>1, <2>3 DEF NewKeys, ChangedKeys, GoneKeys
<1> QED
  BY <1>1, <1>2, <1>3, PartSteps DEF RoutesNext, RoutesToggle, RouteChanges, routesOnly

LEMMA LinkLogStep == LinkLogIsTrue /\ [Next]_partsVars => LinkLogIsTrue'
<1> SUFFICES ASSUME LinkLogIsTrue, [Next]_partsVars
             PROVE  LinkLogIsTrue'
  OBVIOUS
<1> USE DEF LinkLogIsTrue
<1>1. CASE UNCHANGED <<prevLinks, linksReady, loggedUp>>
  BY <1>1
<1>2. CASE PollLinks
  BY <1>2 DEF PollLinks, UpLinks, DownLinks
<1> QED
  BY <1>1, <1>2, PartSteps DEF LinksNext, LinksToggle, LinkChanges, linksOnly

-------------------------------------------------------------------------------
(* What they tell of dropped packets. *)

\* The rise of a counter that wraps is no more than what was counted.
LEMMA RiseIsReal ==
    ASSUME NEW p \in Nat, NEW d \in Nat, NEW w \in Nat \ {0}, p <= d, d % w > p % w
    PROVE  (d % w) - (p % w) <= d - p
<1> DEFINE q == d \div w
           o == p \div w
<1>1. /\ q \in Nat /\ o \in Nat
      /\ d = (w * q) + (d % w) /\ p = (w * o) + (p % w)
      /\ d % w \in 0..(w - 1) /\ p % w \in 0..(w - 1)
  OBVIOUS
<1>2. o <= q
  <2> SUFFICES ASSUME o >= q + 1
               PROVE  FALSE
    BY <1>1
  <2>1. w * o >= w * (q + 1)
    BY <1>1
  <2>2. w * (q + 1) = w * q + w
    BY <1>1
  <2> QED
    BY <1>1, <2>1, <2>2
<1>3. w * o <= w * q
  BY <1>1, <1>2
<1> QED
  BY <1>1, <1>3

\* Of an interface in the last snapshot no more was published than it had counted then.
DropsInv ==
    /\ dropped \in [Links -> Nat] /\ reportedDrops \in [Links -> Nat]
    /\ DropsAreReal
    /\ DOMAIN prevDrops \subseteq Links
    /\ \A i \in DOMAIN prevDrops :
          \E p \in Nat : /\ prevDrops[i] = p % CounterWord
                         /\ reportedDrops[i] <= p /\ p <= dropped[i]

LEMMA DropsInvStep == DropsInv /\ [Next]_partsVars => DropsInv'
<1> SUFFICES ASSUME DropsInv, [Next]_partsVars
             PROVE  DropsInv'
  OBVIOUS
<1> USE DEF DropsInv, DropsAreReal
<1>1. CASE UNCHANGED <<dropped, prevDrops, dropsReady, reportedDrops>>
  BY <1>1
<1>2. ASSUME NEW i \in Links, Drops(i)
      PROVE  DropsInv'
  <2>1. /\ dropped' = [dropped EXCEPT ![i] = @ + 1]
        /\ UNCHANGED <<prevDrops, reportedDrops>>
    BY <1>2 DEF Drops
  <2>2. dropped' \in [Links -> Nat] /\ \A j \in Links : dropped[j] <= dropped'[j]
    BY <2>1
  <2>3. \A j \in Links : reportedDrops'[j] <= dropped'[j]
    BY <2>1, <2>2
  <2>4. ASSUME NEW j \in DOMAIN prevDrops
        PROVE  \E p \in Nat : /\ prevDrops[j] = p % CounterWord
                              /\ reportedDrops[j] <= p /\ p <= dropped'[j]
    <3>1. PICK p \in Nat : /\ prevDrops[j] = p % CounterWord
                           /\ reportedDrops[j] <= p /\ p <= dropped[j]
      OBVIOUS
    <3>2. p <= dropped'[j]
      BY <2>2, <3>1
    <3> QED
      BY <3>1, <3>2
  <2> QED
    BY <2>1, <2>2, <2>3, <2>4
<1>3. ASSUME NEW present \in SUBSET Links, PollDrops(present)
      PROVE  DropsInv'
  <2> DEFINE snap == Snapshot(present)
  <2>1. PICK S : /\ S \subseteq {i \in present \cap DOMAIN prevDrops : Rise(snap, i) > 0}
                 /\ reportedDrops' = [i \in Links |-> IF dropsReady /\ i \in S
                                      THEN reportedDrops[i] + Rise(snap, i)
                                      ELSE reportedDrops[i]]
                 /\ prevDrops' = snap /\ dropped' = dropped
    BY <1>3 DEF PollDrops
  <2>2. DOMAIN snap = present /\ \A i \in present : snap[i] = dropped[i] % CounterWord
    BY DEF Snapshot
  <2>3. ASSUME NEW i \in Links
        PROVE  reportedDrops'[i] \in Nat /\ reportedDrops'[i] <= dropped[i]
    <3>1. CASE dropsReady /\ i \in S
      <4>1. i \in present /\ i \in DOMAIN prevDrops /\ Rise(snap, i) > 0
        BY <2>1, <3>1
      <4>2. PICK p \in Nat : /\ prevDrops[i] = p % CounterWord
                             /\ reportedDrops[i] <= p /\ p <= dropped[i]
        BY <4>1
      <4> DEFINE c == dropped[i] % CounterWord
                 b == p % CounterWord
      <4>3. c \in Int /\ b \in Int /\ snap[i] = c /\ prevDrops[i] = b
        BY <2>2, <4>1, <4>2, TracerAssumption
      <4>4. c > b /\ Rise(snap, i) = c - b
        BY <4>1, <4>3 DEF Rise
      <4>5. c - b <= dropped[i] - p
        BY <4>2, <4>4, RiseIsReal, TracerAssumption
      <4>6. reportedDrops'[i] = reportedDrops[i] + (c - b)
        BY <2>1, <3>1, <4>4
      <4> HIDE DEF c, b
      <4> QED
        BY <4>2, <4>3, <4>4, <4>5, <4>6
    <3>2. CASE ~(dropsReady /\ i \in S)
      BY <2>1, <3>2
    <3> QED
      BY <3>1, <3>2
  <2>4. reportedDrops' \in [Links -> Nat]
    BY <2>1, <2>3
  <2>5. \A i \in DOMAIN prevDrops' : /\ prevDrops'[i] = dropped'[i] % CounterWord
                                     /\ reportedDrops'[i] <= dropped'[i] /\ dropped'[i] \in Nat
    BY <2>1, <2>2, <2>3
  <2> QED
    BY <2>1, <2>2, <2>3, <2>4, <2>5
<1> QED
  BY <1>1, <1>2, <1>3, PartSteps DEF DropsNext, DropsToggle, dropsOnly

\* A reader of the published events knows connections, routes, interfaces and drops as
\* the last poll saw them: for any number of them, of changes between two polls, of
\* failed snapshots, and of stops and starts.
THEOREM LogIsTrueAlways == Spec => []LogIsTrue
<1> DEFINE LogInv == TcpInv /\ RouteLogIsTrue /\ LinkLogIsTrue /\ DropsInv
<1>1. Init => LogInv
  <2> SUFFICES ASSUME Init
               PROVE  LogInv
    OBVIOUS
  <2>1. TcpInv
    BY DEF Init, TcpInit, TcpInv, ConnectsReportedOnce
  <2>2. RouteLogIsTrue /\ LinkLogIsTrue
    BY DEF Init, RoutesInit, LinksInit, RouteLogIsTrue, LinkLogIsTrue
  <2>3. DropsInv
    BY DEF Init, DropsInit, DropsInv, DropsAreReal
  <2> QED
    BY <2>1, <2>2, <2>3
<1>2. LogInv /\ [Next]_partsVars => LogInv'
  BY TcpInvStep, RouteLogStep, LinkLogStep, DropsInvStep
<1>3. LogInv => LogIsTrue
  BY DEF TcpInv, DropsInv, LogIsTrue
<1> QED
  BY <1>1, <1>2, <1>3, PTL DEF Spec
-------------------------------------------------------------------------------
(* Sequences of anything. *)

Listed(s) == s \in Seq(Range(s))

LEMMA EmptyListed == Listed(<<>>) /\ Range(<<>>) = {}
BY DEF Listed, Range

LEMMA AppendListed ==
    ASSUME NEW s, Listed(s), NEW x
    PROVE  Listed(Append(s, x)) /\ Range(Append(s, x)) = Range(s) \cup {x}
<1> DEFINE T == Range(s) \cup {x}
           t == Append(s, x)
<1>1. s \in Seq(T) /\ x \in T
  <2>1. s \in Seq(Range(s)) /\ Range(s) \subseteq T
    BY DEF Listed
  <2> HIDE DEF T
  <2>2. s \in Seq(T)
    BY <2>1
  <2> QED
    BY <2>2 DEF T
<1>2. /\ t \in Seq(T) /\ Len(s) \in Nat /\ DOMAIN s = 1..Len(s) /\ DOMAIN t = 1..(Len(s) + 1)
      /\ \A i \in 1..Len(s) : t[i] = s[i]
      /\ t[Len(s) + 1] = x
  BY ONLY <1>1, AppendProperties
<1> HIDE DEF t
<1>3. Range(t) = T
  <2>1. \A i \in DOMAIN t : t[i] \in T
    BY <1>2 DEF Range
  <2>2. ASSUME NEW y \in Range(s)
        PROVE  y \in Range(t)
    <3>1. PICK i \in DOMAIN s : y = s[i]
      BY DEF Range
    <3>2. i \in DOMAIN t /\ t[i] = y
      BY <1>2, <3>1
    <3> QED
      BY <3>2 DEF Range
  <2>3. x \in Range(t)
    BY <1>2 DEF Range
  <2> QED
    BY <2>1, <2>2, <2>3 DEF Range
<1> QED
  BY <1>2, <1>3 DEF Listed, t

LEMMA FrontListed ==
    ASSUME NEW s, Listed(s), s # <<>>
    PROVE  /\ Listed(Front(s)) /\ Range(Front(s)) \subseteq Range(s)
           /\ Last(s) \in Range(s)
           /\ Range(s) = Range(Front(s)) \cup {Last(s)}
<1> DEFINE n == Len(s)
           f == Front(s)
<1>1. /\ s \in Seq(Range(s)) /\ n \in Nat /\ n >= 1 /\ DOMAIN s = 1..n
      /\ 1 \in 1..n + 1 /\ n - 1 \in 0..n
  BY DEF Listed
<1>2. /\ f \in Seq(Range(s)) /\ Len(f) = n - 1 /\ DOMAIN f = 1..(n - 1)
      /\ \A i \in 1..(n - 1) : f[i] = s[i]
  <2>1. SubSeq(s, 1, n - 1) \in Seq(Range(s)) /\ Len(SubSeq(s, 1, n - 1)) = n - 1
    BY <1>1
  <2>2. \A i \in 1..(n - 1) : SubSeq(s, 1, n - 1)[i] = s[i]
    BY <1>1
  <2> QED
    BY <1>1, <2>1, <2>2 DEF Front
<1>3. Last(s) = s[n]
  BY DEF Last
<1> HIDE DEF n, f
<1>4. \A i \in DOMAIN s : i \in DOMAIN f \/ i = n
  BY <1>1, <1>2
<1>5. Range(f) \subseteq Range(s) /\ s[n] \in Range(s)
  BY <1>1, <1>2 DEF Range
<1>6. Range(s) \subseteq Range(f) \cup {s[n]}
  BY <1>1, <1>2, <1>4 DEF Range
<1>7. Listed(f)
  <2>1. \A i \in 1..Len(f) : f[i] \in Range(f)
    BY <1>2 DEF Range
  <2> QED
    BY <1>2, <2>1 DEF Listed
<1> QED
  BY <1>3, <1>5, <1>6, <1>7 DEF f
-------------------------------------------------------------------------------
(* The capture of routes by the TUN adapter: what it leaves behind. *)

\* As long as no deletion failed and nobody added a saved route again, the table is that
\* of the others, the saved routes that are still there and what netsh made; between a
\* stop and the next additions nothing is saved.
TraceInv ==
    /\ Listed(saved)
    /\ main \in {"session", "index"} \/ (main = "idle" /\ ~forwarding) => saved = <<>>
    /\ adapters \in Nat /\ (adapter = NoAdapter \/ adapter \in installed)
    /\ main \in {"session", "index"} => adapter # NoAdapter
    /\ byNetsh \subseteq {DefaultBy(k) : k \in installed}
    /\ ~undeleted /\ ~readded => /\ others \subseteq tunRoutes
                                 /\ tunRoutes \subseteq others \cup Range(saved) \cup byNetsh
                                 /\ others \cap Range(saved) = {}

LEMMA TraceStep == TraceInv /\ [Next]_partsVars => TraceInv'
<1> SUFFICES ASSUME TraceInv, [Next]_partsVars
             PROVE  TraceInv'
  OBVIOUS
<1> USE DEF TraceInv
<1>1. CASE UNCHANGED <<tableVars, main, forwarding, deviceVars>>
  BY <1>1 DEF tableVars, deviceVars
<1>2. CASE \/ OpenSession \/ OpenSessionFails \/ IndexNotFound \/ StartCaptureLoop
           \/ StopForwarding \/ JoinCapture \/ AddRouteFails
  BY <1>2 DEF OpenSession, OpenSessionFails, IndexNotFound, StartCaptureLoop,
              StopForwarding, JoinCapture, AddRouteFails, tableVars, deviceVars
<1>3. CASE SetAddress
  BY <1>3, EmptyListed DEF SetAddress, deviceVars
<1>4. CASE AddRoute
  BY <1>4, AppendListed DEF AddRoute, deviceVars
<1>5. CASE RemoveRoute
  <2>1. /\ saved # <<>> /\ saved' = Front(saved) /\ main' = main /\ main = "removes"
        /\ UNCHANGED <<others, byNetsh, readded, deviceVars>>
        /\ \/ tunRoutes' = tunRoutes \ {Last(saved)} /\ undeleted' = undeleted
           \/ /\ tunRoutes' = tunRoutes
              /\ undeleted' = (undeleted \/ Last(saved) \in tunRoutes)
    BY <1>5 DEF RemoveRoute
  <2>2. /\ Listed(saved')
        /\ Range(saved) = Range(saved') \cup {Last(saved)}
    BY <2>1, FrontListed
  <2>3. ~undeleted' /\ ~readded' => /\ others' \subseteq tunRoutes'
                                   /\ tunRoutes' \subseteq others' \cup Range(saved') \cup byNetsh'
                                   /\ others' \cap Range(saved') = {}
    <3> SUFFICES ASSUME ~undeleted', ~readded'
                 PROVE  /\ others' \subseteq tunRoutes'
                        /\ tunRoutes' \subseteq others' \cup Range(saved') \cup byNetsh'
                        /\ others' \cap Range(saved') = {}
      OBVIOUS
    <3>1. ~undeleted /\ ~readded /\ tunRoutes' = tunRoutes \ {Last(saved)}
      <4>1. CASE tunRoutes' = tunRoutes \ {Last(saved)} /\ undeleted' = undeleted
        BY <2>1, <4>1
      <4>2. CASE /\ tunRoutes' = tunRoutes
                 /\ undeleted' = (undeleted \/ Last(saved) \in tunRoutes)
        <5>1. ~(undeleted \/ Last(saved) \in tunRoutes)
          BY <4>2
        <5> QED
          BY <2>1, <4>2, <5>1
      <4> QED
        BY <2>1, <4>1, <4>2
    <3> HIDE DEF TraceInv
    <3>2. others \subseteq tunRoutes /\ tunRoutes \subseteq others \cup Range(saved) \cup byNetsh
          /\ others \cap Range(saved) = {}
      BY <3>1 DEF TraceInv
    <3> QED
      BY <2>1, <2>2, <3>1, <3>2
  <2> QED
    BY <2>1, <2>2, <2>3 DEF deviceVars
<1>6. CASE CloseDevice
  BY <1>6, EmptyListed DEF CloseDevice, DefaultBy
<1>7. ASSUME NEW r, OthersChange(r)
      PROVE  TraceInv'
  BY <1>7 DEF OthersChange, deviceVars
<1>8. ASSUME NEW l \in Loops, \/ PollChecks(l) \/ Receive(l) \/ Release(l) \/ PollReturns(l)
                              \/ CaptureLoopEnds(l)
      PROVE  TraceInv'
  BY <1>1, <1>8 DEF PollChecks, Receive, Release, PollReturns, CaptureLoopEnds
<1>9. CASE UNCHANGED tunVars
  BY <1>1, <1>9 DEF tunVars, tableVars, deviceVars
<1>10. CASE CreateAdapter
  <2>1. /\ main = "idle" /\ ~forwarding /\ main' = "session" /\ UNCHANGED tableVars
        /\ \/ adapter # NoAdapter /\ UNCHANGED <<adapter, installed>>
           \/ adapter' = adapters + 1 /\ installed' = installed \cup {adapters + 1}
        /\ adapters' \in {adapters, adapters + 1}
    BY <1>10 DEF CreateAdapter
  <2>2. adapter' # NoAdapter
    BY <2>1 DEF NoAdapter
  <2> QED
    BY <2>1, <2>2 DEF tableVars
<1> QED
  BY <1>10, <1>2, <1>3, <1>4, <1>5, <1>6, <1>7, <1>8, <1>9, PartSteps
  DEF TunNext, TunRoutesNext, TunThreadNext, StartsOrStops, CaptureThread

\* A capture that was stopped, or failed to start at any of its steps, leaves the route
\* table to the others, but for the default route that netsh made by way of an adapter
\* that stays, whatever the others did to the table meanwhile.
THEOREM LeavesNoTraceAlways == Spec => []LeavesNoTrace
<1>1. Init => TraceInv
  BY EmptyListed DEF Init, TunInit, TraceInv, NoAdapter
<1>2. TraceInv => LeavesNoTrace
  BY EmptyListed DEF TraceInv, LeavesNoTrace
<1> QED
  BY <1>1, <1>2, TraceStep, PTL DEF Spec

-------------------------------------------------------------------------------
(* The capture of routes by the TUN adapter: who reads from the session. *)

\* Unless a join timed out: a thread that has not ended is that of the capture that is
\* on or being stopped, only such a thread is in read_packet(), and there the session it
\* saw is still the session.
ReaderInv ==
    /\ loop \in [Loops -> {"new", "tests", "polls", "over"}] /\ started \in 0..MaxLoops
    /\ reader \in [Loops -> [at : {"idle", "checked", "received", "returns"}, packet : Nat]]
    /\ session \in Nat /\ sessions \in Nat
    /\ \A l \in Loops : l > started => loop[l] = "new"
    /\ forwarding => main = "idle"
    /\ \A l \in Loops : reader[l].at # "idle" => loop[l] = "polls"
    /\ ~tooSlow =>
        /\ ~misused
        /\ \A l \in Loops : loop[l] \in {"tests", "polls"} =>
                                l = started /\ (forwarding \/ main = "joins")
        /\ \A l \in Loops : /\ reader[l].at = "checked" => session # NoSession
                            /\ reader[l].at = "received" => session = reader[l].packet

\* Without a thread in the session, main may open and close it.
LEMMA NobodyReads ==
    ReaderInv /\ ~tooSlow /\ ~forwarding /\ main # "joins" =>
        \A l \in Loops : reader[l].at = "idle" /\ loop[l] \in {"new", "over"}
BY DEF ReaderInv

LEMMA MainStep ==
    ASSUME ReaderInv,
           \/ CreateAdapter \/ OpenSession \/ OpenSessionFails \/ IndexNotFound \/ SetAddress
           \/ AddRoute \/ AddRouteFails \/ RemoveRoute \/ CloseDevice
           \/ \E r : OthersChange(r)
    PROVE  ReaderInv'
<1>1. /\ UNCHANGED <<captureVars, forwarding>>
      /\ main' = main \/ ~forwarding
      /\ main' = main \/ main # "joins"
      /\ \/ UNCHANGED <<session, sessions>>
         \/ /\ ~forwarding /\ main # "joins"
            /\ session' \in {session, sessions + 1, NoSession}
            /\ sessions' \in {sessions, sessions + 1}
  BY DEF CreateAdapter, OpenSession, OpenSessionFails, IndexNotFound, SetAddress, AddRoute,
         AddRouteFails, RemoveRoute, CloseDevice, OthersChange, deviceVars, ReaderInv
<1>2. session' \in Nat /\ sessions' \in Nat
  BY <1>1 DEF ReaderInv, NoSession
<1> QED
  BY <1>1, <1>2, NobodyReads DEF ReaderInv, captureVars

LEMMA StartStopStep ==
    ASSUME ReaderInv, StartCaptureLoop \/ StopForwarding \/ JoinCapture
    PROVE  ReaderInv'
<1>1. CASE StartCaptureLoop
  <2>1. /\ loop' = [loop EXCEPT ![started + 1] = "tests"] /\ started' = started + 1
        /\ started < MaxLoops /\ main = "adds" /\ ~forwarding /\ forwarding' /\ main' = "idle"
        /\ UNCHANGED <<session, sessions, reader, tooSlow, misused>>
    BY <1>1 DEF StartCaptureLoop, Capture!LoopStarts, ReaderInv, deviceVars
  <2>2. \A l \in Loops : loop'[l] = IF l = started' THEN "tests" ELSE loop[l]
    BY <2>1 DEF ReaderInv, Loops
  <2>3. ~tooSlow => \A l \in Loops : reader[l].at = "idle" /\ loop[l] \in {"new", "over"}
    BY <2>1, NobodyReads
  <2>4. \A l \in Loops : reader[l].at # "idle" => loop'[l] = "polls"
    BY <2>1, <2>2 DEF ReaderInv, Loops
  <2>5. started' \in 0..MaxLoops /\ \A l \in Loops : l > started' => loop'[l] = "new"
    BY <2>1, <2>2, TunAssumption DEF ReaderInv, Loops
  <2> QED
    BY <2>1, <2>2, <2>3, <2>4, <2>5 DEF ReaderInv
<1>2. CASE StopForwarding
  BY <1>2 DEF StopForwarding, Capture!StopIsSet, ReaderInv, deviceVars
<1>3. CASE JoinCapture
  BY <1>3 DEF JoinCapture, Capture!Joined, Capture!JoinTimesOut, ReaderInv, deviceVars
<1> QED
  BY <1>1, <1>2, <1>3

LEMMA ThreadStep ==
    ASSUME ReaderInv, NEW l \in Loops,
           \/ PollChecks(l) \/ Receive(l) \/ Release(l) \/ PollReturns(l) \/ CaptureLoopEnds(l)
    PROVE  ReaderInv'
<1> USE DEF ReaderAt
<1>1. CASE PollChecks(l)
  <2>1. \E at \in {"returns", "checked"} :
            /\ reader' = [reader EXCEPT ![l] = [at |-> at, packet |-> NoSession]]
            /\ at = "checked" => session # NoSession
    BY <1>1 DEF PollChecks
  <2>2. loop[l] = "tests" /\ loop' = [loop EXCEPT ![l] = "polls"]
    BY <1>1 DEF PollChecks, Capture!PollBegins
  <2>3. UNCHANGED <<started, session, sessions, forwarding, main, tooSlow, misused>>
    BY <1>1 DEF PollChecks, Capture!PollBegins, deviceVars
  <2> QED
    BY <2>1, <2>2, <2>3 DEF ReaderInv, NoSession
<1>2. CASE Receive(l)
  <2>1. /\ reader[l].at = "checked"
        /\ \E at \in {"received", "returns"}, p \in {session, NoSession} :
              /\ reader' = [reader EXCEPT ![l] = [at |-> at, packet |-> p]]
              /\ at = "received" => p = session
    BY <1>2 DEF Receive
  <2>2. UNCHANGED <<loop, started, session, sessions, forwarding, main, tooSlow>>
    BY <1>2 DEF Receive, deviceVars
  <2>3. ~tooSlow => ~misused'
    BY <1>2, <2>1 DEF Receive, ReaderInv
  <2> QED
    BY <2>1, <2>2, <2>3 DEF ReaderInv, NoSession
<1>3. CASE Release(l)
  <2>1. /\ reader[l].at = "received"
        /\ reader' = [reader EXCEPT ![l] = [at |-> "returns", packet |-> NoSession]]
    BY <1>3 DEF Release
  <2>2. UNCHANGED <<loop, started, session, sessions, forwarding, main, tooSlow>>
    BY <1>3 DEF Release, deviceVars
  <2>3. ~tooSlow => ~misused'
    BY <1>3, <2>1 DEF Release, ReaderInv
  <2> QED
    BY <2>1, <2>2, <2>3 DEF ReaderInv, NoSession
<1>4. CASE PollReturns(l)
  <2>1. /\ loop[l] = "polls" /\ loop' = [loop EXCEPT ![l] = "tests"]
        /\ reader' = [reader EXCEPT ![l] = [at |-> "idle", packet |-> NoSession]]
        /\ UNCHANGED <<started, session, sessions, forwarding, main, tooSlow, misused>>
    BY <1>4 DEF PollReturns, Capture!PollEnds, deviceVars
  <2> QED
    BY <2>1 DEF ReaderInv, NoSession
<1>5. CASE CaptureLoopEnds(l)
  <2>1. /\ loop[l] = "tests" /\ loop' = [loop EXCEPT ![l] = "over"]
        /\ UNCHANGED <<reader, started, session, sessions, forwarding, main, tooSlow, misused>>
    BY <1>5 DEF CaptureLoopEnds, Capture!LoopEnds, deviceVars
  <2> QED
    BY <2>1 DEF ReaderInv
<1> QED
  BY <1>1, <1>2, <1>3, <1>4, <1>5

LEMMA ReaderStep == ReaderInv /\ [Next]_partsVars => ReaderInv'
<1> SUFFICES ASSUME ReaderInv, [Next]_partsVars
             PROVE  ReaderInv'
  OBVIOUS
<1>1. CASE UNCHANGED tunVars
  BY <1>1 DEF tunVars, ReaderInv
<1> QED
  BY <1>1, MainStep, StartStopStep, ThreadStep, PartSteps
  DEF TunNext, TunRoutesNext, TunThreadNext, StartsOrStops, CaptureThread

\* As long as no join of stop() timed out, the native functions see the session that is
\* open, a packet goes back to the session it is from, and one thread reads: in any
\* number of captures.
THEOREM ReadsItsSessionAlways == Spec => []ReadsItsSession
<1>1. Init => ReaderInv
  BY TunAssumption DEF Init, TunInit, ReaderInv, Capture!LoopInit, Loops, Capture!Loops, OffLine,
                       NoSession
<1>2. ReaderInv => ReadsItsSession
  BY DEF ReaderInv, ReadsItsSession
<1> QED
  BY <1>1, <1>2, ReaderStep, PTL DEF Spec

-------------------------------------------------------------------------------
(* The DNS tracer. *)

EtwTyped ==
    /\ newest \in 0..MaxRecords /\ cursor \in 0..newest /\ firstCursor \in Nat
    /\ query \in [Pollers -> 0..NoQuery] /\ toPublish \in [Pollers -> 0..MaxRecords]
    /\ published \in [Records -> Nat]
    /\ etwLoop \in [Pollers -> {"new", "tests", "polls", "over"}] /\ etwStarted \in 0..MaxPollers

\* Only a poll under way has a query, and an event to publish.  Unless a join timed out,
\* one thread polls: that of the tracer that is on, or being stopped.
OnePolls ==
    /\ \A l \in Pollers : l > etwStarted => etwLoop[l] = "new"
    /\ tracing => etwMain = "idle"
    /\ \A l \in Pollers : /\ query[l] # NoQuery => etwLoop[l] = "polls" /\ initialized
                          /\ toPublish[l] # NoRecord => query[l] # NoQuery
    /\ ~etwTooSlow => \A l \in Pollers : etwLoop[l] \in {"tests", "polls"} =>
                            l = etwStarted /\ (tracing \/ etwMain = "joins")

\* What a record of the first n may be.
Accounted(r) ==
    \/ published[r] > 0
    \/ r \in unread
    \/ \E l \in Pollers : toPublish[l] = r
    \/ r + ChannelSize <= newest

\* Cursor and queries have only passed records that are accounted for.
PassedAccounted ==
    /\ \A r \in Records : firstCursor < r /\ r <= cursor => Accounted(r)
    /\ \A l \in Pollers : query[l] # NoQuery =>
          \A r \in Records : firstCursor < r /\ r <= query[l] => Accounted(r)

\* What was published, or is about to be, is behind the cursor; what a query still
\* finds is not.
OnceInv ==
    ~etwTooSlow =>
        /\ \A r \in Records : published[r] <= 1 /\ (published[r] > 0 => r <= cursor)
        /\ \A l \in Pollers :
              /\ query[l] >= cursor
              /\ toPublish[l] # NoRecord => /\ published[toPublish[l]] = 0
                                            /\ toPublish[l] <= cursor

EtwInv == EtwTyped /\ OnePolls /\ PassedAccounted /\ OnceInv

LEMMA EtwInvInit == EtwInit => EtwInv
<1> SUFFICES ASSUME EtwInit
             PROVE  EtwInv
  OBVIOUS
<1> USE EtwAssumption DEF EtwInit, Poller!LoopInit, Poller!Loops, Pollers, NoQuery, NoRecord
<1>1. EtwTyped
  BY DEF EtwTyped
<1>2. OnePolls
  BY DEF OnePolls
<1>3. PassedAccounted
  BY DEF PassedAccounted, Records
<1>4. OnceInv
  BY DEF OnceInv
<1> QED
  BY <1>1, <1>2, <1>3, <1>4 DEF EtwInv

\* The steps of start, stop and the loop, which read no record.
LEMMA EtwLoopStep ==
    ASSUME EtwInv,
           \/ RecordWritten \/ StartTracing \/ StopTracing \/ JoinPoller
           \/ \E l \in Pollers : PollRefused(l) \/ PollerEnds(l) \/ EtwPollReturns(l)
    PROVE  EtwInv'
<1> USE EtwAssumption DEF EtwInv
<1>1. CASE RecordWritten
  <2>1. /\ newest < MaxRecords /\ newest' = newest + 1
        /\ UNCHANGED <<tracing, cursor, initialized, etwMain, etwLoop, etwStarted, query,
                       toPublish, published, unread, etwTooSlow, firstCursor>>
    BY <1>1 DEF RecordWritten, etwHistory
  <2>2. EtwTyped' /\ newest \in Nat
    BY <2>1 DEF EtwTyped
  <2>3. OnePolls'
    BY <2>1 DEF OnePolls
  <2>4. \A r \in Records : Accounted(r) => Accounted(r)'
    BY <2>1, <2>2 DEF Accounted, Records
  <2>5. PassedAccounted'
    BY <2>1, <2>4 DEF PassedAccounted
  <2>6. OnceInv'
    BY <2>1 DEF OnceInv
  <2> QED
    BY <2>2, <2>3, <2>5, <2>6
<1>2. ASSUME UNCHANGED <<newest, cursor, initialized, toPublish, published, unread, firstCursor>>,
             etwTooSlow => etwTooSlow', query' \in [Pollers -> 0..NoQuery],
             \A l \in Pollers : query'[l] = query[l] \/ (query'[l] = NoQuery /\ toPublish[l] = NoRecord),
             etwLoop' \in [Pollers -> {"new", "tests", "polls", "over"}],
             etwStarted' \in 0..MaxPollers, OnePolls'
      PROVE  EtwInv'
  <2>1. EtwTyped'
    BY <1>2 DEF EtwTyped
  <2>2. \A r \in Records : Accounted(r) => Accounted(r)'
    BY <1>2 DEF Accounted
  <2>3. PassedAccounted'
    BY <1>2, <2>2 DEF PassedAccounted
  <2>4. NoQuery >= cursor
    BY DEF NoQuery, EtwTyped
  <2>5. OnceInv'
    BY <1>2, <2>4 DEF OnceInv
  <2> QED
    BY <1>2, <2>1, <2>3, <2>5
<1>3. CASE StartTracing
  <2>1. /\ etwStarted < MaxPollers /\ etwStarted' = etwStarted + 1
        /\ etwLoop' = [etwLoop EXCEPT ![etwStarted + 1] = "tests"]
        /\ ~tracing /\ tracing' /\ etwMain = "idle"
        /\ UNCHANGED <<newest, cursor, initialized, etwMain, query, toPublish, published, unread,
                       etwTooSlow, firstCursor>>
    BY <1>3 DEF StartTracing, Poller!LoopStarts, etwHistory
  <2>2. /\ etwLoop' \in [Pollers -> {"new", "tests", "polls", "over"}]
        /\ etwStarted' \in 0..MaxPollers
        /\ \A l \in Pollers : etwLoop'[l] = IF l = etwStarted' THEN "tests" ELSE etwLoop[l]
    BY <2>1 DEF EtwTyped, Pollers
  <2>3. OnePolls'
    BY <2>1, <2>2 DEF OnePolls, EtwTyped, Pollers
  <2> QED
    BY <1>2, <2>1, <2>2, <2>3 DEF EtwTyped
<1>4. CASE StopTracing \/ JoinPoller
  <2>1. /\ UNCHANGED <<newest, cursor, initialized, query, toPublish, published, unread,
                       firstCursor, etwLoop, etwStarted>>
        /\ etwTooSlow => etwTooSlow'
    BY <1>4 DEF StopTracing, JoinPoller, Poller!StopIsSet, etwHistory
  <2>2. OnePolls'
    BY <1>4, <2>1 DEF StopTracing, JoinPoller, Poller!Joined, Poller!JoinTimesOut, OnePolls,
                      etwHistory
  <2> QED
    BY <1>2, <2>1, <2>2 DEF EtwTyped
<1>5. ASSUME NEW l \in Pollers, PollRefused(l) \/ PollerEnds(l)
      PROVE  EtwInv'
  <2>1. /\ UNCHANGED <<newest, tracing, cursor, initialized, etwMain, query, toPublish, published,
                       unread, etwTooSlow, firstCursor, etwStarted>>
        /\ etwLoop[l] = "tests"
        /\ etwLoop' = [etwLoop EXCEPT ![l] = "polls"] \/ etwLoop' = [etwLoop EXCEPT ![l] = "over"]
    BY <1>5 DEF PollRefused, PollerEnds, Poller!PollBegins, Poller!LoopEnds, etwHistory
  <2>2. /\ etwLoop' \in [Pollers -> {"new", "tests", "polls", "over"}]
        /\ OnePolls'
    BY <2>1 DEF OnePolls, EtwTyped
  <2> QED
    BY <1>2, <2>1, <2>2 DEF EtwTyped
<1>6. ASSUME NEW l \in Pollers, EtwPollReturns(l)
      PROVE  EtwInv'
  <2>1. /\ UNCHANGED <<newest, tracing, cursor, initialized, etwMain, toPublish, published,
                       unread, etwTooSlow, firstCursor, etwStarted>>
        /\ etwLoop[l] = "polls" /\ etwLoop' = [etwLoop EXCEPT ![l] = "tests"]
        /\ query' = [query EXCEPT ![l] = NoQuery] /\ toPublish[l] = NoRecord
    BY <1>6 DEF EtwPollReturns, Poller!PollEnds, etwHistory
  <2>2. NoQuery \in 0..NoQuery
    BY DEF NoQuery
  <2>3. /\ etwLoop' \in [Pollers -> {"new", "tests", "polls", "over"}]
        /\ query' \in [Pollers -> 0..NoQuery]
        /\ OnePolls'
    BY <2>1, <2>2 DEF OnePolls, EtwTyped
  <2> QED
    BY <1>2, <2>1, <2>3 DEF EtwTyped
<1> QED
  BY <1>1, <1>3, <1>4, <1>5, <1>6

\* The steps of a poll.
LEMMA EtwPollStep ==
    ASSUME EtwInv, NEW l \in Pollers, InitialPoll(l) \/ OpenQuery(l) \/ PublishRecord(l)
    PROVE  EtwInv'
<1> USE EtwAssumption DEF EtwInv
<1>1. CASE InitialPoll(l)
  <2>1. /\ etwLoop[l] = "tests" /\ etwLoop' = [etwLoop EXCEPT ![l] = "polls"]
        /\ ~initialized /\ cursor' \in {cursor, newest}
        /\ UNCHANGED <<newest, tracing, etwMain, query, toPublish, published, unread, etwTooSlow,
                       etwStarted>>
        /\ UNCHANGED <<cursor, firstCursor>> \/ firstCursor' = cursor'
    BY <1>1 DEF InitialPoll, Poller!PollBegins
  <2>2. \A q \in Pollers : query[q] = NoQuery /\ toPublish[q] = NoRecord
    BY <2>1 DEF OnePolls
  <2>3. EtwTyped' /\ cursor <= cursor' /\ cursor' <= newest /\ cursor \in Nat /\ cursor' \in Nat
    BY <2>1 DEF EtwTyped
  <2>4. OnePolls'
    BY <2>1, <2>2 DEF OnePolls, EtwTyped
  <2>5. \A r \in Records : Accounted(r) => Accounted(r)'
    BY <2>1 DEF Accounted
  <2>6. PassedAccounted'
    BY <2>1, <2>2, <2>3, <2>5 DEF PassedAccounted, Records
  <2>7. NoQuery > newest
    BY DEF NoQuery, EtwTyped
  <2>8. OnceInv'
    BY <2>1, <2>2, <2>3, <2>7 DEF OnceInv, EtwTyped, Records
  <2> QED
    BY <2>3, <2>4, <2>6, <2>8
<1>2. CASE OpenQuery(l)
  <2>1. /\ etwLoop[l] = "tests" /\ etwLoop' = [etwLoop EXCEPT ![l] = "polls"]
        /\ initialized /\ query' = [query EXCEPT ![l] = cursor]
        /\ UNCHANGED <<newest, tracing, cursor, initialized, etwMain, toPublish, published, unread,
                       etwTooSlow, firstCursor, etwStarted>>
    BY <1>2 DEF OpenQuery, Poller!PollBegins, etwHistory
  <2>2. cursor \in 0..NoQuery
    BY DEF NoQuery, EtwTyped
  <2>3. EtwTyped'
    BY <2>1, <2>2 DEF EtwTyped
  <2>4. cursor # NoQuery
    BY DEF NoQuery, EtwTyped
  <2>5. OnePolls'
    BY <2>1, <2>4 DEF OnePolls, EtwTyped
  <2>6. \A r \in Records : Accounted(r) => Accounted(r)'
    BY <2>1 DEF Accounted
  <2>7. PassedAccounted'
    BY <2>1, <2>6 DEF PassedAccounted, EtwTyped
  <2>8. OnceInv'
    BY <2>1, <2>2 DEF OnceInv, EtwTyped
  <2> QED
    BY <2>3, <2>5, <2>7, <2>8
<1>3. CASE PublishRecord(l)
  <2> DEFINE p == toPublish[l]
  <2>1. /\ p # NoRecord
        /\ published' = [published EXCEPT ![p] = @ + 1]
        /\ toPublish' = [toPublish EXCEPT ![l] = NoRecord]
        /\ UNCHANGED <<newest, tracing, cursor, initialized, etwMain, etwLoop, etwStarted, query,
                       unread, etwTooSlow, firstCursor>>
    BY <1>3 DEF PublishRecord
  <2>2. /\ p \in Records
        /\ toPublish' \in [Pollers -> 0..MaxRecords]
        /\ \A q \in Pollers : toPublish'[q] = IF q = l THEN NoRecord ELSE toPublish[q]
    BY <2>1 DEF EtwTyped, Records, NoRecord
  <2>3. /\ published' \in [Records -> Nat]
        /\ \A r \in Records : published'[r] = IF r = p THEN published[r] + 1 ELSE published[r]
    BY <2>1, <2>2 DEF EtwTyped
  <2>4. EtwTyped'
    BY <2>1, <2>2, <2>3 DEF EtwTyped
  <2>5. OnePolls'
    BY <2>1, <2>2 DEF OnePolls
  <2>6. ASSUME NEW r \in Records, Accounted(r)
        PROVE  Accounted(r)'
    <3>1. CASE published[r] > 0
      BY <2>3, <3>1 DEF Accounted, EtwTyped
    <3>2. CASE r \in unread \/ r + ChannelSize <= newest
      BY <2>1, <3>2 DEF Accounted
    <3>3. ASSUME NEW q \in Pollers, toPublish[q] = r
          PROVE  Accounted(r)'
      <4>1. CASE q = l
        BY <2>3, <3>3, <4>1 DEF Accounted, EtwTyped
      <4>2. CASE q # l
        BY <2>2, <3>3, <4>2 DEF Accounted
      <4> QED
        BY <4>1, <4>2
    <3> QED
      BY <2>6, <3>1, <3>2, <3>3 DEF Accounted
  <2>7. PassedAccounted'
    BY <2>1, <2>6 DEF PassedAccounted
  <2>8. OnceInv'
    <3> SUFFICES ASSUME ~etwTooSlow
                 PROVE  /\ \A r \in Records : /\ published'[r] <= 1
                                              /\ published'[r] > 0 => r <= cursor
                        /\ \A q \in Pollers :
                              /\ query[q] >= cursor
                              /\ toPublish'[q] # NoRecord => /\ published'[toPublish'[q]] = 0
                                                             /\ toPublish'[q] <= cursor
      BY <2>1 DEF OnceInv
    <3>1. \A q \in Pollers : q # l => toPublish[q] = NoRecord
      BY <2>1 DEF OnePolls
    <3>2. published[p] = 0 /\ p <= cursor
      BY <2>1 DEF OnceInv
    <3>3. \A q \in Pollers : toPublish'[q] = NoRecord
      BY <2>2, <3>1
    <3> QED
      BY <2>3, <3>2, <3>3 DEF OnceInv
  <2> QED
    BY <2>4, <2>5, <2>7, <2>8
<1> QED
  BY <1>1, <1>2, <1>3

\* A record that is read or skipped: what lies between it and the one before has left
\* the channel.
LEMMA EtwReadStep ==
    ASSUME EtwInv, NEW l \in Pollers, NEW r \in Records, ReadRecord(l, r) \/ SkipRecord(l, r)
    PROVE  EtwInv'
<1> USE EtwAssumption DEF EtwInv
<1>1. /\ query[l] # NoQuery /\ toPublish[l] = NoRecord
      /\ r \in InChannel /\ r > query[l]
      /\ \A s \in InChannel : s > query[l] => r <= s
      /\ query' = [query EXCEPT ![l] = r]
      /\ UNCHANGED <<newest, tracing, initialized, etwMain, etwLoop, etwStarted, published,
                     etwTooSlow, firstCursor>>
  BY DEF ReadRecord, SkipRecord, NextInChannel, etwHistory
<1>2. \/ /\ cursor' = IF r > cursor THEN r ELSE cursor
         /\ toPublish' = [toPublish EXCEPT ![l] = r]
         /\ unread' = unread
      \/ cursor' = cursor /\ toPublish' = toPublish /\ unread' = unread \cup {r}
  BY DEF ReadRecord, SkipRecord, etwHistory
<1>3. /\ r \in 1..MaxRecords /\ r <= newest /\ r # NoQuery /\ r # NoRecord /\ newest \in Nat
      /\ cursor \in Nat /\ query[l] \in Nat
  BY <1>1 DEF InChannel, Records, NoQuery, NoRecord, EtwTyped
<1>4. \A q \in Pollers : query'[q] = IF q = l THEN r ELSE query[q]
  BY <1>1 DEF EtwTyped
<1>5. EtwTyped'
  <2>1. query' \in [Pollers -> 0..NoQuery]
    BY <1>1, <1>3 DEF EtwTyped, NoQuery
  <2>2. toPublish' \in [Pollers -> 0..MaxRecords] /\ cursor' \in 0..newest
    BY <1>2, <1>3 DEF EtwTyped
  <2> QED
    BY <1>1, <2>1, <2>2 DEF EtwTyped
<1>6. OnePolls'
  <2>1. \A q \in Pollers : toPublish'[q] # NoRecord => q = l \/ toPublish[q] # NoRecord
    BY <1>2 DEF EtwTyped
  <2> QED
    BY <1>1, <1>3, <1>4, <2>1 DEF OnePolls
<1>7. \A s \in Records : Accounted(s) => Accounted(s)'
  <2>1. \A q \in Pollers : toPublish[q] # NoRecord => toPublish'[q] = toPublish[q]
    BY <1>1, <1>2 DEF EtwTyped
  <2>2. \A s \in Records : s # NoRecord
    BY DEF Records, NoRecord
  <2> QED
    BY <1>1, <1>2, <2>1, <2>2 DEF Accounted
<1>8. Accounted(r)'
  BY <1>2, <1>5 DEF Accounted, EtwTyped
<1>9. \A s \in Records : firstCursor < s /\ s <= r => Accounted(s)'
  <2> SUFFICES ASSUME NEW s \in Records, firstCursor < s, s <= r, s # r
               PROVE  Accounted(s)'
    BY <1>8
  <2>1. CASE s <= query[l]
    BY <1>1, <1>7, <2>1 DEF PassedAccounted
  <2>2. CASE ~(s <= query[l])
    <3>1. s \notin InChannel
      BY <1>1, <1>3, <2>2 DEF Records
    <3>2. s + ChannelSize <= newest
      BY <1>3, <3>1 DEF InChannel, Records
    <3> QED
      BY <1>1, <3>2 DEF Accounted
  <2> QED
    BY <2>1, <2>2
<1>10. PassedAccounted'
  <2>1. \A s \in Records : firstCursor' < s /\ s <= cursor' => Accounted(s)'
    BY <1>1, <1>2, <1>7, <1>9 DEF PassedAccounted
  <2>2. ASSUME NEW q \in Pollers, query'[q] # NoQuery,
               NEW s \in Records, firstCursor' < s, s <= query'[q]
        PROVE  Accounted(s)'
    BY <1>1, <1>4, <1>7, <1>9, <2>2 DEF PassedAccounted
  <2> QED
    BY <2>1, <2>2 DEF PassedAccounted
<1>11. OnceInv'
  <2> SUFFICES ASSUME ~etwTooSlow
               PROVE  /\ \A s \in Records : /\ published[s] <= 1
                                            /\ published[s] > 0 => s <= cursor'
                      /\ \A q \in Pollers :
                            /\ query'[q] >= cursor'
                            /\ toPublish'[q] # NoRecord => /\ published[toPublish'[q]] = 0
                                                           /\ toPublish'[q] <= cursor'
    BY <1>1 DEF OnceInv
  <2>1. cursor <= query[l] /\ cursor' \in {cursor, r} /\ cursor < r
    BY <1>1, <1>2, <1>3 DEF OnceInv
  <2>2. published[r] = 0
    BY <1>3, <2>1 DEF OnceInv, EtwTyped
  <2>3. \A q \in Pollers : q # l => query[q] = NoQuery /\ toPublish[q] = NoRecord
    BY <1>1 DEF OnePolls
  <2>4. \A q \in Pollers : query'[q] >= cursor'
    BY <1>3, <1>4, <2>1, <2>3 DEF NoQuery
  <2>5. \A q \in Pollers : toPublish'[q] # NoRecord => toPublish'[q] = r /\ cursor' = r
    BY <1>1, <1>2, <1>3, <2>1, <2>3 DEF EtwTyped
  <2>6. \A s \in Records : published[s] > 0 => s <= cursor'
    BY <1>3, <2>1 DEF OnceInv, Records
  <2> QED
    BY <1>3, <2>2, <2>4, <2>5, <2>6 DEF OnceInv
<1> QED
  BY <1>5, <1>6, <1>10, <1>11

LEMMA EtwInvStep == EtwInv /\ [Next]_partsVars => EtwInv'
<1> SUFFICES ASSUME EtwInv, [Next]_partsVars
             PROVE  EtwInv'
  OBVIOUS
<1>1. CASE UNCHANGED etwVars
  BY <1>1 DEF etwVars, EtwInv, EtwTyped, OnePolls, PassedAccounted, Accounted, OnceInv
<1> QED
  BY <1>1, EtwLoopStep, EtwPollStep, EtwReadStep, PartSteps DEF EtwNext

\* Every DNS event that the cursor passes is published, once: however often the tracer
\* is stopped and started, wherever polls give up, and however fast the channel turns.
THEOREM PublishedExactlyOnceAlways == Spec => []PublishedExactlyOnce
<1>1. Init => EtwInv
  BY EtwInvInit DEF Init
<1>2. EtwInv => PublishedExactlyOnce
  <2> SUFFICES ASSUME EtwInv
               PROVE  PublishedExactlyOnce
    OBVIOUS
  <2>1. PublishedOnce
    BY DEF EtwInv, OnceInv, PublishedOnce
  <2>2. NoneSkipped
    BY EtwAssumption DEF EtwInv, EtwTyped, PassedAccounted, Accounted, NoneSkipped, Records
  <2> QED
    BY <2>1, <2>2 DEF PublishedExactlyOnce
<1> QED
  BY <1>1, <1>2, EtwInvStep, PTL DEF Spec

-------------------------------------------------------------------------------
(* The panel of the network tests. *)

Signals == [of : Tests, kind : {"line", "error", "finished"}]

\* Tests are started in order, and send signals once started; the finished signal is
\* the last of a test.
DiagTyped ==
    /\ lastTest \in 0..MaxTests
    /\ test \in [Tests -> {"new", "queued", "prints", "fails", "over"}]
    /\ \A t \in Tests : test[t] = "new" <=> t > lastTest
    /\ posted \in Seq(Signals)
    /\ delivered \subseteq Tests /\ stopped \subseteq Tests /\ erred \subseteq Tests
    /\ \A t \in delivered : t <= lastTest
    /\ stopOn => lastTest # NoTest
    /\ \A i \in DOMAIN posted :
        /\ posted[i].of <= lastTest
        /\ posted[i].kind = "error" => posted[i].of \in erred
        /\ posted[i].kind = "finished" =>
              /\ test[posted[i].of] = "over"
              /\ \A j \in DOMAIN posted : j > i => posted[j].of # posted[i].of

\* Nothing more is heard of t.
Silent(t) == test[t] = "over" /\ \A i \in DOMAIN posted : posted[i].of # t

\* The tests before the current one are silent, unless one of them was stopped or
\* failed; and the start button is only enabled once the current one is like that, too.
DiagInv ==
    /\ DiagTyped
    /\ (\A t \in 1..(lastTest - 1) : Silent(t)) \/ \E t \in stopped \cup erred : t < lastTest
    /\ startOn => \/ lastTest = NoTest \/ Silent(lastTest)
                  \/ \E t \in stopped \cup erred : t <= lastTest
    /\ ButtonsTell

LEMMA SignalOf ==
    ASSUME DiagTyped, NEW j \in DOMAIN posted
    PROVE  posted[j] \in Signals /\ posted[j].of \in Tests
<1>1. posted[j] \in Signals
  BY DEF DiagTyped
<1> QED
  BY <1>1 DEF Signals

LEMMA StartTestStep == DiagInv /\ StartTest => DiagInv'
<1> SUFFICES ASSUME DiagInv, StartTest
             PROVE  DiagInv'
  OBVIOUS
<1> USE NetDiagAssumption DEF DiagInv, DiagTyped, Tests, NoTest
<1>1. PICK t \in Tests : /\ test[t] = "new" /\ \A s \in 1..(t - 1) : test[s] # "new"
                         /\ test' = [test EXCEPT ![t] = "queued"]
                         /\ lastTest' = t
                         /\ \E sameId \in SUBSET Tests : stopped' = stopped \cup sameId
  BY DEF StartTest
<1>2. /\ startOn /\ ~startOn' /\ stopOn' /\ ~crossed'
      /\ UNCHANGED <<posted, delivered, erred>>
  BY DEF StartTest
<1>3. t = lastTest + 1
  <2>1. t > lastTest
    BY <1>1
  <2>2. CASE t > lastTest + 1
    <3>1. lastTest + 1 \in 1..(t - 1) /\ lastTest + 1 \in Tests
      BY <2>2
    <3> QED
      BY <1>1, <3>1
  <2> QED
    BY <2>1, <2>2
<1>4. \A s \in Tests : test'[s] = IF s = t THEN "queued" ELSE test[s]
  BY <1>1
<1>5. DiagTyped'
  <2>1. \A s \in Tests : test'[s] = "new" <=> s > lastTest'
    BY <1>1, <1>3, <1>4
  <2>2. \A s \in delivered' : s <= lastTest'
    BY <1>1, <1>2, <1>3
  <2>3. \A j \in DOMAIN posted : posted[j].of \in Tests
    BY SignalOf
  <2>4. \A j \in DOMAIN posted : /\ posted'[j].of <= lastTest'
                                 /\ posted'[j].kind = "error" => posted'[j].of \in erred'
                                 /\ posted'[j].kind = "finished" => test'[posted'[j].of] = "over"
    BY <1>1, <1>2, <1>3, <1>4, <2>3
  <2> QED
    BY <1>1, <1>2, <1>3, <2>1, <2>2, <2>4
<1>6. (\A s \in 1..(t - 1) : Silent(s)') \/ \E s \in stopped' \cup erred' : s < lastTest'
  <2>1. CASE \E s \in stopped \cup erred : s <= lastTest
    <3>1. PICK s \in stopped \cup erred : s <= lastTest
      BY <2>1
    <3>2. s \in stopped' \cup erred' /\ s \in Int
      BY <1>1, <1>2
    <3> QED
      BY <1>1, <1>3, <3>1, <3>2
  <2>2. CASE \A s \in 1..lastTest : Silent(s)
    BY <1>1, <1>2, <1>3, <1>4, <2>2 DEF Silent
  <2>3. CASE \E s \in stopped \cup erred : s < lastTest
    BY <2>1, <2>3
  <2> QED
    BY <1>2, <2>1, <2>2, <2>3
<1>7. ButtonsTell'
  BY <1>1, <1>2, <1>3 DEF ButtonsTell
<1> QED
  BY <1>1, <1>2, <1>5, <1>6, <1>7

LEMMA StopTestStep == DiagInv /\ StopTest => DiagInv'
<1> SUFFICES ASSUME DiagInv, StopTest
             PROVE  DiagInv'
  OBVIOUS
<1>1. /\ stopOn /\ ~stopOn' /\ stopped' = stopped \cup {lastTest}
      /\ UNCHANGED <<test, lastTest, posted, delivered, erred, crossed>>
  BY DEF StopTest
<1>2. lastTest \in Tests /\ lastTest <= lastTest
  BY <1>1 DEF DiagInv, DiagTyped, Tests, NoTest
<1>3. DiagTyped'
  BY <1>1, <1>2 DEF DiagInv, DiagTyped
<1>4. ButtonsTell'
  BY <1>1, <1>2 DEF DiagInv, ButtonsTell
<1>5. /\ (\A t \in 1..(lastTest - 1) : Silent(t)) => \A t \in 1..(lastTest' - 1) : Silent(t)'
      /\ \E t \in stopped' \cup erred' : t <= lastTest'
      /\ (\E t \in stopped \cup erred : t < lastTest) => \E t \in stopped' \cup erred' : t < lastTest'
  BY <1>1, <1>2 DEF Silent
<1> QED
  BY <1>3, <1>4, <1>5 DEF DiagInv

\* A step of a test that is not over: it may post a signal, the last one being finished.
LEMMA TestSteps ==
    ASSUME DiagInv, NEW t \in Tests,
           TestDropped(t) \/ TestBegins(t) \/ TestPrints(t) \/ TestFails(t) \/ TestEnds(t)
    PROVE  DiagInv'
<1>1. /\ test[t] \in {"queued", "prints", "fails"}
      /\ UNCHANGED panelVars
      /\ erred' \in {erred, erred \cup {t}}
      /\ \E st \in {"prints", "fails", "over"} : test' = [test EXCEPT ![t] = st]
      /\ \/ posted' = posted
         \/ \E kind \in {"line", "error", "finished"} :
               /\ posted' = Append(posted, [of |-> t, kind |-> kind])
               /\ kind = "error" => t \in erred'
               /\ kind = "finished" => test'[t] = "over"
  BY DEF TestDropped, TestBegins, TestPrints, TestFails, TestEnds, Post, panelVars, DiagInv, DiagTyped
<1>2. /\ test' \in [Tests -> {"new", "queued", "prints", "fails", "over"}]
      /\ test[t] # "new" /\ test'[t] # "new" /\ t <= lastTest /\ t \in Nat /\ lastTest \in Nat
      /\ \A s \in Tests : s # t => test'[s] = test[s]
  BY <1>1 DEF DiagInv, DiagTyped, Tests
<1>3. /\ UNCHANGED <<lastTest, task, startOn, stopOn, delivered, stopped, crossed>>
      /\ erred \subseteq erred'
  BY <1>1 DEF panelVars
<1> DEFINE NewIsOf(j) == /\ posted'[j].of = t
                         /\ posted'[j].kind = "error" => t \in erred'
                         /\ posted'[j].kind = "finished" => /\ test'[t] = "over"
                                                           /\ \A i \in DOMAIN posted' : i <= j
           Extended == /\ posted' \in Seq(Signals)
                       /\ \A j \in DOMAIN posted : j \in DOMAIN posted' /\ posted'[j] = posted[j]
                       /\ \A j \in DOMAIN posted' : j \in DOMAIN posted \/ NewIsOf(j)
<1>4. Extended
  <2>1. CASE posted' = posted
    BY <2>1 DEF DiagInv, DiagTyped
  <2>2. ASSUME NEW kind \in {"line", "error", "finished"},
               posted' = Append(posted, [of |-> t, kind |-> kind]),
               kind = "error" => t \in erred', kind = "finished" => test'[t] = "over"
        PROVE  Extended
    <3> DEFINE x == [of |-> t, kind |-> kind]
    <3>1. x \in Signals /\ posted \in Seq(Signals) /\ x.of = t /\ x.kind = kind
      BY DEF Signals, DiagInv, DiagTyped
    <3> HIDE DEF x
    <3>2. /\ posted' \in Seq(Signals) /\ Len(posted) \in Nat
          /\ DOMAIN posted = 1..Len(posted) /\ DOMAIN posted' = 1..(Len(posted) + 1)
          /\ \A i \in 1..Len(posted) : posted'[i] = posted[i]
          /\ posted'[Len(posted) + 1] = x
      BY <2>2, <3>1 DEF x
    <3>3. \A j \in DOMAIN posted' : j \in DOMAIN posted \/ j = Len(posted) + 1
      BY <3>2
    <3> QED
      BY <2>2, <3>1, <3>2, <3>3
  <2> QED
    BY <1>1, <2>1, <2>2
<1>5. DiagTyped'
  <2>1. ASSUME NEW j \in DOMAIN posted'
        PROVE  /\ posted'[j].of <= lastTest'
               /\ posted'[j].kind = "error" => posted'[j].of \in erred'
               /\ posted'[j].kind = "finished" =>
                     /\ test'[posted'[j].of] = "over"
                     /\ \A i \in DOMAIN posted' : i > j => posted'[i].of # posted'[j].of
    <3>1. CASE j \in DOMAIN posted
      <4>1. /\ posted'[j] = posted[j] /\ posted[j].of \in Tests
            /\ posted[j].of <= lastTest
            /\ posted[j].kind = "error" => posted[j].of \in erred
        BY <1>4, <3>1, SignalOf DEF DiagInv, DiagTyped
      <4>2. ASSUME posted[j].kind = "finished"
            PROVE  /\ test'[posted[j].of] = "over"
                   /\ \A i \in DOMAIN posted' : i > j => posted'[i].of # posted[j].of
        <5>1. /\ test[posted[j].of] = "over"
              /\ \A i \in DOMAIN posted : i > j => posted[i].of # posted[j].of
          BY <3>1, <4>2 DEF DiagInv, DiagTyped
        <5>2. posted[j].of # t
          BY <1>1, <5>1
        <5> QED
          BY <1>2, <1>4, <4>1, <5>1, <5>2
      <4> QED
        BY <1>3, <4>1, <4>2
    <3>2. CASE j \notin DOMAIN posted
      <4>1. j \in Int /\ \A i \in DOMAIN posted' : i \in Int
        BY <1>4
      <4> QED
        BY <1>2, <1>3, <1>4, <3>2, <4>1
    <3> QED
      BY <3>1, <3>2
  <2>2. erred' \subseteq Tests
    BY <1>1 DEF DiagInv, DiagTyped
  <2>3. \A s \in Tests : test'[s] = "new" <=> s > lastTest
    BY <1>2 DEF DiagInv, DiagTyped
  <2> QED
    BY <1>2, <1>3, <1>4, <2>1, <2>2, <2>3 DEF DiagInv, DiagTyped
<1>6. \A s \in Tests : Silent(s) => Silent(s)'
  <2> SUFFICES ASSUME NEW s \in Tests, Silent(s)
               PROVE  Silent(s)'
    OBVIOUS
  <2>1. s # t
    BY <1>1 DEF Silent
  <2> QED
    BY <1>2, <1>4, <2>1 DEF Silent
<1>7. ButtonsTell'
  BY <1>3 DEF DiagInv, ButtonsTell
<1>8. \A s \in 1..(lastTest - 1) : s \in Tests
  BY NetDiagAssumption DEF DiagInv, DiagTyped, Tests
<1>9. lastTest = NoTest \/ lastTest \in Tests
  BY DEF DiagInv, DiagTyped, Tests, NoTest
<1> QED
  BY <1>3, <1>5, <1>6, <1>7, <1>8, <1>9 DEF DiagInv

LEMMA DiagDeliverStep == DiagInv /\ Deliver => DiagInv'
<1> SUFFICES ASSUME DiagInv, Deliver
             PROVE  DiagInv'
  OBVIOUS
<1> DEFINE s == Head(posted)
<1>1. /\ posted \in Seq(Signals) /\ posted # <<>> /\ posted' = Tail(posted)
      /\ crossed' = (crossed \/ s.of # lastTest)
      /\ startOn' = (startOn \/ s.kind # "line")
      /\ stopOn' = (stopOn /\ s.kind = "line")
      /\ delivered' = IF s.kind = "finished" THEN delivered \cup {s.of} ELSE delivered
      /\ UNCHANGED <<test, lastTest, stopped, erred>>
  BY DEF Deliver, DiagInv, DiagTyped
<1>2. /\ 1 \in DOMAIN posted /\ s = posted[1] /\ posted' \in Seq(Signals)
      /\ \A j \in DOMAIN posted' : /\ j + 1 \in DOMAIN posted /\ posted'[j] = posted[j + 1]
                                   /\ j \in Nat \ {0}
  BY <1>1
<1>3. /\ s \in Signals /\ s.of \in Tests /\ s.of <= lastTest
      /\ s.kind = "error" => s.of \in erred
      /\ s.kind = "finished" => /\ test[s.of] = "over"
                               /\ \A j \in DOMAIN posted' : posted'[j].of # s.of
  <2>1. s \in Signals /\ s.of \in Tests
    BY <1>2, SignalOf DEF DiagInv
  <2> HIDE DEF s
  <2>2. \A j \in DOMAIN posted' : j + 1 > 1
    BY <1>2
  <2> QED
    BY <1>2, <2>1, <2>2 DEF DiagInv, DiagTyped
<1> HIDE DEF s
<1>4. DiagTyped'
  <2>1. \A i, j \in DOMAIN posted' : j > i => j + 1 > i + 1
    BY <1>2
  <2>2. \A j \in DOMAIN posted' :
           /\ posted'[j].of <= lastTest
           /\ posted'[j].kind = "error" => posted'[j].of \in erred
           /\ posted'[j].kind = "finished" =>
                 /\ test[posted'[j].of] = "over"
                 /\ \A i \in DOMAIN posted' : i > j => posted'[i].of # posted'[j].of
    BY <1>2, <2>1 DEF DiagInv, DiagTyped
  <2>3. delivered' \subseteq Tests /\ \A t \in delivered' : t <= lastTest
    BY <1>1, <1>3 DEF DiagInv, DiagTyped
  <2>4. stopOn' => stopOn
    BY <1>1
  <2> QED
    BY <1>1, <1>2, <2>2, <2>3, <2>4 DEF DiagInv, DiagTyped
<1>5. \A t : Silent(t) => Silent(t)'
  BY <1>1, <1>2 DEF Silent
<1>6. s.of # lastTest => \E t \in stopped \cup erred : t < lastTest
  <2> SUFFICES ASSUME s.of # lastTest
               PROVE  ~Silent(s.of) /\ s.of \in 1..(lastTest - 1)
    BY DEF DiagInv
  <2> QED
    BY <1>2, <1>3 DEF Silent, DiagInv, DiagTyped, Tests
<1>7. startOn' => \/ lastTest = NoTest \/ Silent(lastTest)'
                  \/ \E t \in stopped \cup erred : t <= lastTest
  <2>1. CASE startOn
    <3>1. Silent(lastTest) => Silent(lastTest)'
      BY <1>1, <1>2 DEF Silent
    <3> QED
      BY <2>1, <3>1 DEF DiagInv
  <2>2. CASE s.of # lastTest
    <3>1. PICK t \in stopped \cup erred : t < lastTest
      BY <1>6, <2>2
    <3>2. t \in Tests /\ lastTest \in Int
      BY NetDiagAssumption DEF DiagInv, DiagTyped
    <3>3. t <= lastTest
      BY <3>1, <3>2 DEF Tests
    <3> QED
      BY <3>3
  <2>3. CASE s.of = lastTest /\ s.kind = "error"
    <3>1. lastTest <= lastTest
      BY DEF DiagInv, DiagTyped
    <3> QED
      BY <1>3, <2>3, <3>1
  <2>4. CASE s.of = lastTest /\ s.kind = "finished"
    BY <1>1, <1>3, <2>4 DEF Silent
  <2> QED
    BY <1>1, <1>3, <2>1, <2>2, <2>3, <2>4 DEF Signals
<1>8. ButtonsTell'
  <2>1. crossed' => \E t \in stopped \cup erred : t < lastTest
    BY <1>1, <1>6 DEF DiagInv, ButtonsTell
  <2>2. ASSUME lastTest \notin stopped \cup erred \cup {NoTest}, ~crossed'
        PROVE  stopOn' <=> lastTest \notin delivered'
    <3>1. ~crossed /\ s.of = lastTest
      BY <1>1, <2>2
    <3>2. (stopOn <=> lastTest \notin delivered) /\ s.kind \in {"line", "finished"}
      BY <1>3, <2>2, <3>1 DEF DiagInv, ButtonsTell, Signals
    <3> QED
      BY <1>1, <3>1, <3>2
  <2> QED
    BY <1>1, <2>1, <2>2 DEF ButtonsTell
<1> QED
  BY <1>1, <1>4, <1>5, <1>7, <1>8 DEF DiagInv

LEMMA DiagInvStep == DiagInv /\ [Next]_partsVars => DiagInv'
<1> SUFFICES ASSUME DiagInv, [Next]_partsVars
             PROVE  DiagInv'
  OBVIOUS
<1>1. CASE UNCHANGED diagVars
  BY <1>1 DEF diagVars, DiagInv, DiagTyped, Silent, ButtonsTell
<1> QED
  BY <1>1, StartTestStep, StopTestStep, TestSteps, DiagDeliverStep, PartSteps DEF DiagNext

\* The buttons tell whether the test that was started last runs, unless something went
\* wrong that the property names: in whatever order signals of several tests, the user's
\* clicks and the ends of the tools come.
THEOREM ButtonsTellAlways == Spec => []ButtonsTell
<1>1. Init => DiagInv
  BY NetDiagAssumption DEF Init, DiagInit, DiagInv, DiagTyped, ButtonsTell, Tests, NoTest
<1>2. DiagInv => ButtonsTell
  BY DEF DiagInv
<1> QED
  BY <1>1, <1>2, DiagInvStep, PTL DEF Spec

-------------------------------------------------------------------------------
(* Rates and latency on the screen. *)

\* A mark of an interface: it has carried as much since as its counter has risen, or
\* more if the counter restarted; and the clock has gone on as time has, unless it was set.
MarkIsTrue(m) ==
    /\ m.value \in Nat /\ m.truth \in Nat
    /\ m.of \in Paths => /\ m.truth <= carried[m.of]
                        /\ counter[m.of] - m.value <= carried[m.of] - m.truth
    /\ restarts = 0 => m.value = m.truth
    /\ m.at \in Nat /\ m.up \in Nat /\ m.sets \in Nat /\ m.sets <= clockSets
    /\ m.at # 0 /\ m.sets = clockSets => second - m.at = uptime - m.up

RatesInv ==
    /\ second \in Nat /\ uptime \in Nat /\ clockSets \in Nat
    /\ counter \in [Paths -> Nat] /\ carried \in [Paths -> Nat] /\ restarts \in Nat
    /\ \A i \in Paths : counter[i] <= carried[i] /\ (restarts = 0 => counter[i] = carried[i])
    /\ route \in Paths \cup {NoPath} /\ panelIface \in Paths \cup {NoPath}
    /\ DOMAIN mapPrev = Paths /\ DOMAIN mapRate = Paths
    /\ MarkIsTrue(panelPrev)
    /\ \A i \in Paths : MarkIsTrue(mapPrev[i]) /\ mapPrev[i].of = i
    /\ RatesAreTrue

LEMMA NeverIsTrue ==
    ASSUME RatesInv, NEW i
    PROVE  MarkIsTrue(Never(i)) /\ Honest(NoRate(i)) /\ Never(i).of = i
BY DEF RatesInv, MarkIsTrue, Never, Honest, NoRate

LEMMA NewMark ==
    ASSUME RatesInv, NEW i \in Paths
    PROVE  MarkIsTrue(Mark(i)) /\ Mark(i).of = i
BY DEF RatesInv, MarkIsTrue, Mark

LEMMA NewSample ==
    ASSUME RatesInv, NEW i \in Paths, NEW m, MarkIsTrue(m), m.at # 0, second > m.at
    PROVE  Honest(Sample(m, Mark(i)))
<1>1. /\ Mark(i).value = counter[i] /\ Mark(i).truth = carried[i] /\ Mark(i).of = i
      /\ Mark(i).at = second /\ Mark(i).up = uptime /\ Mark(i).sets = clockSets
      /\ counter[i] \in Nat /\ carried[i] \in Nat
  BY DEF Mark, RatesInv
<1> DEFINE s == Sample(m, Mark(i))
<1>2. /\ s.bytes = Risen(counter[i], m.value) /\ s.seconds = second - m.at
      /\ s.from = m /\ s.to = Mark(i)
  BY <1>1 DEF Sample
<1>4. s.seconds > 0 /\ (m.sets = clockSets => s.seconds = uptime - m.up)
  BY <1>2 DEF MarkIsTrue, RatesInv
<1> HIDE DEF s
<1> SUFFICES ASSUME m.of = i
             PROVE  /\ s.bytes <= carried[i] - m.truth
                    /\ restarts = 0 => s.bytes = carried[i] - m.truth
  BY <1>1, <1>2, <1>4 DEF Honest, s
<1>3. /\ m.value \in Nat /\ m.truth \in Nat /\ m.truth <= carried[i]
      /\ counter[i] - m.value <= carried[i] - m.truth
      /\ restarts = 0 => m.value = m.truth /\ counter[i] = carried[i]
  BY DEF MarkIsTrue, RatesInv
<1> QED
  BY <1>1, <1>2, <1>3 DEF Risen

\* The world moves: what the marks say of the past stays true.
LEMMA WorldStep == RatesInv /\ World => RatesInv'
<1> SUFFICES ASSUME RatesInv, World
             PROVE  RatesInv'
  OBVIOUS
<1>1. UNCHANGED <<panelVarsOfRate, mapVars>>
  BY DEF World, SecondPasses, ClockIsSet, RouteMoves, CounterRestarts, Carries
<1> DEFINE Moves ==
        /\ counter' \in [Paths -> Nat] /\ carried' \in [Paths -> Nat]
        /\ restarts' \in Nat /\ (restarts' = 0 => restarts = 0)
        /\ route' \in Paths \cup {NoPath}
        /\ \A i \in Paths : /\ carried[i] <= carried'[i]
                            /\ counter'[i] - counter[i] <= carried'[i] - carried[i]
                            /\ restarts' = 0 => counter'[i] = carried'[i]
        /\ second' \in Nat /\ uptime' \in Nat
        /\ \/ clockSets' = clockSets /\ second' - second = uptime' - uptime
           \/ clockSets' = clockSets + 1
<1>2. Moves
  <2>1. CASE SecondPasses
    BY <2>1 DEF SecondPasses, RatesInv
  <2>4. CASE ClockIsSet
    <3>1. UNCHANGED <<counter, carried, uptime, route, restarts>>
      BY <2>4 DEF ClockIsSet
    <3>2. second' \in Nat /\ clockSets' = clockSets + 1
      BY <2>4, StatusAssumption DEF ClockIsSet
    <3> QED
      BY <3>1, <3>2 DEF RatesInv
  <2>5. CASE RouteMoves
    BY <2>5 DEF RouteMoves, RatesInv, clockVars
  <2>2. ASSUME NEW i \in Paths, CounterRestarts(i)
        PROVE  Moves
    <3>1. /\ restarts' = restarts + 1 /\ counter' = [counter EXCEPT ![i] = 0]
          /\ UNCHANGED <<carried, clockVars, route>>
      BY <2>2 DEF CounterRestarts
    <3> QED
      BY <3>1 DEF RatesInv, clockVars
  <2>3. ASSUME NEW i \in Paths, NEW n \in {1, Burst}, Carries(i, n)
        PROVE  Moves
    <3>1. /\ counter' = [counter EXCEPT ![i] = @ + n] /\ carried' = [carried EXCEPT ![i] = @ + n]
          /\ UNCHANGED <<restarts, clockVars, route>> /\ n \in Nat
      BY <2>3, StatusAssumption DEF Carries
    <3> QED
      BY <3>1 DEF RatesInv, clockVars
  <2> QED
    BY <2>1, <2>2, <2>3, <2>4, <2>5 DEF World
<1>3. \A i \in Paths : /\ counter[i] \in Nat /\ carried[i] \in Nat /\ counter[i] <= carried[i]
                      /\ counter'[i] \in Nat /\ carried'[i] \in Nat
  BY <1>2 DEF RatesInv
<1>4. \A i \in Paths : counter'[i] <= carried'[i]
  BY <1>2, <1>3
<1>5. RatesAreTrue'
  BY <1>1, <1>2 DEF RatesInv, RatesAreTrue, Honest, panelVarsOfRate, mapVars
<1>6. ASSUME NEW m, MarkIsTrue(m)
      PROVE  MarkIsTrue(m)'
  <2>1. m.of \in Paths => /\ m.truth <= carried'[m.of]
                          /\ counter'[m.of] - m.value <= carried'[m.of] - m.truth
    BY <1>2, <1>3, <1>6 DEF MarkIsTrue
  <2>2. /\ m.sets <= clockSets'
        /\ m.at # 0 /\ m.sets = clockSets' => second' - m.at = uptime' - m.up
    BY <1>2, <1>6 DEF MarkIsTrue, RatesInv
  <2> QED
    BY <1>2, <1>6, <2>1, <2>2 DEF MarkIsTrue
<1>7. MarkIsTrue(panelPrev)' /\ \A i \in Paths : MarkIsTrue(mapPrev[i])'
  <2>1. PICK m, f : m = panelPrev /\ f = mapPrev
    OBVIOUS
  <2>2. panelPrev' = m /\ mapPrev' = f /\ MarkIsTrue(m) /\ \A i \in Paths : MarkIsTrue(f[i])
    BY <1>1, <2>1 DEF panelVarsOfRate, mapVars, RatesInv
  <2>3. MarkIsTrue(m)' /\ \A i \in Paths : MarkIsTrue(f[i])'
    BY <1>6, <2>2
  <2> QED
    BY <2>2, <2>3 DEF MarkIsTrue
<1>8. /\ panelIface' \in Paths \cup {NoPath} /\ DOMAIN mapPrev' = Paths /\ DOMAIN mapRate' = Paths
      /\ \A i \in Paths : mapPrev'[i].of = i
  BY <1>1 DEF RatesInv, panelVarsOfRate, mapVars
<1> QED
  BY <1>2, <1>4, <1>5, <1>7, <1>8 DEF RatesInv

\* A tracker takes a mark and a rate: the world stands still.
LEMMA TrackerStep ==
    ASSUME RatesInv, UNCHANGED worldVars,
           panelIface' \in Paths \cup {NoPath},
           DOMAIN mapPrev' = Paths, DOMAIN mapRate' = Paths,
           MarkIsTrue(panelPrev'), Honest(panelRate'),
           \A i \in Paths : MarkIsTrue(mapPrev'[i]) /\ mapPrev'[i].of = i /\ Honest(mapRate'[i])
    PROVE  RatesInv'
BY DEF RatesInv, RatesAreTrue, MarkIsTrue, Honest, worldVars, clockVars

LEMMA SamplingStep ==
    ASSUME RatesInv, NewTrackers \/ Engine \/ \E i \in Paths : SampleMap(i)
    PROVE  RatesInv'
<1>1. CASE NewTrackers
  <2>1. /\ \A i \in Paths : mapPrev'[i] = Never(i) /\ mapRate'[i] = NoRate(i)
        /\ DOMAIN mapPrev' = Paths /\ DOMAIN mapRate' = Paths
        /\ UNCHANGED <<worldVars, panelVarsOfRate>>
    BY <1>1 DEF NewTrackers
  <2>2. \A i \in Paths : MarkIsTrue(mapPrev'[i]) /\ mapPrev'[i].of = i /\ Honest(mapRate'[i])
    BY <2>1, NeverIsTrue
  <2> QED
    BY <2>1, <2>2, TrackerStep DEF RatesInv, RatesAreTrue, panelVarsOfRate
<1>2. ASSUME NEW i \in Paths, SampleMap(i)
      PROVE  RatesInv'
  <2>1. /\ mapPrev' = [mapPrev EXCEPT ![i] = Mark(i)]
        /\ \/ mapRate' = mapRate
           \/ /\ mapRate' = [mapRate EXCEPT ![i] = Sample(mapPrev[i], Mark(i))]
              /\ mapPrev[i].at # 0 /\ second > mapPrev[i].at
        /\ UNCHANGED <<worldVars, panelVarsOfRate>>
    BY <1>2 DEF SampleMap
  <2>2. \A j \in Paths : /\ mapPrev'[j] = IF j = i THEN Mark(i) ELSE mapPrev[j]
                         /\ mapRate'[j] = mapRate[j]
                               \/ /\ j = i /\ mapRate'[j] = Sample(mapPrev[i], Mark(i))
                                  /\ mapPrev[i].at # 0 /\ second > mapPrev[i].at
    BY <2>1 DEF RatesInv
  <2>3. MarkIsTrue(mapPrev[i])
    BY DEF RatesInv
  <2>4. \A j \in Paths : MarkIsTrue(mapPrev'[j]) /\ mapPrev'[j].of = j
    BY <2>2, NewMark DEF RatesInv
  <2>5. \A j \in Paths : Honest(mapRate'[j])
    BY <2>2, <2>3, NewSample DEF RatesInv, RatesAreTrue
  <2>6. DOMAIN mapPrev' = Paths /\ DOMAIN mapRate' = Paths
    BY <2>1 DEF RatesInv
  <2> QED
    BY <2>1, <2>4, <2>5, <2>6, TrackerStep DEF RatesInv, RatesAreTrue, panelVarsOfRate
<1>3. CASE Engine
  <2>1. /\ UNCHANGED <<worldVars, mapVars>>
        /\ panelIface' \in Paths \cup {NoPath}
        /\ UNCHANGED <<panelPrev, panelRate>> \/ SamplePanel
    BY <1>3 DEF Engine, StartEngine, StopEngine, EngineTicks, LooksUp, RatesInv, panelVarsOfRate
  <2>2. MarkIsTrue(panelPrev') /\ Honest(panelRate')
    <3>1. CASE UNCHANGED <<panelPrev, panelRate>>
      BY <3>1 DEF RatesInv, RatesAreTrue
    <3>2. CASE /\ panelIface # NoPath
               /\ panelPrev' \in {panelPrev, Mark(panelIface)}
               /\ \/ panelRate' = panelRate
                  \/ /\ panelRate' = Sample(panelPrev, Mark(panelIface))
                     /\ panelPrev.at # 0 /\ second > panelPrev.at
      <4>1. panelIface \in Paths /\ MarkIsTrue(panelPrev) /\ Honest(panelRate)
        BY <3>2 DEF RatesInv, RatesAreTrue
      <4>2. MarkIsTrue(Mark(panelIface)) /\ Honest(panelRate')
        BY <3>2, <4>1, NewMark, NewSample
      <4> QED
        BY <3>2, <4>1, <4>2
    <3> QED
      BY <2>1, <3>1, <3>2 DEF SamplePanel, EntryUnreadable
  <2>3. \A i \in Paths : MarkIsTrue(mapPrev'[i]) /\ mapPrev'[i].of = i /\ Honest(mapRate'[i])
    BY <2>1 DEF RatesInv, RatesAreTrue, mapVars
  <2>4. DOMAIN mapPrev' = Paths /\ DOMAIN mapRate' = Paths
    BY <2>1 DEF RatesInv, mapVars
  <2> QED
    BY <2>1, <2>2, <2>3, <2>4, TrackerStep
<1> QED
  BY <1>1, <1>2, <1>3

LEMMA RatesInvStep == RatesInv /\ [Next]_partsVars => RatesInv'
<1> SUFFICES ASSUME RatesInv, [Next]_partsVars
             PROVE  RatesInv'
  OBVIOUS
<1>1. CASE UNCHANGED <<worldVars, panelVarsOfRate, mapVars>>
  <2>1. UNCHANGED worldVars /\ UNCHANGED <<panelIface, panelPrev, panelRate, mapPrev, mapRate>>
    BY <1>1 DEF panelVarsOfRate, mapVars
  <2>2. /\ MarkIsTrue(panelPrev) /\ Honest(panelRate)
        /\ \A i \in Paths : MarkIsTrue(mapPrev[i]) /\ mapPrev[i].of = i /\ Honest(mapRate[i])
        /\ panelIface \in Paths \cup {NoPath} /\ DOMAIN mapPrev = Paths /\ DOMAIN mapRate = Paths
    BY DEF RatesInv, RatesAreTrue
  <2>3. /\ MarkIsTrue(panelPrev') /\ Honest(panelRate')
        /\ \A i \in Paths : /\ MarkIsTrue(mapPrev'[i]) /\ mapPrev'[i].of = i
                            /\ Honest(mapRate'[i])
    BY <2>1, <2>2
  <2> QED
    BY <2>1, <2>2, <2>3, TrackerStep
<1>2. ASSUME UNCHANGED statusVars \/ ShowLatency \/ \E p \in Pings : PingStep(p)
      PROVE  RatesInv'
  BY <1>1, <1>2 DEF ShowLatency, PingStep, PingDropped, PingBegins, PingEnds, statusVars, worldVars,
                    clockVars, panelVarsOfRate, mapVars
<1> QED
  BY <1>2, WorldStep, SamplingStep, PartSteps DEF MapNext, RatesNext, PingsNext

\* All pings but the newest are cancelled: one that begins is the newest.
PingsInv ==
    /\ Newest \in 0..MaxPings /\ InPool = 1..Newest
    /\ DOMAIN ping = Pings /\ DOMAIN begunWhen = Pings
    /\ \A p \in 1..Newest : p = Newest \/ p \in pingCancelled
    /\ \A p \in Pings : ping[p] = "running" => begunWhen[p] = p
    /\ results \in Seq(Pings)
    /\ \A i \in DOMAIN results : begunWhen[results[i]] = results[i]
    /\ latency = NoPing => newestShown = NoPing
    /\ latency # NoPing => latency \in Pings /\ begunWhen[latency] = latency
    /\ newestShown \in Nat

LEMMA NewestOf ==
    ASSUME NEW n \in Nat, NEW S, S = 1..n
    PROVE  (IF S = {} THEN NoPing ELSE CHOOSE p \in S : \A q \in S : q <= p) = n
<1>1. CASE n = 0
  BY <1>1 DEF NoPing
<1>2. CASE n > 0
  <2>1. n \in S /\ \A q \in S : q <= n
    BY <1>2
  <2>2. \A p \in S : (\A q \in S : q <= p) => p = n
    BY <2>1
  <2> QED
    BY <2>1, <2>2
<1> QED
  BY <1>1, <1>2

LEMMA SubmitStep ==
    ASSUME PingsInv, SubmitPing
    PROVE  PingsInv'
<1> USE StatusAssumption
<1>1. /\ Newest < MaxPings /\ ping' = [ping EXCEPT ![Newest + 1] = "queued"]
      /\ pingCancelled' = pingCancelled \cup ({Newest} \ {NoPing})
      /\ UNCHANGED <<results, latency, begunWhen, newestShown>>
      /\ Newest \in Nat /\ InPool = 1..Newest /\ DOMAIN ping = Pings
  BY DEF SubmitPing, PingsInv
<1> DEFINE n == Newest
<1>2. n + 1 \in Pings /\ n + 1 \in Nat
  BY <1>1 DEF Pings
<1>3. \A p \in Pings : ping'[p] = IF p = n + 1 THEN "queued" ELSE ping[p]
  BY <1>1
<1>4. InPool' = InPool \cup {n + 1}
  BY <1>1, <1>2, <1>3 DEF InPool
<1>5. InPool' = 1..(n + 1)
  BY <1>1, <1>4
<1>6. Newest' = n + 1
  <2> HIDE DEF n
  <2>1. Newest' = IF InPool' = {} THEN NoPing ELSE CHOOSE p \in InPool' : \A q \in InPool' : q <= p
    BY DEF Newest
  <2>2. n + 1 \in InPool' /\ \A q \in InPool' : q <= n + 1
    BY <1>2, <1>5 DEF Pings
  <2>3. \A p \in InPool' : (\A q \in InPool' : q <= p) => p = n + 1
    BY <1>2, <1>5, <2>2
  <2>4. (CHOOSE p \in InPool' : \A q \in InPool' : q <= p) = n + 1
    BY <2>2, <2>3
  <2> QED
    BY <2>1, <2>2, <2>4
<1>7. \A p \in 1..Newest' : p = Newest' \/ p \in pingCancelled'
  <2>1. \A p \in 1..n : p = n \/ p \in pingCancelled
    BY DEF PingsInv
  <2> HIDE DEF n
  <2>2. \A p \in 1..(n + 1) : p = n + 1 \/ p = n \/ p \in pingCancelled
    BY <1>1, <2>1 DEF n
  <2>3. \A p \in 1..(n + 1) : p # NoPing
    BY DEF NoPing
  <2> QED
    BY <1>1, <1>6, <2>2, <2>3 DEF n
<1>8. \A p \in Pings : ping'[p] = "running" => begunWhen'[p] = p
  BY <1>1, <1>3 DEF PingsInv
<1> HIDE DEF n
<1> QED
  BY <1>1, <1>2, <1>5, <1>6, <1>7, <1>8 DEF PingsInv, Pings

LEMMA PingsInvStep == PingsInv /\ [Next]_partsVars => PingsInv'
<1> SUFFICES ASSUME PingsInv, [Next]_partsVars
             PROVE  PingsInv'
  OBVIOUS
<1>1. CASE UNCHANGED pingVars
  BY <1>1 DEF pingVars, PingsInv, InPool, Newest
<1>2. ASSUME NEW p \in Pings, ping[p] # "new", NEW st \in {"running", "over"},
             ping' = [ping EXCEPT ![p] = st]
      PROVE  /\ InPool' = InPool /\ Newest' = Newest /\ DOMAIN ping' = Pings
             /\ \A q \in Pings : ping'[q] = IF q = p THEN st ELSE ping[q]
  <2>1. DOMAIN ping' = Pings /\ \A q \in Pings : ping'[q] = IF q = p THEN st ELSE ping[q]
    BY <1>2 DEF PingsInv
  <2>2. InPool' = InPool
    BY <1>2, <2>1 DEF InPool
  <2> QED
    BY <2>1, <2>2 DEF Newest
<1>3. ASSUME NEW p \in Pings, PingDropped(p)
      PROVE  PingsInv'
  BY <1>2, <1>3 DEF PingDropped, PingsInv
<1>4. ASSUME NEW p \in Pings, PingBegins(p)
      PROVE  PingsInv'
  <2>1. /\ ping[p] = "queued" /\ p \notin pingCancelled
        /\ ping' = [ping EXCEPT ![p] = "running"]
        /\ begunWhen' = [begunWhen EXCEPT ![p] = Newest]
        /\ UNCHANGED <<pingCancelled, results, latency, newestShown>>
    BY <1>4 DEF PingBegins
  <2>2. p = Newest
    BY <2>1 DEF PingsInv, InPool
  <2>3. /\ DOMAIN begunWhen' = Pings /\ begunWhen'[p] = p
        /\ \A q \in Pings : q # p => begunWhen'[q] = begunWhen[q]
    BY <2>1, <2>2 DEF PingsInv
  <2>4. \A i \in DOMAIN results : results[i] \in Pings
    BY DEF PingsInv
  <2> QED
    BY <1>2, <2>1, <2>3, <2>4 DEF PingsInv
<1>5. ASSUME NEW p \in Pings, PingEnds(p)
      PROVE  PingsInv'
  <2>1. /\ ping[p] = "running" /\ ping' = [ping EXCEPT ![p] = "over"]
        /\ results' = Append(results, p)
        /\ UNCHANGED <<pingCancelled, latency, begunWhen, newestShown>>
    BY <1>5 DEF PingEnds
  <2>2. results' \in Seq(Pings) /\ \A i \in DOMAIN results' : begunWhen[results'[i]] = results'[i]
    BY <2>1 DEF PingsInv
  <2> QED
    BY <1>2, <2>1, <2>2 DEF PingsInv
<1>6. CASE ShowLatency
  <2>1. /\ results # <<>> /\ results' = Tail(results) /\ latency' = Head(results)
        /\ newestShown' = IF Head(results) > newestShown THEN Head(results) ELSE newestShown
        /\ UNCHANGED <<ping, pingCancelled, begunWhen>>
    BY <1>6 DEF ShowLatency
  <2>2. /\ Head(results) \in Pings /\ begunWhen[Head(results)] = Head(results)
        /\ Tail(results) \in Seq(Pings)
        /\ \A i \in DOMAIN Tail(results) : begunWhen[Tail(results)[i]] = Tail(results)[i]
    BY <2>1 DEF PingsInv
  <2>3. Head(results) \in Nat /\ Head(results) # NoPing
    BY <2>2, StatusAssumption DEF Pings, NoPing
  <2>4. InPool' = InPool /\ Newest' = Newest
    BY <2>1 DEF InPool, Newest
  <2> QED
    BY <2>1, <2>2, <2>3, <2>4 DEF PingsInv
<1>7. CASE Engine
  BY <1>1, <1>7, SubmitStep DEF Engine, StartEngine, StopEngine, EngineTicks
<1>8. CASE World \/ NewTrackers \/ (\E i \in Paths : SampleMap(i)) \/ UNCHANGED statusVars
  BY <1>1, <1>8 DEF World, SecondPasses, ClockIsSet, RouteMoves, CounterRestarts, Carries, NewTrackers,
                    SampleMap, statusVars, pingVars
<1> QED
  BY <1>3, <1>4, <1>5, <1>6, <1>7, <1>8, PartSteps DEF MapNext, RatesNext, PingsNext, PingStep

\* Rates on the panel and the map are the traffic of one interface between two samples,
\* over the time between them unless the clock was set: for any course of counters,
\* clock, default route and failures.
THEOREM RatesAreTrueAlways == Spec => []RatesAreTrue
<1>1. Init => RatesInv
  BY StatusAssumption DEF Init, StatusInit, RatesInv, RatesAreTrue, Honest, MarkIsTrue, Never, NoRate
<1>2. RatesInv => RatesAreTrue
  BY DEF RatesInv
<1> QED
  BY <1>1, <1>2, RatesInvStep, PTL DEF Spec

\* The latency on the panel only goes back to a ping that was under way, for any number
\* of pings, cancelled or not, that end in any order.
THEOREM PingsInOrderAlways == Spec => []PingsInOrder
<1>1. Init => PingsInv
  <2> SUFFICES ASSUME Init
               PROVE  PingsInv
    OBVIOUS
  <2> USE StatusAssumption DEF Init, StatusInit
  <2>1. InPool = 1..0
    BY DEF InPool
  <2>2. Newest = 0
    BY <2>1, NewestOf DEF Newest
  <2> QED
    BY <2>1, <2>2 DEF PingsInv, NoPing
<1>2. PingsInv => PingsInOrder
  <2> SUFFICES ASSUME PingsInv, latency < newestShown
               PROVE  begunWhen[latency] < newestShown
    BY DEF PingsInOrder
  <2>1. latency # NoPing
    BY DEF PingsInv, NoPing
  <2> QED
    BY <2>1 DEF PingsInv
<1> QED
  BY <1>1, <1>2, PingsInvStep, PTL DEF Spec

-------------------------------------------------------------------------------
(* What the program knows of the firewall. *)

\* The sets hold rules of the kind they are for, and a removal is under way for
\* rules only.
WfpTypeOK ==
    /\ firewall \subseteq Rules \cup Foreign
    /\ kept \subseteq Rules /\ orphans \subseteq Rules
    /\ listRows \subseteq Rules
    /\ taken \subseteq Foreign
    /\ display \in [Rules -> Names \cup {NoRule}]
    /\ job \in [todo : SUBSET Rules, retried : Rules \cup {NoRule},
                then : {"idle", "none", "refresh", "close"}]

\* A key that was never used is nowhere.
UnusedIsNowhere ==
    \A r \in Rules : display[r] = NoRule => r \notin firewall \cup kept \cup orphans

\* A removal works off rules of the list; a rule is tried by its display name
\* only after something went wrong.
JobOfList ==
    /\ job.todo \subseteq kept
    /\ job.retried # NoRule => job.retried \in job.todo /\ (failed \/ meddled)

WfpInv ==
    /\ WfpTypeOK
    /\ UnusedIsNowhere
    /\ JobOfList
    /\ kept \cap orphans = {}
    /\ FirewallIsKnown

LEMMA WfpInvInit == WfpInit => WfpInv
<1> SUFFICES ASSUME WfpInit
             PROVE  WfpInv
  OBVIOUS
<1> USE WfpAssumption DEF WfpInit, NoJob
<1>1. WfpTypeOK
  BY DEF WfpTypeOK
<1>2. UnusedIsNowhere /\ kept \cap orphans = {}
  BY DEF UnusedIsNowhere
<1>3. JobOfList
  BY DEF JobOfList
<1>4. FirewallIsKnown
  BY DEF FirewallIsKnown, ListIsFirewall, LostForAnother
<1> QED
  BY <1>1, <1>2, <1>3, <1>4 DEF WfpInv

\* Steps that change neither the two lists nor what they are compared with.
LEMMA QuietStep ==
    ASSUME WfpInv, WfpTypeOK', JobOfList',
           UNCHANGED <<firewall, kept, failed, meddled, taken, orphans>>,
           \A r \in Rules : display[r] # NoRule => display'[r] = display[r]
    PROVE  WfpInv'
<1> USE DEF WfpInv
<1>1. UnusedIsNowhere'
  BY DEF UnusedIsNowhere
<1>2. \A r \in Rules \cap firewall : display'[r] = display[r]
  BY DEF UnusedIsNowhere
<1>3. LostForAnother'
  BY <1>2 DEF FirewallIsKnown, LostForAnother
<1>4. ListIsFirewall'
  BY DEF FirewallIsKnown, ListIsFirewall
<1> QED
  BY <1>1, <1>3, <1>4 DEF FirewallIsKnown

\* A new rule enters both lists at once; its key was nowhere before.
LEMMA AddRuleStep ==
    ASSUME WfpInv, NEW r \in Rules, NEW n \in Names, AddRule(r, n)
    PROVE  WfpInv'
<1> USE WfpAssumption DEF WfpInv, AddRule, wfpHistory, WfpTypeOK
<1>1. r \notin firewall \cup kept \cup orphans
  BY DEF UnusedIsNowhere
<1>2. WfpTypeOK'
  OBVIOUS
<1>3. UnusedIsNowhere' /\ JobOfList'
  BY DEF UnusedIsNowhere, JobOfList
<1>4. (kept \cap orphans = {})'
  BY <1>1
<1>5. ListIsFirewall'
  BY DEF FirewallIsKnown, ListIsFirewall
<1>6. LostForAnother'
  BY <1>1 DEF FirewallIsKnown, LostForAnother
<1> QED
  BY <1>2, <1>3, <1>4, <1>5, <1>6 DEF FirewallIsKnown

\* The removal of a rule goes on with the next key: the rule may have left the
\* list, and the firewall may have lost other rules than those of this program.
LEMMA ProceedKeepsJob ==
    ASSUME WfpTypeOK, JobOfList, NEW r \in Rules, Proceed(r),
           kept' = kept \/ kept' = kept \ {r}
    PROVE  JobOfList' /\ job' \in [todo : SUBSET Rules, retried : Rules \cup {NoRule},
                                  then : {"idle", "none", "refresh", "close"}]
BY WfpAssumption DEF WfpTypeOK, JobOfList, Proceed

\* A deletion by the rule's own name takes it from both lists.
LEMMA DeleteByOwnNameStep ==
    ASSUME WfpInv, NEW r \in Rules, DeleteByOwnName(r)
    PROVE  WfpInv'
<1> USE WfpAssumption DEF WfpInv, DeleteByOwnName, Forget, wfpHistory
<1>1. r \in kept /\ r \notin orphans
  BY DEF JobOfList
<1>2. JobOfList' /\ WfpTypeOK'
  BY ProceedKeepsJob DEF WfpTypeOK
<1>3. UnusedIsNowhere' /\ (kept \cap orphans = {})'
  BY DEF UnusedIsNowhere
<1>4. ListIsFirewall'
  BY <1>1 DEF FirewallIsKnown, ListIsFirewall
<1>5. LostForAnother'
  BY DEF FirewallIsKnown, LostForAnother
<1> QED
  BY <1>2, <1>3, <1>4, <1>5 DEF FirewallIsKnown

\* If it fails though nothing went wrong before, it has gone wrong now: the rule
\* is in the list, and so it is in the firewall.
LEMMA DeleteByOwnNameFailsStep ==
    ASSUME WfpInv, NEW r \in Rules, DeleteByOwnNameFails(r)
    PROVE  WfpInv'
<1> USE WfpAssumption DEF WfpInv, DeleteByOwnNameFails
<1>1. r \in kept /\ r \in job.todo
  BY DEF JobOfList
<1>2. failed' \/ meddled'
  BY <1>1 DEF FirewallIsKnown, ListIsFirewall
<1>3. WfpTypeOK'
  BY DEF WfpTypeOK
<1>4. JobOfList'
  BY <1>1, <1>2 DEF JobOfList, WfpTypeOK
<1>5. UnusedIsNowhere' /\ LostForAnother'
  BY DEF UnusedIsNowhere, FirewallIsKnown, LostForAnother
<1>6. ListIsFirewall'
  BY <1>2 DEF ListIsFirewall
<1> QED
  BY <1>3, <1>4, <1>5, <1>6 DEF FirewallIsKnown

\* The second try takes rules of others, and leaves the own one, if it is still
\* there, for the reason that LostForAnother names; or it leaves no rule at all.
LEMMA DeleteByDisplayNameStep ==
    ASSUME WfpInv, NEW r \in Rules, DeleteByDisplayName(r)
    PROVE  WfpInv'
<1> USE WfpAssumption DEF WfpInv, DeleteByDisplayName, Forget
<1>1. failed \/ meddled
  BY DEF JobOfList
<1>2. /\ \A f \in Foreign \cap firewall : RuleName[f] = display[r] => f \in Named(r)
      /\ \/ Named(r) = firewall
         \/ Named(r) \subseteq Foreign /\ \A f \in Named(r) : RuleName[f] = display[r]
  BY DEF Named
<1>3. JobOfList' /\ WfpTypeOK'
  BY <1>2, ProceedKeepsJob DEF WfpTypeOK
<1>4. UnusedIsNowhere' /\ (kept \cap orphans = {})'
  BY DEF UnusedIsNowhere
<1>5. ListIsFirewall'
  BY <1>1 DEF ListIsFirewall
<1>6. LostForAnother'
  <2> SUFFICES ASSUME NEW q \in (Rules \cap firewall)' \ (kept' \cup orphans')
               PROVE  \E f \in taken' : RuleName[f] = display[q]
    BY DEF LostForAnother
  <2>1. CASE q = r
    <3>1. Named(r) \subseteq Foreign /\ \A f \in Named(r) : RuleName[f] = display[r]
      BY <1>2
    <3> QED
      BY <2>1, <3>1
  <2>2. CASE q # r
    BY <2>2 DEF FirewallIsKnown, LostForAnother
  <2> QED
    BY <2>1, <2>2
<1> QED
  BY <1>3, <1>4, <1>5, <1>6 DEF FirewallIsKnown

LEMMA DeleteByDisplayNameFailsStep ==
    ASSUME WfpInv, NEW r \in Rules, DeleteByDisplayNameFails(r)
    PROVE  WfpInv'
<1> USE WfpAssumption DEF WfpInv, DeleteByDisplayNameFails
<1>1. failed \/ meddled
  BY DEF JobOfList
<1>2. JobOfList' /\ WfpTypeOK'
  BY <1>1, ProceedKeepsJob DEF WfpTypeOK
<1>3. UnusedIsNowhere' /\ LostForAnother'
  BY DEF UnusedIsNowhere, FirewallIsKnown, LostForAnother
<1>4. ListIsFirewall'
  BY <1>1 DEF ListIsFirewall
<1> QED
  BY <1>2, <1>3, <1>4 DEF FirewallIsKnown

\* Other programs change the firewall; a rule of this one is taken by them only
\* with `meddled` set.
LEMMA OthersStep ==
    ASSUME WfpInv, NEW f \in Rules \cup Foreign,
           OthersRemove(f) \/ (f \in Foreign /\ OthersAdd(f))
    PROVE  WfpInv'
<1> USE WfpAssumption DEF WfpInv, OthersRemove, OthersAdd, wfpHistory
<1>1. WfpTypeOK' /\ UnusedIsNowhere'
  BY DEF WfpTypeOK, UnusedIsNowhere
<1>2. JobOfList'
  BY DEF JobOfList
<1>3. ListIsFirewall'
  BY DEF FirewallIsKnown, ListIsFirewall
<1>4. LostForAnother'
  BY DEF FirewallIsKnown, LostForAnother
<1> QED
  BY <1>1, <1>2, <1>3, <1>4 DEF FirewallIsKnown

\* What is installed when the process ends is an orphan of the next.
LEMMA ProcessEndsStep == WfpInv /\ ProcessEnds => WfpInv'
<1> SUFFICES ASSUME WfpInv, ProcessEnds
             PROVE  WfpInv'
  OBVIOUS
<1> USE WfpAssumption DEF WfpInv, ProcessEnds
<1>1. WfpTypeOK'
  BY DEF WfpTypeOK, NoJob
<1>2. UnusedIsNowhere' /\ (kept \cap orphans = {})'
  BY DEF UnusedIsNowhere
<1>3. JobOfList'
  BY DEF JobOfList, NoJob
<1>4. ListIsFirewall' /\ LostForAnother'
  BY DEF FirewallIsKnown, ListIsFirewall, LostForAnother
<1> QED
  BY <1>1, <1>2, <1>3, <1>4 DEF FirewallIsKnown

LEMMA WfpInvStep == WfpInv /\ [WfpNext]_wfpVars => WfpInv'
<1> SUFFICES ASSUME WfpInv, [WfpNext]_wfpVars
             PROVE  WfpInv'
  OBVIOUS
<1> USE WfpAssumption DEF WfpInv, wfpHistory
<1>1. CASE OpenEngine \/ CloseEngine \/ RefreshTable \/ UNCHANGED wfpVars
  <2>1. WfpTypeOK' /\ JobOfList'
    BY <1>1 DEF OpenEngine, CloseEngine, RefreshTable, wfpVars, WfpTypeOK, JobOfList
  <2> QED
    BY <1>1, <2>1, QuietStep DEF OpenEngine, CloseEngine, RefreshTable, wfpVars
<1>2. ASSUME NEW keys \in SUBSET Rules, NEW then \in {"none", "refresh"}, Removes(keys, then)
      PROVE  WfpInv'
  <2>1. WfpTypeOK' /\ JobOfList'
    BY <1>2 DEF Removes, Removing, WfpTypeOK, JobOfList
  <2> QED
    BY <1>2, <2>1, QuietStep DEF Removes
<1>3. CASE CleanUp
  <2>1. WfpTypeOK' /\ JobOfList'
    BY <1>3 DEF CleanUp, Removing, WfpTypeOK, JobOfList
  <2> QED
    BY <1>3, <2>1, QuietStep DEF CleanUp
<1>4. CASE RemovalEnds
  <2>1. WfpTypeOK' /\ JobOfList'
    BY <1>4 DEF RemovalEnds, NoJob, WfpTypeOK, JobOfList
  <2> QED
    BY <1>4, <2>1, QuietStep DEF RemovalEnds
<1>5. ASSUME NEW r \in Rules, NEW n \in Names, AddFails(r, n)
      PROVE  WfpInv'
  <2>1. WfpTypeOK' /\ JobOfList'
    BY <1>5 DEF AddFails, WfpTypeOK, JobOfList
  <2>2. \A q \in Rules : display[q] # NoRule => display'[q] = display[q]
    BY <1>5 DEF AddFails, WfpTypeOK
  <2> QED
    BY <1>5, <2>1, <2>2, QuietStep DEF AddFails
<1>6. CASE ClearAll
  BY <1>6, <1>2 DEF ClearAll, WfpTypeOK
<1>7. ASSUME NEW keys \in SUBSET listRows, RemoveSelected(keys)
      PROVE  WfpInv'
  BY <1>7, <1>2 DEF RemoveSelected, WfpTypeOK
<1>8. ASSUME NEW n \in Names, RemoveByName(n)
      PROVE  WfpInv'
  <2>1. {r \in kept : display[r] = n} \in SUBSET Rules
    BY DEF WfpTypeOK
  <2> QED
    BY <1>8, <2>1, <1>2 DEF RemoveByName
<1> QED
  BY <1>1, <1>3, <1>4, <1>5, <1>6, <1>7, <1>8, AddRuleStep, DeleteByOwnNameStep,
     DeleteByOwnNameFailsStep, DeleteByDisplayNameStep, DeleteByDisplayNameFailsStep,
     OthersStep, ProcessEndsStep
     DEF WfpNext

\* The list of the process is the firewall as long as nothing fails and nobody
\* interferes; whatever else is enforced was left by an ended process or lost for
\* another program's rule of the same name: for any rules, names and other programs.
THEOREM FirewallIsKnownAlways == Spec => []FirewallIsKnown
<1>1. Init => WfpInv
  BY WfpInvInit DEF Init
<1>2. WfpInv /\ [Next]_partsVars => WfpInv'
  BY WfpInvStep, PartSteps
<1>3. WfpInv => FirewallIsKnown
  BY DEF WfpInv
<1> QED
  BY <1>1, <1>2, <1>3, PTL DEF Spec

-------------------------------------------------------------------------------
(* Numbers of a set: the least one, which a proof by induction looks at as the
   least of the counterexamples, and the greatest. *)

LessThan == {p \in Nat \X Nat : p[1] < p[2]}

LEMMA Least ==
    ASSUME NEW S, S \subseteq Nat, S # {}
    PROVE  \E m \in S : \A k \in S : m <= k
<1>1. IsWellFoundedOn(LessThan, Nat)
  BY NatLessThanWellFounded DEF OpToRel, LessThan
<1>2. PICK m \in S : \A k \in S : <<k, m>> \notin LessThan
  BY <1>1, WFMin
<1>3. \A k \in S : ~(k < m)
  BY <1>2 DEF LessThan
<1> QED
  BY <1>3

LEMMA Greatest ==
    ASSUME NEW n \in Nat, NEW S, S \subseteq 0..n, S # {}
    PROVE  \E m \in S : \A k \in S : k <= m
<1> DEFINE T == {n - k : k \in S}
<1>1. T \subseteq Nat /\ T # {}
  <2>1. \A k \in S : n - k \in Nat
    OBVIOUS
  <2>2. \A x \in T : x \in Nat
    BY <2>1
  <2>3. PICK k \in S : TRUE
    OBVIOUS
  <2> QED
    BY <2>2, <2>3
<1> HIDE DEF T
<1>2. PICK d \in T : \A e \in T : d <= e
  BY <1>1, Least
<1>3. PICK m \in S : d = n - m
  BY <1>2 DEF T
<1>4. \A k \in S : n - m <= n - k
  BY <1>2, <1>3 DEF T
<1> QED
  BY <1>3, <1>4

-------------------------------------------------------------------------------
(* The highlights of the route table. *)

LEMMA LastRowIsOne ==
    ASSUME NEW table \in Tables, NEW i \in DOMAIN table
    PROVE  LastRow(table, table[i]) \in DOMAIN table /\ table[LastRow(table, table[i])] = table[i]
<1> DEFINE S == {j \in DOMAIN table : table[j] = table[i]}
<1>1. PICK n \in 0..MaxRows : table \in [1..n -> RowKeys]
  BY DEF Tables
<1>2. S \subseteq 0..n /\ S # {} /\ n \in Nat
  BY <1>1, RouteTableModelAssumption
<1>3. \E m \in S : \A k \in S : k <= m
  <2> HIDE DEF S
  <2> QED
    BY <1>2, Greatest
<1>4. \E m \in S : \A k \in S : m >= k
  BY <1>2, <1>3
<1>5. Max(S) \in S
  BY <1>4 DEF Max
<1> QED
  BY <1>5 DEF LastRow

LightInv ==
    /\ rows \in Tables
    /\ DOMAIN addedAt = Range(rows)
    /\ HighlightsFollowRoutes

\* All rows of a key are lit alike; the last of them lends its highlight to the
\* rows that the key has after a refresh.
LEMMA KeptIsShown ==
    ASSUME LightInv, NEW k \in Range(rows)
    PROVE  /\ \A h \in KeptHighlight(k) : \E j \in DOMAIN rows :
                  rows[j] = k /\ j \in DOMAIN highlight /\ h = highlight[j]
           /\ (k \notin faded \/ k \in DefaultKeys) => KeptHighlight(k) # {}
<1>1. \A h \in KeptHighlight(k) : \E j \in DOMAIN rows :
          rows[j] = k /\ j \in DOMAIN highlight /\ h = highlight[j]
  BY DEF KeptHighlight, LightInv, HighlightsFollowRoutes
<1>2. ASSUME k \notin faded \/ k \in DefaultKeys
      PROVE  KeptHighlight(k) # {}
  <2> DEFINE S == {j \in DOMAIN highlight : rows[j] = k}
  <2>1. PICK i \in DOMAIN rows : rows[i] = k
    BY DEF Range
  <2>2. i \in S
    BY <1>2, <2>1 DEF LightInv, HighlightsFollowRoutes
  <2>3. PICK n \in 0..MaxRows : rows \in [1..n -> RowKeys]
    BY DEF Tables, LightInv
  <2>4. S \subseteq 0..n /\ n \in Nat
    BY <2>3, RouteTableModelAssumption DEF LightInv, HighlightsFollowRoutes
  <2>5. PICK m \in S : \A l \in S : l <= m
    <3> HIDE DEF S
    <3> QED
      BY <2>2, <2>4, Greatest
  <2> QED
    BY <2>5 DEF KeptHighlight
<1> QED
  BY <1>1, <1>2

LEMMA SetRoutesStep ==
    ASSUME LightInv, NEW table \in Tables, SetRoutes(table)
    PROVE  LightInv'
<1>1. /\ rows' = table /\ rowTime' = rowTime
      /\ lookup' = [k \in Range(table) |-> LastRow(table, k)]
      /\ highlight' = HighlightsOf(table)
      /\ addedAt' = [k \in Range(table) |-> IF k \in Range(rows) THEN addedAt[k] ELSE rowTime]
      /\ faded' = faded \cap (Range(table) \cap Range(rows))
  BY DEF SetRoutes
<1>2. LookupFinds'
  BY <1>1, LastRowIsOne DEF LookupFinds, Range
<1> DEFINE lends(i) == table[i] \in Range(rows) /\ KeptHighlight(table[i]) # {}
           lit == {i \in DOMAIN table : \/ table[i] \notin Range(rows)
                                        \/ lends(i) \/ table[i] \in DefaultKeys}
<1>3. highlight' = [i \in lit |-> IF table[i] \notin Range(rows)
                                  THEN [kind |-> "added", at |-> rowTime]
                                  ELSE IF lends(i) THEN CHOOSE h \in KeptHighlight(table[i]) : TRUE
                                  ELSE [kind |-> "default", at |-> rowTime]]
  BY <1>1 DEF HighlightsOf
<1>4. DOMAIN highlight' \subseteq DOMAIN rows'
  BY <1>1, <1>3
<1>5. ASSUME NEW i \in DOMAIN table
      PROVE  IF table[i] \notin faded'
             THEN i \in DOMAIN highlight'
                  /\ highlight'[i] = [kind |-> "added", at |-> addedAt'[table[i]]]
             ELSE IF table[i] \in DefaultKeys
             THEN i \in DOMAIN highlight' /\ highlight'[i].kind = "default"
             ELSE i \notin DOMAIN highlight'
  <2> DEFINE k == table[i]
  <2>1. k \in Range(table)
    BY DEF Range
  <2>2. CASE k \notin Range(rows)
    <3>1. k \notin faded' /\ addedAt'[k] = rowTime
      BY <1>1, <2>1, <2>2
    <3>2. i \in lit
      BY <2>2
    <3> QED
      BY <1>3, <2>2, <3>1, <3>2
  <2>3. CASE k \in Range(rows)
    <3> DEFINE h == CHOOSE h \in KeptHighlight(k) : TRUE
    <3>1. addedAt'[k] = addedAt[k] /\ (k \in faded' <=> k \in faded)
      BY <1>1, <2>1, <2>3
    <3>2. KeptHighlight(k) # {} =>
            /\ i \in DOMAIN highlight' /\ highlight'[i] = h
            /\ \E j \in DOMAIN rows : rows[j] = k /\ j \in DOMAIN highlight /\ h = highlight[j]
      <4>1. KeptHighlight(k) # {} => h \in KeptHighlight(k)
        OBVIOUS
      <4>2. \A g \in KeptHighlight(k) : \E j \in DOMAIN rows :
                rows[j] = k /\ j \in DOMAIN highlight /\ g = highlight[j]
        BY <2>3, KeptIsShown
      <4> QED
        BY <1>3, <2>3, <4>1, <4>2
    <3>3. CASE k \notin faded
      BY <2>3, <3>1, <3>2, <3>3, KeptIsShown DEF LightInv, HighlightsFollowRoutes
    <3>4. CASE k \in faded /\ k \in DefaultKeys
      BY <2>3, <3>1, <3>2, <3>4, KeptIsShown DEF LightInv, HighlightsFollowRoutes
    <3>5. CASE k \in faded /\ k \notin DefaultKeys
      <4>1. KeptHighlight(k) = {}
        BY <2>3, <3>5, KeptIsShown DEF LightInv, HighlightsFollowRoutes
      <4> QED
        BY <1>3, <2>3, <3>1, <3>5, <4>1
    <3> QED
      BY <3>3, <3>4, <3>5
  <2> QED
    BY <2>2, <2>3
<1> QED
  BY <1>1, <1>2, <1>4, <1>5 DEF LightInv, HighlightsFollowRoutes

LEMMA TickFadeStep ==
    ASSUME LightInv, TickFade
    PROVE  LightInv'
<1> DEFINE expired == {i \in DOMAIN highlight : /\ highlight[i].kind = "added"
                                                /\ rowTime - highlight[i].at > Duration}
<1>1. /\ UNCHANGED <<rows, lookup, rowTime, addedAt>>
      /\ highlight' = [i \in {j \in DOMAIN highlight : j \notin expired \/ rows[j] \in DefaultKeys} |->
                          IF i \in expired THEN [kind |-> "default", at |-> rowTime]
                          ELSE highlight[i]]
      /\ faded' = faded \cup {k \in Range(rows) : rowTime - addedAt[k] > Duration}
  BY DEF TickFade
<1>2. ASSUME NEW i \in DOMAIN rows
      PROVE  IF rows[i] \notin faded'
             THEN i \in DOMAIN highlight'
                  /\ highlight'[i] = [kind |-> "added", at |-> addedAt[rows[i]]]
             ELSE IF rows[i] \in DefaultKeys
             THEN i \in DOMAIN highlight' /\ highlight'[i].kind = "default"
             ELSE i \notin DOMAIN highlight'
  <2>1. rows[i] \in Range(rows)
    BY DEF Range
  <2>2. CASE rows[i] \notin faded
    <3>1. /\ i \in DOMAIN highlight
          /\ highlight[i] = [kind |-> "added", at |-> addedAt[rows[i]]]
      BY <2>2 DEF LightInv, HighlightsFollowRoutes
    <3>2. i \in expired <=> rows[i] \in faded'
      BY <1>1, <2>1, <2>2, <3>1
    <3> QED
      BY <1>1, <3>1, <3>2
  <2>3. CASE rows[i] \in faded
    <3>1. IF rows[i] \in DefaultKeys THEN i \in DOMAIN highlight /\ highlight[i].kind = "default"
          ELSE i \notin DOMAIN highlight
      BY <2>3 DEF LightInv, HighlightsFollowRoutes
    <3>2. i \notin expired /\ rows[i] \in faded'
      BY <1>1, <2>3, <3>1
    <3> QED
      BY <1>1, <3>1, <3>2
  <2> QED
    BY <2>2, <2>3
<1> HIDE DEF expired
<1> QED
  BY <1>1, <1>2 DEF LightInv, HighlightsFollowRoutes, LookupFinds

LEMMA LightInvStep == LightInv /\ [Next]_partsVars => LightInv'
<1> SUFFICES ASSUME LightInv, [Next]_partsVars
             PROVE  LightInv'
  OBVIOUS
<1>1. CASE TimePasses \/ UNCHANGED routeModelVars
  BY <1>1 DEF TimePasses, routeModelVars, LightInv, HighlightsFollowRoutes, LookupFinds
<1> QED
  BY <1>1, SetRoutesStep, TickFadeStep, PartSteps DEF RouteModelNext

\* The highlights move with their routes, fade once, and give way to those of default
\* routes: for any keys, any sequence of tables and any course of time.
THEOREM HighlightsFollowRoutesAlways == Spec => []HighlightsFollowRoutes
<1>1. Init => LightInv
  <2> SUFFICES ASSUME Init
               PROVE  LightInv
    OBVIOUS
  <2>1. <<>> \in [1..0 -> RowKeys] /\ 0 \in 0..MaxRows
    BY RouteTableModelAssumption
  <2>2. rows \in Tables /\ Range(rows) = {}
    BY <2>1 DEF Init, RouteModelInit, Tables, Range
  <2> QED
    BY <2>2 DEF Init, RouteModelInit, LightInv, HighlightsFollowRoutes, LookupFinds
<1>2. LightInv => HighlightsFollowRoutes
  BY DEF LightInv
<1> QED
  BY <1>1, <1>2, LightInvStep, PTL DEF Spec

-------------------------------------------------------------------------------
(* The scene of the topology tab. *)

\* Edges end at nodes of the graph; nodes and edges have what is painted.
WellFormed(g) ==
    /\ \A e \in DOMAIN g.edges : e[1] \in DOMAIN g.nodes /\ e[2] \in DOMAIN g.nodes
    /\ \A id \in DOMAIN g.nodes : {"status", "default", "busy"} \subseteq DOMAIN g.nodes[id]
    /\ \A e \in DOMAIN g.edges : /\ {"status", "default", "busy"} \subseteq DOMAIN g.edges[e]
                                /\ g.edges[e].default \in BOOLEAN

\* What the scene is painted with is a graph's.
Draws(g) ==
    /\ DOMAIN items = DOMAIN g.nodes /\ DOMAIN edgeItems = DOMAIN g.edges
    /\ \A id \in DOMAIN items : items[id].colour = Colour(g.nodes[id])
    /\ \A e \in DOMAIN edgeItems : /\ Tells(edgeItems[e], g.edges[e])
                                    /\ DOMAIN edgeItems[e] = {"colour", "wide", "dashed"}

\* A node item may know edges that are gone, but only such as ended at it.
SceneInv ==
    /\ WellFormed(graph)
    /\ SceneMatchesGraph
    /\ DOMAIN connected = DOMAIN items
    /\ \A id \in DOMAIN connected : \A e \in connected[id] : id \in {e[1], e[2]}
    /\ \A id \in DOMAIN items : "label" \in DOMAIN items[id] /\ "colour" \in DOMAIN items[id]
    /\ Draws(graph)
    /\ ShowsNetwork

LEMMA BuildIsWellFormed ==
    ASSUME NEW n
    PROVE  WellFormed(Build(n))
<1> DEFINE g == Build(n)
           ids == {Localhost} \cup {IfaceId(i) : i \in ShownIfaces(n)}
                  \cup {e[2] : e \in GatewayEdges(n)} \cup {e[2] : e \in ExitEdges(n)}
           es == IfaceEdges(n) \cup GatewayEdges(n) \cup ExitEdges(n)
<1>1. DOMAIN g.nodes = ids /\ DOMAIN g.edges = es
  BY DEF Build, BuildNodes, BuildEdges
<1>2. \A e \in IfaceEdges(n) : e[1] \in ids /\ e[2] \in ids
  BY DEF IfaceEdges
<1>3. \A e \in GatewayEdges(n) : e[1] \in ids /\ e[2] \in ids
  BY DEF GatewayEdges
<1>4. \A e \in ExitEdges(n) : e[1] \in ids /\ e[2] \in ids
  <2> SUFFICES ASSUME NEW d \in BestDefault(n), d.iface \in ShownIfaces(n),
                      d.gw \in GatewaysOf(n, d.iface)
               PROVE  GatewayId(d.gw) \in ids
    BY DEF ExitEdges
  <2>1. <<IfaceId(d.iface), GatewayId(d.gw)>> \in GatewayEdges(n)
    BY DEF GatewayEdges
  <2> QED
    BY <2>1
<1>5. \A id \in ids : g.nodes[id] \in {IfaceNode(n, id[2]), GatewayNode(n, id[2]),
                                       FixedNode("unknown"), FixedNode("up")}
  <2> HIDE DEF ids
  <2>1. \A id \in ids : BuildNodes(n)[id] = CASE id[1] = "iface" -> IfaceNode(n, id[2])
                                       [] id[1] = "gw" -> GatewayNode(n, id[2])
                                       [] id = Internet -> FixedNode("unknown")
                                       [] OTHER -> FixedNode("up")
    BY DEF BuildNodes, ids
  <2> QED
    BY <2>1 DEF Build
<1>6. \A id \in ids : {"status", "default", "busy"} \subseteq DOMAIN g.nodes[id]
  <2> HIDE DEF g, ids
  <2> QED
    BY <1>5 DEF IfaceNode, GatewayNode, FixedNode
<1>7. \A e \in es : g.edges[e] \in {[status |-> "up", default |-> TRUE, busy |-> FALSE],
                                    EdgeOf(n, e[2][2]), EdgeOf(n, e[1][2])}
  <2>1. \A e \in es : BuildEdges(n)[e] =
            IF e[2] = Internet THEN [status |-> "up", default |-> TRUE, busy |-> FALSE]
            ELSE IF e[1] = Localhost THEN EdgeOf(n, e[2][2]) ELSE EdgeOf(n, e[1][2])
    BY DEF BuildEdges
  <2> QED
    BY <2>1 DEF Build
<1>8. \A e \in es : /\ {"status", "default", "busy"} \subseteq DOMAIN g.edges[e]
                    /\ g.edges[e].default \in BOOLEAN
  <2> HIDE DEF g, es
  <2>1. ASSUME NEW i
        PROVE  /\ {"status", "default", "busy"} \subseteq DOMAIN EdgeOf(n, i)
               /\ EdgeOf(n, i).default \in BOOLEAN
    <3>1. IsDefaultIface(n, i) \in BOOLEAN
      BY Zenon DEF IsDefaultIface
    <3> QED
      BY <3>1 DEF EdgeOf
  <2>2. ASSUME NEW e \in es
        PROVE  /\ {"status", "default", "busy"} \subseteq DOMAIN g.edges[e]
               /\ g.edges[e].default \in BOOLEAN
    <3> DEFINE up == [status |-> "up", default |-> TRUE, busy |-> FALSE]
    <3>1. {"status", "default", "busy"} \subseteq DOMAIN up /\ up.default \in BOOLEAN
      OBVIOUS
    <3> HIDE DEF up
    <3>2. \/ g.edges[e] = up
          \/ g.edges[e] = EdgeOf(n, e[2][2])
          \/ g.edges[e] = EdgeOf(n, e[1][2])
      BY <1>7 DEF up
    <3> QED
      BY <2>1, <3>1, <3>2
  <2> QED
    BY <2>2
<1>9. \A e \in es : e[1] \in ids /\ e[2] \in ids
  <2> HIDE DEF ids
  <2> QED
    BY <1>2, <1>3, <1>4
<1> QED
  <2> HIDE DEF g, ids, es
  <2>1. WellFormed(g)
    BY <1>1, <1>6, <1>8, <1>9 DEF WellFormed
  <2> QED
    BY <2>1 DEF g

\* Colours and pens depend on status and default flag.
LEMMA SameLooks ==
    ASSUME NEW a, NEW b, a.status = b.status, a.default = b.default
    PROVE  /\ Colour(a) = Colour(b)
           /\ \A pen : Tells(pen, a) <=> Tells(pen, b)
BY DEF Colour, Tells

LEMMA DrawnTells ==
    ASSUME NEW edge
    PROVE  /\ Tells(DrawnEdge(edge), edge)
           /\ DOMAIN DrawnEdge(edge) = {"colour", "wide", "dashed"}
           /\ \A pen : /\ Tells(PatchedEdge(pen, edge), edge)
                       /\ DOMAIN PatchedEdge(pen, edge) = {"colour", "wide", "dashed"}
BY DEF Tells, DrawnEdge, PatchedEdge

\* Traffic is not painted.
LEMMA TrafficKeepsPaint ==
    ASSUME NEW g, WellFormed(g), NEW h, h = WithTraffic(g)
    PROVE  /\ DOMAIN h.nodes = DOMAIN g.nodes /\ DOMAIN h.edges = DOMAIN g.edges
           /\ \A id \in DOMAIN g.nodes : Colour(h.nodes[id]) = Colour(g.nodes[id])
           /\ \A e \in DOMAIN g.edges : \A pen : Tells(pen, h.edges[e]) <=> Tells(pen, g.edges[e])
           /\ WellFormed(h)
<1>1. /\ DOMAIN h.nodes = DOMAIN g.nodes
      /\ \A id \in DOMAIN g.nodes :
            h.nodes[id] = [g.nodes[id] EXCEPT !.busy = id[1] = "iface" /\ id[2] \in net.busy]
  BY DEF WithTraffic
<1>2. /\ DOMAIN h.edges = DOMAIN g.edges
      /\ \A e \in DOMAIN g.edges :
            h.edges[e] = [g.edges[e] EXCEPT !.busy = /\ e \in DOMAIN edgeItems'
                                                     /\ e[1][1] = "iface" /\ e[1][2] \in net.busy]
  BY DEF WithTraffic
<1>3. \A id \in DOMAIN g.nodes : /\ h.nodes[id].status = g.nodes[id].status
                                 /\ h.nodes[id].default = g.nodes[id].default
                                 /\ DOMAIN h.nodes[id] = DOMAIN g.nodes[id]
  BY <1>1 DEF WellFormed
<1>4. \A e \in DOMAIN g.edges : /\ h.edges[e].status = g.edges[e].status
                                /\ h.edges[e].default = g.edges[e].default
                                /\ DOMAIN h.edges[e] = DOMAIN g.edges[e]
  BY <1>2 DEF WellFormed
<1>5. WellFormed(h)
  BY <1>1, <1>2, <1>3, <1>4 DEF WellFormed
<1> QED
  BY <1>1, <1>2, <1>3, <1>4, <1>5, SameLooks

LEMMA ApplyGraphStep ==
    ASSUME NEW new, WellFormed(new), ApplyGraph(new), new = Build(net), net' = net
    PROVE  SceneInv'
<1> DEFINE ids == DOMAIN new.nodes
           keys == Drawable(DOMAIN new.edges, ids)
<1>1. keys = DOMAIN new.edges
  BY DEF Drawable, WellFormed
<1>2. /\ graph' = new
      /\ items' = [id \in ids |-> NewItem(new.nodes[id])]
      /\ edgeItems' = [e \in DOMAIN new.edges |-> DrawnEdge(new.edges[e])]
      /\ listed' = DOMAIN new.edges /\ animated' = DOMAIN new.edges
      /\ connected' = [id \in ids |-> {e \in DOMAIN new.edges : id \in {e[1], e[2]}}]
  BY <1>1 DEF ApplyGraph
<1>3. (Build(net))' = new
  BY DEF Build, BuildNodes, BuildEdges
<1>4. \A id \in ids : /\ DOMAIN items'[id] = {"colour", "label"}
                      /\ items'[id].colour = Colour(new.nodes[id])
                      /\ items'[id].label = new.nodes[id].label
  BY <1>2 DEF NewItem
<1>5. \A e \in DOMAIN new.edges : e[1] \in ids /\ e[2] \in ids
  BY DEF WellFormed
<1> HIDE DEF ids, keys
<1>6. SceneMatchesGraph'
  BY <1>2, <1>5 DEF SceneMatchesGraph, ids
<1>7. (Draws(graph))'
  BY <1>2, <1>4, DrawnTells DEF Draws, ids
<1>8. ShowsNetwork'
  BY <1>2, <1>3, <1>4, DrawnTells DEF ShowsNetwork, ids
<1>9. (WellFormed(graph))'
  BY <1>2 DEF WellFormed
<1>10. \A id \in DOMAIN items' : "label" \in DOMAIN items'[id] /\ "colour" \in DOMAIN items'[id]
  BY <1>2, <1>4
<1>11. /\ DOMAIN connected' = DOMAIN items'
       /\ \A id \in DOMAIN connected' : \A e \in connected'[id] : id \in {e[1], e[2]}
  BY <1>2
<1> QED
  BY <1>6, <1>7, <1>8, <1>9, <1>10, <1>11 DEF SceneInv

\* The parts of a patch: what goes from one container goes from the others.
LEMMA ApplyDiffStep ==
    ASSUME SceneInv, NEW new, WellFormed(new), ApplyDiff(new), new = Build(net), net' = net,
           seen' = SeenByPatch
    PROVE  SceneInv'
<1> DEFINE stays    == DOMAIN items \ Added(new.nodes, graph.nodes)
           addedIds == Added(graph.nodes, new.nodes)
           ids      == stays \cup addedIds
           gone     == EdgesOfRemoved(new) \cup RemovedEdges(new)
           newKeys  == Drawable(Added(graph.edges, new.edges), ids)
           keys     == (DOMAIN edgeItems \ RemovedEdges(new)) \cup newKeys
           repaint  == Changed(graph.nodes, new.nodes)
           recolour == Changed(graph.edges, new.edges)
<1>1. /\ items' = [id \in ids |->
                      IF id \in addedIds THEN NewItem(new.nodes[id])
                      ELSE IF id \in repaint
                      THEN [items[id] EXCEPT !.colour = Colour(new.nodes[id])]
                      ELSE items[id]]
      /\ edgeItems' = [e \in keys |->
                          IF e \in newKeys THEN DrawnEdge(new.edges[e])
                          ELSE IF e \in recolour THEN PatchedEdge(edgeItems[e], new.edges[e])
                          ELSE edgeItems[e]]
      /\ listed' = (listed \ gone) \cup newKeys
      /\ animated' = (animated \ gone) \cup newKeys
      /\ connected' = [id \in ids |->
                          (IF id \in addedIds THEN {} ELSE connected[id])
                          \cup {e \in newKeys : id \in {e[1], e[2]}}]
      /\ graph' = WithTraffic(new)
  BY DEF ApplyDiff
<1>2. ids = DOMAIN new.nodes
  BY DEF Added, SceneInv, Draws
<1>3. newKeys = DOMAIN new.edges \ DOMAIN graph.edges
  <2>1. newKeys = Drawable(DOMAIN new.edges \ DOMAIN graph.edges, DOMAIN new.nodes)
    BY <1>2 DEF Added
  <2> QED
    BY <2>1 DEF Drawable, WellFormed
<1>4. RemovedEdges(new) = DOMAIN graph.edges \ DOMAIN new.edges
  BY DEF RemovedEdges, Added, SceneInv, Draws
<1>5. keys = DOMAIN new.edges
  BY <1>3, <1>4 DEF SceneInv, Draws
<1>6. \A e \in EdgesOfRemoved(new) : e \notin DOMAIN new.edges
  BY DEF EdgesOfRemoved, Added, WellFormed, SceneInv
<1>7. listed' = DOMAIN new.edges /\ animated' = DOMAIN new.edges
  BY <1>1, <1>3, <1>4, <1>6 DEF SceneInv, SceneMatchesGraph
<1>8. \A id \in DOMAIN new.nodes :
          /\ items'[id].colour = Colour(new.nodes[id])
          /\ "label" \in DOMAIN items'[id] /\ "colour" \in DOMAIN items'[id]
          /\ IF id \in DOMAIN items THEN items'[id].label = items[id].label
             ELSE items'[id].label = new.nodes[id].label
  <2> SUFFICES ASSUME NEW id \in DOMAIN new.nodes
               PROVE  /\ items'[id].colour = Colour(new.nodes[id])
                      /\ "label" \in DOMAIN items'[id] /\ "colour" \in DOMAIN items'[id]
                      /\ IF id \in DOMAIN items THEN items'[id].label = items[id].label
                         ELSE items'[id].label = new.nodes[id].label
    OBVIOUS
  <2>0. addedIds = DOMAIN new.nodes \ DOMAIN items
    BY DEF Added, SceneInv, Draws
  <2>1. CASE id \in addedIds
    <3>1. items'[id] = NewItem(new.nodes[id])
      BY <1>1, <2>1
    <3> QED
      BY <2>0, <2>1, <3>1 DEF NewItem
  <2>2. CASE id \notin addedIds /\ id \in repaint
    <3>1. items'[id] = [items[id] EXCEPT !.colour = Colour(new.nodes[id])] /\ id \in DOMAIN items
      BY <1>1, <1>2, <2>0, <2>2
    <3>2. "label" \in DOMAIN items[id] /\ "colour" \in DOMAIN items[id]
      BY <3>1 DEF SceneInv
    <3> QED
      BY <3>1, <3>2
  <2>3. CASE id \notin addedIds /\ id \notin repaint
    <3>1. items'[id] = items[id] /\ id \in DOMAIN items
      BY <1>1, <1>2, <2>0, <2>3
    <3>2. Colour(graph.nodes[id]) = Colour(new.nodes[id])
      BY <2>3, <3>1 DEF Changed, Differs, Colour, SceneInv, Draws
    <3> QED
      BY <3>1, <3>2 DEF SceneInv, Draws
  <2> QED
    BY <2>1, <2>2, <2>3
<1>9. \A e \in DOMAIN new.edges :
          /\ Tells(edgeItems'[e], new.edges[e])
          /\ DOMAIN edgeItems'[e] = {"colour", "wide", "dashed"}
  <2> SUFFICES ASSUME NEW e \in DOMAIN new.edges
               PROVE  /\ Tells(edgeItems'[e], new.edges[e])
                      /\ DOMAIN edgeItems'[e] = {"colour", "wide", "dashed"}
    OBVIOUS
  <2>1. edgeItems'[e] = IF e \in newKeys THEN DrawnEdge(new.edges[e])
                        ELSE IF e \in recolour THEN PatchedEdge(edgeItems[e], new.edges[e])
                        ELSE edgeItems[e]
    BY <1>1, <1>5
  <2>2. CASE e \notin newKeys \cup recolour
    <3>1. /\ e \in DOMAIN graph.edges /\ Tells(edgeItems[e], graph.edges[e])
          /\ DOMAIN edgeItems[e] = {"colour", "wide", "dashed"}
      BY <1>3, <2>2 DEF SceneInv, Draws
    <3>2. graph.edges[e].status = new.edges[e].status /\ graph.edges[e].default = new.edges[e].default
      BY <2>2, <3>1 DEF Changed, Differs
    <3> QED
      BY <2>1, <2>2, <3>1, <3>2, SameLooks
  <2> QED
    BY <2>1, <2>2, DrawnTells
<1>10. /\ DOMAIN connected' = DOMAIN new.nodes
       /\ \A id \in DOMAIN new.nodes : \A e \in connected'[id] : id \in {e[1], e[2]}
       /\ \A e \in DOMAIN new.edges : e \in connected'[e[1]] /\ e \in connected'[e[2]]
  <2>1. /\ DOMAIN connected' = DOMAIN new.nodes
        /\ \A id \in DOMAIN new.nodes :
              connected'[id] = (IF id \in addedIds THEN {} ELSE connected[id])
                               \cup {e \in newKeys : id \in {e[1], e[2]}}
    BY <1>1, <1>2
  <2>2. \A id \in DOMAIN new.nodes \ addedIds : id \in DOMAIN connected
    BY DEF Added, SceneInv, Draws
  <2>3. \A e \in DOMAIN new.edges : /\ e[1] \in DOMAIN new.nodes /\ e[2] \in DOMAIN new.nodes
                                    /\ e \in newKeys \/ e \in DOMAIN graph.edges
    BY <1>3 DEF WellFormed
  <2>4. \A e \in DOMAIN graph.edges : /\ e \in connected[e[1]] /\ e \in connected[e[2]]
                                      /\ e[1] \notin addedIds /\ e[2] \notin addedIds
    BY DEF SceneInv, SceneMatchesGraph, WellFormed, Added
  <2> HIDE DEF addedIds, newKeys
  <2>5. \A id \in DOMAIN new.nodes : \A e \in connected'[id] : id \in {e[1], e[2]}
    BY <2>1, <2>2 DEF SceneInv
  <2>6. \A e \in DOMAIN new.edges : e \in connected'[e[1]] /\ e \in connected'[e[2]]
    BY <2>1, <2>3, <2>4
  <2> QED
    BY <2>1, <2>5, <2>6
<1>11. DOMAIN items' = DOMAIN new.nodes /\ DOMAIN edgeItems' = DOMAIN new.edges
  BY <1>1, <1>2, <1>5
<1> HIDE DEF stays, addedIds, ids, gone, newKeys, keys, repaint, recolour
<1>12. PICK h : h = WithTraffic(new) /\ graph' = h
  BY <1>1
<1>13. /\ DOMAIN h.nodes = DOMAIN new.nodes /\ DOMAIN h.edges = DOMAIN new.edges
       /\ \A id \in DOMAIN new.nodes : Colour(h.nodes[id]) = Colour(new.nodes[id])
       /\ \A e \in DOMAIN new.edges : \A pen : Tells(pen, h.edges[e]) <=> Tells(pen, new.edges[e])
       /\ WellFormed(h)
  BY <1>12, TrafficKeepsPaint
<1>14. SceneMatchesGraph'
  BY <1>7, <1>10, <1>11, <1>12, <1>13 DEF SceneMatchesGraph
<1>15. (Draws(graph))'
  BY <1>8, <1>9, <1>11, <1>12, <1>13 DEF Draws
<1>16. (WellFormed(graph))'
  BY <1>12, <1>13 DEF WellFormed
<1>17. ShowsNetwork'
  <2>1. (Build(net))' = new
    BY DEF Build, BuildNodes, BuildEdges
  <2>2. seen \in {"labels", "all"} =>
            \A id \in DOMAIN items : items[id].label = new.nodes[id].label
    BY DEF SceneInv, ShowsNetwork
  <2>3. seen' # "all" /\ (seen' = "labels" => seen \in {"labels", "all"})
    BY DEF SeenByPatch
  <2> QED
    BY <1>8, <1>9, <1>11, <2>1, <2>2, <2>3 DEF ShowsNetwork
<1> QED
  BY <1>8, <1>10, <1>11, <1>14, <1>15, <1>16, <1>17 DEF SceneInv

LEMMA SceneInvStep == SceneInv /\ [Next]_partsVars => SceneInv'
<1> SUFFICES ASSUME SceneInv, [Next]_partsVars
             PROVE  SceneInv'
  OBVIOUS
<1>1. PICK new : new = Build(net)
  OBVIOUS
<1>2. WellFormed(new)
  BY <1>1, BuildIsWellFormed
<1>3. ASSUME UNCHANGED sceneVars
      PROVE  /\ (WellFormed(graph))' /\ SceneMatchesGraph' /\ (Draws(graph))'
             /\ ShowsNetwork' => SceneInv'
  BY <1>3 DEF sceneVars, SceneInv, WellFormed, SceneMatchesGraph, Draws
<1>4. CASE UNCHANGED <<sceneVars, net, seen>>
  <2>1. (Build(net))' = Build(net)
    BY <1>4 DEF Build, BuildNodes, BuildEdges
  <2>2. ShowsNetwork'
    BY <1>4, <2>1 DEF sceneVars, SceneInv, ShowsNetwork
  <2> QED
    BY <1>3, <1>4, <2>2
<1>5. CASE ApplyGraph(Build(net)) /\ net' = net
  BY <1>1, <1>2, <1>5, ApplyGraphStep
<1>6. CASE NothingDiffers
  <2>1. /\ SameGraph(graph, new) /\ UNCHANGED <<net, sceneVars>>
        /\ seen' = IF seen = "all" THEN "all" ELSE SeenByPatch
    BY <1>1, <1>6 DEF NothingDiffers
  <2>2. (Build(net))' = new
    BY <1>1, <2>1 DEF Build, BuildNodes, BuildEdges
  <2>3. DOMAIN graph.nodes = DOMAIN new.nodes /\ DOMAIN graph.edges = DOMAIN new.edges
    BY <2>1 DEF SameGraph, Added
  <2>4. \A id \in DOMAIN new.nodes : Colour(graph.nodes[id]) = Colour(new.nodes[id])
    BY <2>1, <2>3 DEF SameGraph, Changed, Differs, Colour
  <2>5. \A e \in DOMAIN new.edges : \A pen : Tells(pen, graph.edges[e]) <=> Tells(pen, new.edges[e])
    <3>1. \A e \in DOMAIN new.edges : /\ graph.edges[e].status = new.edges[e].status
                                      /\ graph.edges[e].default = new.edges[e].default
      BY <2>1, <2>3 DEF SameGraph, Changed, Differs
    <3> QED
      BY <3>1, SameLooks
  <2>6. /\ seen \in {"labels", "all"} =>
              \A id \in DOMAIN items : items[id].label = new.nodes[id].label
        /\ seen = "all" => \A e \in DOMAIN edgeItems : edgeItems[e] = DrawnEdge(new.edges[e])
    BY <1>1 DEF SceneInv, ShowsNetwork
  <2>7. items' = items /\ edgeItems' = edgeItems
    BY <2>1 DEF sceneVars
  <2>8. ShowsNetwork'
    BY <2>1, <2>2, <2>3, <2>4, <2>5, <2>6, <2>7 DEF ShowsNetwork, SceneInv, Draws, SeenByPatch
  <2> QED
    BY <1>3, <2>1, <2>8
<1>7. CASE PatchScene
  BY <1>1, <1>2, <1>7, ApplyDiffStep DEF PatchScene
<1>8. CASE UpdateStats
  <2>1. PICK h : h = WithTraffic(graph) /\ graph' = h
    BY <1>8 DEF UpdateStats
  <2>2. PICK g : g = graph
    OBVIOUS
  <2>3. /\ DOMAIN h.nodes = DOMAIN graph.nodes /\ DOMAIN h.edges = DOMAIN graph.edges
        /\ \A id \in DOMAIN graph.nodes : Colour(h.nodes[id]) = Colour(graph.nodes[id])
        /\ \A e \in DOMAIN graph.edges :
              \A pen : Tells(pen, h.edges[e]) <=> Tells(pen, graph.edges[e])
        /\ WellFormed(h)
    BY <2>1, <2>2, TrafficKeepsPaint DEF SceneInv
  <2>4. UNCHANGED <<items, edgeItems, listed, animated, connected, net, seen>>
    BY <1>8 DEF UpdateStats
  <2>5. (WellFormed(graph))'
    BY <2>1, <2>3 DEF WellFormed
  <2>6. SceneMatchesGraph' /\ (Draws(graph))'
    BY <2>1, <2>3, <2>4 DEF SceneInv, SceneMatchesGraph, Draws
  <2>7. ShowsNetwork'
    <3>1. (Build(net))' = Build(net)
      BY <2>4 DEF Build, BuildNodes, BuildEdges
    <3> QED
      BY <2>4, <3>1 DEF SceneInv, ShowsNetwork
  <2> QED
    BY <2>4, <2>5, <2>6, <2>7 DEF SceneInv
<1>9. CASE NetChanges
  <2>1. UNCHANGED sceneVars /\ seen' = IF seen = "nothing" \/ net' = net THEN seen ELSE "past"
    BY <1>9 DEF NetChanges
  <2>2. CASE net' = net
    BY <1>4, <2>1, <2>2
  <2>3. CASE net' # net
    BY <1>3, <2>1, <2>3 DEF ShowsNetwork
  <2> QED
    BY <2>2, <2>3
<1>10. ASSUME NEW e \in animated, PaintEdge(e)
       PROVE  SceneInv'
  <2>1. /\ e \in DOMAIN edgeItems /\ edgeItems[e].colour # "default"
        /\ edgeItems' = [edgeItems EXCEPT ![e].wide = FALSE]
        /\ UNCHANGED <<net, graph, items, listed, animated, connected, seen>>
    BY <1>10 DEF PaintEdge
  <2>2. /\ DOMAIN edgeItems' = DOMAIN edgeItems
        /\ \A x \in DOMAIN edgeItems :
              edgeItems'[x] = IF x = e THEN [edgeItems[e] EXCEPT !.wide = FALSE] ELSE edgeItems[x]
    BY <2>1
  <2>3. /\ DOMAIN edgeItems[e] = {"colour", "wide", "dashed"}
        /\ DOMAIN edgeItems'[e] = {"colour", "wide", "dashed"}
        /\ edgeItems'[e].colour = edgeItems[e].colour /\ edgeItems'[e].dashed = edgeItems[e].dashed
        /\ edgeItems'[e].wide = FALSE
    BY <2>1, <2>2 DEF SceneInv, Draws
  <2>4. \A edge : Tells(edgeItems[e], edge) => Tells(edgeItems'[e], edge)
    BY <2>1, <2>3 DEF Tells, Colour
  <2>5. (WellFormed(graph))' /\ SceneMatchesGraph' /\ (Draws(graph))'
    BY <2>1, <2>2, <2>3, <2>4 DEF SceneInv, WellFormed, SceneMatchesGraph, Draws
  <2>6. (Build(net))' = new
    BY <1>1, <2>1 DEF Build, BuildNodes, BuildEdges
  <2>7. ASSUME seen = "all", NEW x \in DOMAIN edgeItems
        PROVE  edgeItems'[x] = DrawnEdge(new.edges[x])
    <3>1. /\ edgeItems[x] = DrawnEdge(new.edges[x])
          /\ Tells(edgeItems[x], new.edges[x])
          /\ DOMAIN edgeItems = DOMAIN new.edges
      BY <1>1, <2>7 DEF SceneInv, ShowsNetwork
    <3>2. CASE x = e
      <4>1. new.edges[e].default = FALSE
        BY <1>2, <2>1, <3>1, <3>2 DEF WellFormed, Tells, Colour
      <4>2. edgeItems[e].wide = FALSE
        BY <3>1, <3>2, <4>1 DEF DrawnEdge
      <4>3. [edgeItems[e] EXCEPT !.wide = FALSE] = edgeItems[e]
        BY <3>1, <3>2, <4>2 DEF DrawnEdge
      <4> QED
        BY <2>2, <3>1, <3>2, <4>3
    <3> QED
      BY <2>2, <3>1, <3>2
  <2>8. ShowsNetwork'
    BY <1>1, <2>1, <2>2, <2>4, <2>6, <2>7 DEF SceneInv, ShowsNetwork
  <2> QED
    BY <2>1, <2>5, <2>8 DEF SceneInv
<1> QED
  BY <1>4, <1>5, <1>6, <1>7, <1>8, <1>9, <1>10, PartSteps
     DEF TopologyNext, topologyVars, sceneVars, Refresh, FirstGraph, StartTopology, StopTopology

LEMMA SceneInvInit == Init => SceneInv
<1> SUFFICES ASSUME Init
             PROVE  SceneInv
  OBVIOUS
<1>1. /\ graph = [nodes |-> <<>>, edges |-> <<>>] /\ items = <<>> /\ edgeItems = <<>>
      /\ listed = {} /\ animated = {} /\ connected = <<>> /\ seen = "nothing"
  BY DEF Init, TopologyInit, NoGraph
<1>2. WellFormed(graph) /\ Draws(graph)
  BY <1>1 DEF WellFormed, Draws
<1> QED
  BY <1>1, <1>2 DEF SceneInv, SceneMatchesGraph, ShowsNetwork

\* Dictionary, list, scene and animator hold the edges of the graph, and nodes know
\* theirs, after any sequence of full and patched refreshes of any network.
THEOREM SceneMatchesGraphAlways == Spec => []SceneMatchesGraph
<1>1. SceneInv => SceneMatchesGraph
  BY DEF SceneInv
<1> QED
  BY <1>1, SceneInvInit, SceneInvStep, PTL DEF Spec

\* What is painted after a refresh tells of the network as it was read, though a patch
\* only touches what the comparison of the two graphs names; a full refresh leaves every
\* pen as it is drawn.
THEOREM ShowsNetworkAlways == Spec => []ShowsNetwork
<1>1. SceneInv => ShowsNetwork
  BY DEF SceneInv
<1> QED
  BY <1>1, SceneInvInit, SceneInvStep, PTL DEF Spec

-------------------------------------------------------------------------------
(* The form of the route tab. *)

\* What the form holds of the selected route while the user has filled in nothing: the
\* gateway goes when data arrive, the interface when the gateway is left, but not
\* before there is a list of gateways.
FieldsInv ==
    currentRoute # NoChoice /\ ~edited =>
        /\ field.dest = currentRoute.dest
        /\ field.prefix.len = currentRoute.len
        /\ \/ field.prefix.form = "digits"
           \/ field.prefix.form = "mask" /\ currentRoute.family = "v4"
        /\ \/ field.gw = currentRoute.gw
           \/ loadedOver /\ field.gw = Direct4
        /\ \/ field.iface = currentRoute.iface
           \/ left /\ loading = "loaded" /\ field.iface = FirstIface(currentRoute.gw)

FormTypeOK ==
    /\ DOMAIN field = {"dest", "prefix", "gw", "iface"}
    /\ currentRoute # NoChoice => currentRoute \in TabRoutes
    /\ tabSystem \subseteq TabRoutes /\ tabRows \subseteq TabRoutes /\ loadRead \subseteq TabRoutes
    /\ fetched # NoChoice => fetched \subseteq TabRoutes
    /\ \A item \in gwItems : \/ item = DirectItem
                             \/ loading = "loaded" /\ item[1] \in Next4 \cup Next6
    /\ DOMAIN iface_checks \subseteq {<<r.family, r.iface>> : r \in TabRoutes}

FormInv == FormTypeOK /\ FieldsInv /\ ChecksTell

LEMMA FormInvTells == FormInv => DeletesSelected
<1> SUFFICES ASSUME FormInv, currentRoute # NoChoice, ~edited, NEW r \in WouldDelete
             PROVE  /\ r.family = currentRoute.family /\ r.dest = currentRoute.dest
                    /\ \/ r.iface = currentRoute.iface
                       \/ left /\ r.iface = FirstIface(currentRoute.gw)
                    /\ \/ r.len = currentRoute.len
                       \/ currentRoute.family = "v4" /\ IsV6 /\ r.len = 0
                    /\ \/ r.gw = currentRoute.gw
                       \/ loadedOver /\ r.gw \in {Direct4, Direct6}
  BY DEF DeletesSelected
<1> USE RouteFormAssumption DEF FormInv, FormTypeOK, FieldsInv
<1>1. r \in TabRoutes /\ currentRoute \in TabRoutes
  BY DEF WouldDelete
<1>2. PICK n : /\ r \in Named4or6(field, n)
               /\ n = field.prefix.len \/ (n = 0 /\ IsV6 /\ field.prefix.form = "mask")
  BY DEF WouldDelete
<1>3. /\ r.dest = field.dest /\ r.len = n /\ r.iface = field.iface
      /\ r.gw = field.gw \/ (field.gw \in {Direct4, Direct6} /\ r.gw \in {Direct4, Direct6})
  BY <1>2 DEF Named4or6
<1>4. r.family = currentRoute.family /\ r.dest = currentRoute.dest
  BY <1>1, <1>3
<1>5. \/ r.iface = currentRoute.iface
      \/ left /\ r.iface = FirstIface(currentRoute.gw)
  BY <1>3
<1>6. \/ r.len = currentRoute.len
      \/ currentRoute.family = "v4" /\ IsV6 /\ r.len = 0
  BY <1>2, <1>3
<1>7. \/ r.gw = currentRoute.gw
      \/ loadedOver /\ r.gw \in {Direct4, Direct6}
  BY <1>1, <1>3, <1>4
<1> QED
  BY <1>4, <1>5, <1>6, <1>7

LEMMA BestExists ==
    ASSUME NEW routes, routes \subseteq TabRoutes, NEW f,
           \E d \in routes : d.family = f /\ IsDefaultRow(d)
    PROVE  DefaultIfaces(routes, f) # {}
<1> DEFINE D == {d \in routes : d.family = f /\ IsDefaultRow(d)}
           M == {TabMetric[d] : d \in D}
<1>1. M \subseteq Nat /\ M # {}
  BY RouteFormAssumption
<1>2. PICK m \in M : \A k \in M : m <= k
  <2> HIDE DEF M
  <2> QED
    BY <1>1, Least
<1>3. PICK d \in D : m = TabMetric[d]
  BY <1>2
<1>4. \A e \in D : TabMetric[d] <= TabMetric[e]
  BY <1>2, <1>3
<1>5. d.iface \in DefaultIfaces(routes, f)
  BY <1>3, <1>4 DEF DefaultIfaces
<1> QED
  BY <1>5

\* What the actions do to the part of the form that FieldsInv speaks of.
LEMMA GatewayChecked ==
    ASSUME FormInv, currentRoute # NoChoice, ~edited, NEW g \in CheckedGateways
    PROVE  /\ g.gw = field.gw
           /\ \/ g.iface = field.iface
              \/ loading = "loaded" /\ g.iface = FirstIface(currentRoute.gw)
<1> USE RouteFormAssumption DEF FormInv, FormTypeOK, FieldsInv
<1>1. Offers(Direct4) = {} /\ (loading # "loaded" => Offers(field.gw) = {})
  BY DEF Offers, DirectItem
<1>2. ~IsIface
  BY DEF IsIface
<1>3. CASE AddressFits /\ Offers(field.gw) # {}
  <2>1. g = [gw |-> field.gw, iface |-> FirstIface(field.gw),
             box |-> <<field.gw, FirstIface(field.gw)>>]
    BY <1>3 DEF CheckedGateways
  <2>2. field.gw = currentRoute.gw /\ loading = "loaded"
    BY <1>1, <1>3
  <2> QED
    BY <2>1, <2>2
<1>4. CASE ~(AddressFits /\ Offers(field.gw) # {})
  <2>1. g = [gw |-> field.gw, iface |-> field.iface, box |-> gwBox]
    BY <1>2, <1>4 DEF CheckedGateways
  <2> QED
    BY <2>1
<1> QED
  BY <1>3, <1>4

LEMMA PrefixChecked ==
    /\ CheckedPrefix.len = field.prefix.len
    /\ CheckedPrefix = field.prefix \/ CheckedPrefix.form = "digits"
BY DEF CheckedPrefix, Digits

\* The check of the gateway, with that of the prefix or without.
LEMMA LeavingStep ==
    ASSUME FormInv, NEW g \in CheckedGateways,
           NEW p, p = field.prefix \/ p = CheckedPrefix,
           field' = [field EXCEPT !.prefix = p, !.gw = g.gw, !.iface = g.iface],
           left', tabSystem' \subseteq TabRoutes,
           UNCHANGED <<rowVars, currentRoute, loadVars, edited, loadedOver, clicked>>
    PROVE  FormInv'
<1> USE DEF FormInv, FormTypeOK, rowVars, loadVars
<1>1. /\ field'.dest = field.dest /\ field'.prefix = p
      /\ field'.gw = g.gw /\ field'.iface = g.iface /\ DOMAIN field' = DOMAIN field
  OBVIOUS
<1>2. p.len = field.prefix.len /\ (p.form = field.prefix.form \/ p.form = "digits")
  BY PrefixChecked
<1>3. FormTypeOK'
  BY <1>1
<1>4. FieldsInv'
  <2> SUFFICES ASSUME currentRoute # NoChoice, ~edited
               PROVE  FieldsInv'
    BY DEF FieldsInv
  <2>1. /\ g.gw = field.gw
        /\ \/ g.iface = field.iface
           \/ loading = "loaded" /\ g.iface = FirstIface(currentRoute.gw)
    BY GatewayChecked
  <2>2. (FirstIface(currentRoute.gw))' = FirstIface(currentRoute.gw)
    BY DEF FirstIface, Offers
  <2> QED
    BY <1>1, <1>2, <2>1, <2>2 DEF FieldsInv
<1>5. ChecksTell'
  BY DEF ChecksTell
<1> QED
  BY <1>3, <1>4, <1>5

\* Steps that write neither the form nor the boxes.
LEMMA FormKept ==
    ASSUME FormInv, FormTypeOK', UNCHANGED <<tabRows, currentRoute, field, gwItems, iface_checks,
                                             loading, edited, left, loadedOver, clicked>>
    PROVE  FormInv'
<1>1. (FirstIface(currentRoute.gw))' = FirstIface(currentRoute.gw)
  BY DEF FirstIface, Offers
<1>2. FieldsInv'
  BY <1>1 DEF FormInv, FieldsInv
<1>3. ChecksTell'
  BY DEF FormInv, ChecksTell
<1> QED
  BY <1>2, <1>3 DEF FormInv

LEMMA SelectRowStep ==
    ASSUME FormInv, NEW r \in TabRoutes, SelectRow(r)
    PROVE  FormInv'
<1> USE RouteFormAssumption DEF FormInv, SelectRow, loadVars
<1>1. /\ field'.dest = r.dest /\ field'.gw = r.gw /\ field'.iface = r.iface
      /\ DOMAIN field' = {"dest", "prefix", "gw", "iface"}
      /\ field'.prefix = Digits(r.len) \/ (field'.prefix = Mask(r.len) /\ r.family = "v4")
  BY DEF Filled
<1>2. FieldsInv'
  BY <1>1 DEF FieldsInv, Digits, Mask
<1>3. FormTypeOK' /\ ChecksTell'
  BY <1>1 DEF FormTypeOK, ChecksTell
<1> QED
  BY <1>2, <1>3

LEMMA EditsStep ==
    ASSUME FormInv, Edits, DOMAIN field' = DOMAIN field
    PROVE  FormInv'
BY DEF FormInv, Edits, FormTypeOK, FieldsInv, ChecksTell, rowVars, loadVars

LEMMA ButtonStep ==
    ASSUME FormInv, NEW routes \in SUBSET TabRoutes, NEW replaces,
           ValidatesAndAdds(routes, replaces),
           UNCHANGED <<rowVars, currentRoute, loadVars, edited, loadedOver, clicked>>
    PROVE  FormInv'
<1>1. CASE ~PrefixOk
  <2>1. tabSystem' = routes /\ UNCHANGED <<formVars, left>>
    BY <1>1 DEF ValidatesAndAdds
  <2> QED
    BY <2>1, FormKept DEF FormInv, FormTypeOK, formVars, rowVars, loadVars
<1>2. CASE PrefixOk
  <2>1. PICK g \in CheckedGateways :
           /\ field' = [field EXCEPT !.prefix = CheckedPrefix, !.gw = g.gw, !.iface = g.iface]
           /\ left' = TRUE
           /\ \E f, n : tabSystem' \subseteq routes \cup Named4or6(f, n)
    BY <1>2 DEF ValidatesAndAdds
  <2>2. tabSystem' \subseteq TabRoutes
    BY <2>1 DEF Named4or6
  <2> QED
    BY <2>1, <2>2, LeavingStep
<1> QED
  BY <1>1, <1>2

LEMMA BoxesAreSet ==
    ASSUME NEW routes \in SUBSET TabRoutes, NEW checks,
           NEW dom \in SUBSET {<<r.family, r.iface>> : r \in TabRoutes},
           DOMAIN checks = dom,
           \A c \in dom : checks[c] => /\ DefaultIfaces(routes, c[1]) # {}
                                       /\ c[2] = CHOOSE i \in DefaultIfaces(routes, c[1]) : TRUE
    PROVE  /\ \A c, d \in dom : checks[c] /\ checks[d] /\ c[1] = d[1] => c = d
           /\ \A c \in dom : checks[c] => c[2] \in DefaultIfaces(routes, c[1])
<1>1. \A c, d \in dom : c[1] = d[1] /\ c[2] = d[2] => c = d
  OBVIOUS
<1>2. \A c \in dom : checks[c] => c[2] \in DefaultIfaces(routes, c[1])
  BY Zenon
<1>3. ASSUME NEW c \in dom, NEW d \in dom, checks[c], checks[d], c[1] = d[1]
      PROVE  c = d
  <2>1. /\ c[2] = CHOOSE i \in DefaultIfaces(routes, c[1]) : TRUE
        /\ d[2] = CHOOSE i \in DefaultIfaces(routes, d[1]) : TRUE
    BY <1>3, Zenon
  <2>2. c[2] = d[2]
    BY <1>3, <2>1
  <2> QED
    BY <1>1, <1>3, <2>2
<1> QED
  BY <1>2, <1>3, Zenon

LEMMA RefreshedStep ==
    ASSUME FormInv, Refreshed
    PROVE  FormInv'
<1> USE RouteFormAssumption DEF FormInv
<1>1. /\ fetched \subseteq TabRoutes /\ tabRows' = fetched /\ fetched' = NoChoice
      /\ UpdateDefaultChecks(fetched)
      /\ UNCHANGED <<tabSystem, currentRoute, field, gwItems, loading, loadRead, edited,
                     left, loadedOver>>
  BY DEF Refreshed, FormTypeOK, formVars
<1>2. /\ DOMAIN iface_checks' = DOMAIN iface_checks
      /\ \A c \in DOMAIN iface_checks :
            iface_checks'[c] => /\ DefaultIfaces(fetched, c[1]) # {}
                                /\ c[2] = CHOOSE i \in DefaultIfaces(fetched, c[1]) : TRUE
  <2>1. \A c \in DOMAIN iface_checks : c[1] \in {"v4", "v6"}
    BY DEF FormTypeOK
  <2> QED
    BY <1>1, <2>1 DEF UpdateDefaultChecks
<1>3. ChecksTell'
  BY <1>1, <1>2, BoxesAreSet DEF ChecksTell, FormTypeOK
<1>4. FieldsInv'
  <2>1. (FirstIface(currentRoute.gw))' = FirstIface(currentRoute.gw)
    BY <1>1 DEF FirstIface, Offers
  <2> QED
    BY <1>1, <2>1 DEF FieldsInv
<1>5. FormTypeOK'
  BY <1>1, <1>2 DEF FormTypeOK
<1> QED
  BY <1>3, <1>4, <1>5

LEMMA DataArrivesStep ==
    ASSUME FormInv, DataArrives
    PROVE  FormInv'
<1> USE RouteFormAssumption DEF FormInv
<1> DEFINE boxes == {<<r.family, r.iface>> : r \in {d \in loadRead : IsDefaultRow(d)}}
<1>1. /\ loading = "read" /\ loading' = "loaded" /\ loadRead' = {}
      /\ loadRead \subseteq TabRoutes /\ tabRows' = loadRead
      /\ iface_checks' = [c \in boxes |-> c[2] = CHOOSE i \in DefaultIfaces(loadRead, c[1]) : TRUE]
      /\ gwItems' = GatewayItems(loadRead)
      /\ field' = [field EXCEPT !.gw = Direct4] /\ loadedOver' = TRUE
      /\ UNCHANGED <<tabSystem, fetched, currentRoute, edited, left>>
  BY DEF DataArrives, NewChecks, FormTypeOK
<1>2. \A c \in boxes : DefaultIfaces(loadRead, c[1]) # {}
  <2> SUFFICES ASSUME NEW r \in loadRead, IsDefaultRow(r)
               PROVE  DefaultIfaces(loadRead, r.family) # {}
    OBVIOUS
  <2> QED
    BY <1>1, BestExists
<1>3. boxes \in SUBSET {<<r.family, r.iface>> : r \in TabRoutes}
  BY <1>1
<1>4. ChecksTell'
  <2> HIDE DEF boxes
  <2> QED
    BY <1>1, <1>2, <1>3, BoxesAreSet DEF ChecksTell
<1>5. /\ field'.gw = Direct4 /\ field'.dest = field.dest /\ field'.prefix = field.prefix
      /\ field'.iface = field.iface /\ DOMAIN field' = DOMAIN field
  BY <1>1 DEF FormTypeOK
<1>6. FieldsInv'
  BY <1>1, <1>5 DEF FieldsInv
<1>7. FormTypeOK'
  BY <1>1, <1>3, <1>5 DEF FormTypeOK, GatewayItems
<1> QED
  BY <1>4, <1>6, <1>7

LEMMA ClickDefaultStep ==
    ASSUME FormInv, NEW c \in DOMAIN iface_checks, ClickDefault(c)
    PROVE  FormInv'
<1> USE DEF FormInv, ClickDefault, formVars, rowVars
<1>1. /\ DOMAIN iface_checks' = DOMAIN iface_checks
      /\ \A d \in DOMAIN iface_checks :
            iface_checks'[d] => (~iface_checks[c] /\ d = c) \/ (iface_checks[c] /\ iface_checks[d])
  <2>1. CASE iface_checks[c]
    <3>1. iface_checks' = [iface_checks EXCEPT ![c] = FALSE]
      BY <2>1
    <3> QED
      BY <2>1, <3>1, Zenon
  <2>2. CASE ~iface_checks[c]
    <3>1. iface_checks' = [d \in DOMAIN iface_checks |-> d = c]
      BY <2>2
    <3> QED
      BY <2>2, <3>1, Zenon
  <2> QED
    BY <2>1, <2>2
<1>2. ChecksTell'
  BY <1>1 DEF ChecksTell
<1>3. FieldsInv'
  <2>1. (FirstIface(currentRoute.gw))' = FirstIface(currentRoute.gw)
    BY DEF FirstIface, Offers
  <2> QED
    BY <2>1 DEF FieldsInv
<1>4. FormTypeOK'
  BY <1>1 DEF FormTypeOK
<1> QED
  BY <1>2, <1>3, <1>4

LEMMA FormInvStep == FormInv /\ [Next]_partsVars => FormInv'
<1> SUFFICES ASSUME FormInv, [Next]_partsVars
             PROVE  FormInv'
  OBVIOUS
<1> USE RouteFormAssumption
<1>1. CASE UNCHANGED tabVars
  BY <1>1, FormKept DEF tabVars, formVars, FormInv, FormTypeOK
<1>2. CASE RefreshReads
  BY <1>2, FormKept DEF RefreshReads, formVars, loadVars, tabHistory, FormInv, FormTypeOK
<1>3. CASE LoadReads
  BY <1>3 DEF LoadReads, formVars, rowVars, tabHistory, FormInv, FormTypeOK, FieldsInv, ChecksTell
<1>4. ASSUME NEW r \in TabChanging, OthersChangeRoute(r)
      PROVE  FormInv'
  BY <1>4, FormKept DEF OthersChangeRoute, formVars, rowVars, loadVars, FormInv, FormTypeOK
<1>5. CASE PressDelete
  BY <1>5, FormKept DEF PressDelete, formVars, rowVars, loadVars, tabHistory, FormInv, FormTypeOK
<1>6. CASE PressAdd
  BY <1>6, ButtonStep DEF PressAdd, FormInv, FormTypeOK
<1>7. CASE PressModify
  <2>1. tabSystem \ DeletedFirst \in SUBSET TabRoutes
    BY DEF FormInv, FormTypeOK
  <2> QED
    BY <1>7, <2>1, ButtonStep DEF PressModify
<1>8. CASE LeavesPrefix
  <2>1. /\ field' = [field EXCEPT !.prefix = CheckedPrefix]
        /\ UNCHANGED <<tabSystem, rowVars, currentRoute, loadVars, tabHistory>>
    BY <1>8 DEF LeavesPrefix
  <2>2. /\ field'.dest = field.dest /\ field'.gw = field.gw /\ field'.iface = field.iface
        /\ field'.prefix = CheckedPrefix /\ DOMAIN field' = DOMAIN field
    BY <2>1 DEF FormInv, FormTypeOK
  <2>3. (FirstIface(currentRoute.gw))' = FirstIface(currentRoute.gw)
    BY <2>1 DEF FirstIface, Offers, loadVars
  <2>4. FieldsInv'
    BY <2>1, <2>2, <2>3, PrefixChecked DEF FormInv, FieldsInv, loadVars, tabHistory
  <2> QED
    BY <2>1, <2>2, <2>4 DEF FormInv, FormTypeOK, ChecksTell, rowVars, loadVars, tabHistory
<1>9. CASE LeavesGateway
  <2>1. PICK g \in CheckedGateways :
           field' = [field EXCEPT !.gw = g.gw, !.iface = g.iface]
    BY <1>9 DEF LeavesGateway
  <2>2. field' = [field EXCEPT !.prefix = field.prefix, !.gw = g.gw, !.iface = g.iface]
    BY <2>1 DEF FormInv, FormTypeOK
  <2>3. left' /\ tabSystem' \subseteq TabRoutes
    BY <1>9 DEF LeavesGateway, FormInv, FormTypeOK
  <2> QED
    BY <1>9, <2>2, <2>3, LeavingStep DEF LeavesGateway
<1>10. ASSUME NEW f, PickFamily(f)
       PROVE  FormInv'
  BY <1>10, FormKept DEF PickFamily, formVars, loadVars, tabHistory, FormInv, FormTypeOK
<1>11. ASSUME NEW x, TypesGateway(x) \/ TypesPrefix(x) \/ PicksPrefix(x) \/ PicksGateway(x)
       PROVE  FormInv'
  <2>1. Edits /\ DOMAIN field' = DOMAIN field
    BY <1>11 DEF TypesGateway, TypesPrefix, PicksPrefix, PicksGateway, Take
  <2> QED
    BY <2>1, EditsStep
<1>12. CASE FormFields
  BY <1>8, <1>9, <1>10, <1>11, <1>12 DEF FormFields
<1>13. CASE UserActs
  BY <1>5, <1>6, <1>7, <1>12, <1>13, SelectRowStep, ClickDefaultStep DEF UserActs
<1> QED
  BY <1>1, <1>2, <1>3, <1>4, <1>13, RefreshedStep, DataArrivesStep, PartSteps DEF RouteFormNext

\* A delete takes the route that was selected, but for the three ways round it, and
\* the default boxes tell the best default routes of the table: for any routes of any
\* system, whatever the user, the refreshes and other programs do.
THEOREM FormTellsAlways == Spec => []FormTells
<1>1. Init => FormInv
  <2> SUFFICES ASSUME Init
               PROVE  FormInv
    OBVIOUS
  <2> USE DEF Init, RouteFormInit
  <2>1. FormTypeOK
    BY DEF FormTypeOK
  <2> QED
    BY <2>1 DEF FormInv, FieldsInv, ChecksTell
<1>2. FormInv => FormTells
  BY FormInvTells DEF FormTells, FormInv
<1> QED
  BY <1>1, <1>2, FormInvStep, PTL DEF Spec

-------------------------------------------------------------------------------
(* Sums over finite sets: MapThenSumSet takes the elements one by one. *)

AnyOf(S) == CHOOSE x \in S : TRUE

\* h has the sums of f over the subsets of S.
SumsUp(f, S, h) ==
    h = [s \in SUBSET S |-> IF s = {} THEN 0 ELSE f[AnyOf(s)] + h[s \ {AnyOf(s)}]]

Total(f, S) == (CHOOSE h : SumsUp(f, S, h))[S]

LEMMA SmallestOf ==
    ASSUME NEW B, B # {}, \A s \in B : IsFiniteSet(s)
    PROVE  \E s \in B : \A u \in B : Cardinality(s) <= Cardinality(u)
<1> DEFINE C == {Cardinality(s) : s \in B}
<1>1. \A s \in B : Cardinality(s) \in Nat
  BY FS_CardinalityType
<1>2. C \subseteq Nat /\ C # {}
  BY <1>1
<1>3. \E m \in C : \A k \in C : m <= k
  <2> HIDE DEF C
  <2> QED
    BY <1>2, Least
<1> QED
  BY <1>3

LEMMA AnySmaller ==
    ASSUME NEW s, IsFiniteSet(s), s # {}
    PROVE  /\ AnyOf(s) \in s /\ IsFiniteSet(s \ {AnyOf(s)})
           /\ ~(Cardinality(s) <= Cardinality(s \ {AnyOf(s)}))
<1>1. AnyOf(s) \in s
  BY DEF AnyOf
<1>2. Cardinality(s) \in Nat
  BY FS_CardinalityType
<1>3. IsFiniteSet(s \ {AnyOf(s)}) /\ Cardinality(s \ {AnyOf(s)}) = Cardinality(s) - 1
  BY <1>1, FS_RemoveElement
<1> QED
  BY <1>1, <1>2, <1>3

LEMMA SumsAreOne ==
    ASSUME NEW f, NEW S, IsFiniteSet(S), NEW g, NEW h, SumsUp(f, S, g), SumsUp(f, S, h)
    PROVE  g = h
<1> DEFINE B == {s \in SUBSET S : g[s] # h[s]}
<1>1. /\ DOMAIN g = SUBSET S /\ DOMAIN h = SUBSET S
      /\ g = [s \in SUBSET S |-> g[s]] /\ h = [s \in SUBSET S |-> h[s]]
      /\ \A s \in SUBSET S : /\ g[s] = IF s = {} THEN 0 ELSE f[AnyOf(s)] + g[s \ {AnyOf(s)}]
                             /\ h[s] = IF s = {} THEN 0 ELSE f[AnyOf(s)] + h[s \ {AnyOf(s)}]
  BY DEF SumsUp
<1>2. ASSUME B # {}
      PROVE  FALSE
  <2>1. \A s \in B : IsFiniteSet(s)
    BY FS_Subset
  <2>2. PICK s \in B : \A u \in B : Cardinality(s) <= Cardinality(u)
    <3> HIDE DEF B
    <3> QED
      BY <1>2, <2>1, SmallestOf
  <2>3. s # {} /\ s \in SUBSET S
    BY <1>1, <2>2
  <2>4. s \ {AnyOf(s)} \notin B
    BY <2>1, <2>2, <2>3, AnySmaller
  <2>5. g[s \ {AnyOf(s)}] = h[s \ {AnyOf(s)}]
    BY <2>3, <2>4
  <2> QED
    BY <1>1, <2>2, <2>3, <2>5
<1> QED
  BY <1>1, <1>2

LEMMA SumsOfPart ==
    ASSUME NEW f, NEW S, NEW T, T \subseteq S, NEW h, SumsUp(f, S, h),
           NEW g, g = [s \in SUBSET T |-> h[s]]
    PROVE  SumsUp(f, T, g)
<1>1. \A s \in SUBSET S : h[s] = IF s = {} THEN 0 ELSE f[AnyOf(s)] + h[s \ {AnyOf(s)}]
  BY DEF SumsUp
<1>2. \A s \in SUBSET T : g[s] = IF s = {} THEN 0 ELSE f[AnyOf(s)] + g[s \ {AnyOf(s)}]
  BY <1>1
<1> QED
  BY <1>2 DEF SumsUp

LEMMA SumsExist ==
    ASSUME NEW f, NEW S, IsFiniteSet(S)
    PROVE  \E h : SumsUp(f, S, h)
<1> DEFINE B == {T \in SUBSET S : ~ \E h : SumsUp(f, T, h)}
<1> SUFFICES ASSUME B # {}
             PROVE  FALSE
  OBVIOUS
<1>1. \A T \in B : IsFiniteSet(T)
  BY FS_Subset
<1>2. PICK T \in B : \A U \in B : Cardinality(T) <= Cardinality(U)
  <2> HIDE DEF B
  <2> QED
    BY <1>1, SmallestOf
<1> DEFINE G(u) == CHOOSE h : SumsUp(f, u, h)
           Less(s) == s \ {AnyOf(s)}
           H == [s \in SUBSET T |-> IF s = {} THEN 0 ELSE f[AnyOf(s)] + G(Less(s))[Less(s)]]
<1>3. T \in SUBSET S /\ IsFiniteSet(T) /\ ~ \E h : SumsUp(f, T, h)
  BY <1>1, <1>2
<1>4. ASSUME NEW s \in SUBSET T, s # {}
      PROVE  Less(s) \in SUBSET T /\ IsFiniteSet(Less(s)) /\ SumsUp(f, Less(s), G(Less(s)))
  <2>1. IsFiniteSet(s) /\ Cardinality(s) <= Cardinality(T)
    BY <1>3, FS_Subset
  <2>2. Less(s) \in SUBSET T /\ IsFiniteSet(Less(s)) /\ ~(Cardinality(s) <= Cardinality(Less(s)))
    BY <1>4, <2>1, AnySmaller
  <2>3. /\ Cardinality(s) \in Nat /\ Cardinality(T) \in Nat
        /\ Cardinality(Less(s)) \in Nat
    BY <1>3, <2>1, <2>2, FS_CardinalityType
  <2>4. ~(Cardinality(T) <= Cardinality(Less(s)))
    BY <2>1, <2>2, <2>3
  <2>5. Less(s) \notin B
    BY <1>2, <2>4
  <2>6. \E h : SumsUp(f, Less(s), h)
    BY <1>3, <2>2, <2>5
  <2> QED
    BY <2>2, <2>6
<1>5. ASSUME NEW s \in SUBSET T, s # {}
      PROVE  G(Less(s))[Less(s)] = H[Less(s)]
  <2> DEFINE u == Less(s)
  <2>1. u \in SUBSET T /\ IsFiniteSet(u) /\ SumsUp(f, u, G(u))
    BY <1>4, <1>5
  <2>2. G(u)[u] = IF u = {} THEN 0 ELSE f[AnyOf(u)] + G(u)[Less(u)]
    <3> HIDE DEF u, G
    <3>1. G(u) = [s1 \in SUBSET u |-> IF s1 = {} THEN 0
                                      ELSE f[AnyOf(s1)] + G(u)[s1 \ {AnyOf(s1)}]]
      BY <2>1 DEF SumsUp
    <3> QED
      BY <3>1
  <2>3. H[u] = IF u = {} THEN 0 ELSE f[AnyOf(u)] + G(Less(u))[Less(u)]
    <3> HIDE DEF u, G
    <3> QED
      BY <2>1
  <2>4. ASSUME u # {}
        PROVE  G(u)[u] = H[u]
    <3> HIDE DEF u, G
    <3>1. SumsUp(f, Less(u), G(Less(u))) /\ IsFiniteSet(Less(u))
      BY <1>4, <2>1, <2>4
    <3>2. PICK d : d = [s1 \in SUBSET Less(u) |-> G(u)[s1]]
      OBVIOUS
    <3>3. G(Less(u)) = d
      <4>1. SumsUp(f, Less(u), d)
        <5>1. Less(u) \subseteq u
          OBVIOUS
        <5> HIDE DEF Less
        <5> QED
          BY <2>1, <3>2, <5>1, SumsOfPart
      <4> QED
        BY <3>1, <4>1, SumsAreOne
    <3>4. G(Less(u))[Less(u)] = G(u)[Less(u)]
      BY <3>2, <3>3
    <3> QED
      BY <2>2, <2>3, <2>4, <3>4
  <2> QED
    BY <2>2, <2>3, <2>4
<1>6. SumsUp(f, T, H)
  <2>1. \A s \in SUBSET T : H[s] = IF s = {} THEN 0 ELSE f[AnyOf(s)] + H[s \ {AnyOf(s)}]
    <3> SUFFICES ASSUME NEW s \in SUBSET T
                 PROVE  H[s] = IF s = {} THEN 0 ELSE f[AnyOf(s)] + H[s \ {AnyOf(s)}]
      OBVIOUS
    <3>1. H[s] = IF s = {} THEN 0 ELSE f[AnyOf(s)] + G(Less(s))[Less(s)]
      OBVIOUS
    <3>2. s # {} => G(Less(s))[Less(s)] = H[s \ {AnyOf(s)}]
      BY <1>5
    <3> HIDE DEF H, G
    <3> QED
      BY <3>1, <3>2
  <2>2. H = [s \in SUBSET T |-> H[s]]
    OBVIOUS
  <2> HIDE DEF H
  <2> QED
    BY <2>1, <2>2 DEF SumsUp
<1> QED
  BY <1>3, <1>6

\* The sum over a set is that over a smaller one and the value of the rest.
LEMMA TotalSteps ==
    ASSUME NEW f, NEW S, IsFiniteSet(S)
    PROVE  Total(f, S) = IF S = {} THEN 0 ELSE f[AnyOf(S)] + Total(f, S \ {AnyOf(S)})
<1>1. PICK U : U = S \ {AnyOf(S)}
  OBVIOUS
<1>2. IsFiniteSet(U) /\ U \subseteq S
  BY <1>1, FS_RemoveElement
<1>3. PICK e : e = CHOOSE g : SumsUp(f, S, g)
  OBVIOUS
<1>4. PICK k : k = CHOOSE g : SumsUp(f, U, g)
  OBVIOUS
<1>5. SumsUp(f, S, e) /\ SumsUp(f, U, k)
  BY <1>2, <1>3, <1>4, SumsExist
<1>6. PICK d : d = [s \in SUBSET U |-> e[s]]
  OBVIOUS
<1>7. k = [s \in SUBSET U |-> e[s]]
  <2>1. SumsUp(f, U, d)
    BY <1>2, <1>5, <1>6, SumsOfPart
  <2> QED
    BY <1>2, <1>5, <1>6, <2>1, SumsAreOne
<1>8. Total(f, S) = e[S] /\ Total(f, U) = e[U]
  BY <1>3, <1>4, <1>7 DEF Total
<1>9. \A s \in SUBSET S : e[s] = IF s = {} THEN 0 ELSE f[AnyOf(s)] + e[s \ {AnyOf(s)}]
  BY <1>5 DEF SumsUp
<1> QED
  BY <1>1, <1>8, <1>9

\* A sum that takes its elements as SumsUp does is the total.
LEMMA TotalIsOne ==
    ASSUME NEW f, NEW S, IsFiniteSet(S), NEW g, SumsUp(f, S, g)
    PROVE  g[S] = Total(f, S)
<1>1. SumsUp(f, S, CHOOSE h : SumsUp(f, S, h))
  BY SumsExist
<1>2. g = CHOOSE h : SumsUp(f, S, h)
  <2> DEFINE h == CHOOSE h : SumsUp(f, S, h)
  <2>1. SumsUp(f, S, h)
    BY <1>1
  <2> HIDE DEF h
  <2>2. g = h
    BY <2>1, SumsAreOne
  <2> QED
    BY <2>2 DEF h
<1> QED
  BY <1>2 DEF Total

\* Words that have wrapped add up to the same, but for whole words.
LEMMA WrappedTotal ==
    ASSUME NEW w \in Nat \ {0}, NEW S, IsFiniteSet(S), NEW t, NEW f,
           \A i \in S : t[i] \in Int /\ f[i] = t[i] % w
    PROVE  /\ Total(t, S) \in Int /\ Total(f, S) \in Int
           /\ \E k \in Int : Total(f, S) = Total(t, S) + w * k
<1> DEFINE Good(s) == /\ Total(t, s) \in Int /\ Total(f, s) \in Int
                      /\ \E k \in Int : Total(f, s) = Total(t, s) + w * k
           B == {s \in SUBSET S : ~Good(s)}
<1>1. \A s \in SUBSET S : IsFiniteSet(s)
  BY FS_Subset
<1>2. ASSUME NEW s \in SUBSET S, s = {} \/ Good(s \ {AnyOf(s)})
      PROVE  Good(s)
  <2>1. /\ Total(t, s) = IF s = {} THEN 0 ELSE t[AnyOf(s)] + Total(t, s \ {AnyOf(s)})
        /\ Total(f, s) = IF s = {} THEN 0 ELSE f[AnyOf(s)] + Total(f, s \ {AnyOf(s)})
    BY <1>1, TotalSteps
  <2>2. CASE s = {}
    <3>1. 0 = 0 + w * 0
      OBVIOUS
    <3>2. Total(t, s) = 0 /\ Total(f, s) = 0
      BY <2>1, <2>2
    <3> QED
      BY <3>1, <3>2
  <2>3. CASE s # {}
    <3> DEFINE x == AnyOf(s)
               a == Total(t, s \ {x})
               b == Total(f, s \ {x})
    <3>1. PICK k \in Int : a \in Int /\ b \in Int /\ b = a + w * k
      BY <1>2, <2>3
    <3>2. x \in S
      BY <1>1, <2>3, AnySmaller
    <3>3. t[x] \in Int /\ f[x] = t[x] % w
      BY <3>2
    <3>4. Total(t, s) = t[x] + a /\ Total(f, s) = f[x] + b
      BY <2>1, <2>3
    <3> HIDE DEF x, a, b
    <3> DEFINE q == t[x] \div w
    <3>5. q \in Int /\ t[x] = (w * q) + (t[x] % w) /\ t[x] % w \in Int
      BY <3>3
    <3> HIDE DEF q
    <3>6. w * (k - q) = (w * k) - (w * q) /\ w * k \in Int /\ w * q \in Int /\ k - q \in Int
      BY <3>1, <3>5
    <3>7. Total(f, s) = Total(t, s) + w * (k - q)
      BY <3>1, <3>3, <3>4, <3>5, <3>6
    <3>8. Total(t, s) \in Int /\ Total(f, s) \in Int
      BY <3>1, <3>3, <3>4, <3>5
    <3> QED
      BY <3>6, <3>7, <3>8
  <2> QED
    BY <2>2, <2>3
<1>3. ASSUME B # {}
      PROVE  FALSE
  <2>1. \A s \in B : s \in SUBSET S /\ IsFiniteSet(s) /\ ~Good(s)
    BY <1>1
  <2>2. PICK s \in B : \A u \in B : Cardinality(s) <= Cardinality(u)
    <3> HIDE DEF B
    <3> QED
      BY <1>3, <2>1, SmallestOf
  <2>3. s \in SUBSET S /\ IsFiniteSet(s) /\ ~Good(s)
    BY <2>1, <2>2
  <2> HIDE DEF Good
  <2>4. s # {} => s \ {AnyOf(s)} \notin B /\ s \ {AnyOf(s)} \in SUBSET S
    BY <2>2, <2>3, AnySmaller
  <2>5. s = {} \/ Good(s \ {AnyOf(s)})
    BY <2>4
  <2> QED
    BY <1>2, <2>3, <2>5
<1>4. Good(S)
  BY <1>3
<1> QED
  BY <1>4

-------------------------------------------------------------------------------
(* The rate of the packet monitor. *)

\* A reading that succeeded is the sum of the words of the interfaces it lists.
TrueReading(r) ==
    r.ok => /\ r.nics \subseteq Nics /\ r.truth \in [Nics -> Nat]
            /\ r.sum = Total([i \in r.nics |-> r.truth[i] % Word], r.nics)

RateInv ==
    /\ sent \in [Nics -> Nat] /\ plugged \subseteq Nics
    /\ DOMAIN poll = Ticks
    /\ \A t \in Ticks : /\ DOMAIN poll[t] = {"at", "now", "got", "positive"}
                        /\ TrueReading(poll[t].got)
    /\ TrueReading(buffer) /\ TrueReading(last)
    /\ TrueReading(shown.from) /\ TrueReading(shown.to)
    /\ shown.from.ok /\ shown.to.ok => shown.bytes = Difference(shown.to.sum, shown.from.sum)

LEMMA SumOfWords ==
    ASSUME NEW S, S \subseteq Nics
    PROVE  MapThenSumSet(Counter, S) = Total([i \in S |-> sent[i] % Word], S)
<1>1. PICK f : f = [i \in S |-> sent[i] % Word]
  OBVIOUS
<1> DEFINE Adds(g) == g = [s \in SUBSET S |->
                              IF s = {} THEN 0
                              ELSE (sent[CHOOSE x \in s : TRUE] % Word)
                                   + g[s \ {CHOOSE x \in s : TRUE}]]
<1>2. MapThenSumSet(Counter, S) = (CHOOSE g : Adds(g))[S]
  BY DEF MapThenSumSet, MapThenFoldSet, Counter
<1>3. \A g : Adds(g) <=> SumsUp(f, S, g)
  BY <1>1 DEF SumsUp, AnyOf
<1>4. IsFiniteSet(S)
  BY InterceptorAssumption, FS_Subset
<1> HIDE DEF Adds
<1>5. Adds(CHOOSE g : Adds(g))
  BY <1>3, <1>4, SumsExist
<1>6. PICK g : g = (CHOOSE h : Adds(h)) /\ SumsUp(f, S, g)
  BY <1>3, <1>5
<1>7. g[S] = Total(f, S)
  BY <1>4, <1>6, TotalIsOne
<1> QED
  BY <1>1, <1>2, <1>6, <1>7

LEMMA SumOfBytes ==
    ASSUME NEW r, r.nics \subseteq Nics
    PROVE  Bytes(r) = Total(r.truth, r.nics)
<1>1. PICK S, f : S = r.nics /\ f = r.truth
  OBVIOUS
<1> DEFINE Adds(g) == g = [s \in SUBSET S |->
                              IF s = {} THEN 0
                              ELSE f[CHOOSE x \in s : TRUE] + g[s \ {CHOOSE x \in s : TRUE}]]
<1>2. Bytes(r) = (CHOOSE g : Adds(g))[S]
  BY <1>1 DEF Bytes, MapThenSumSet, MapThenFoldSet
<1>3. \A g : Adds(g) <=> SumsUp(f, S, g)
  BY DEF SumsUp, AnyOf
<1>4. IsFiniteSet(S)
  BY <1>1, InterceptorAssumption, FS_Subset
<1> HIDE DEF Adds
<1>5. Adds(CHOOSE g : Adds(g))
  BY <1>3, <1>4, SumsExist
<1>6. PICK g : g = (CHOOSE h : Adds(h)) /\ SumsUp(f, S, g)
  BY <1>3, <1>5
<1>7. g[S] = Total(f, S)
  BY <1>4, <1>6, TotalIsOne
<1> QED
  BY <1>1, <1>2, <1>6, <1>7

\* Whole words do not show in the difference.
LEMMA WordsCancel ==
    ASSUME NEW w \in Nat \ {0}, NEW a \in Int, NEW b \in Int, NEW j \in Int, NEW k \in Int,
           NEW x \in Int, NEW y \in Int, x = a + w * j, y = b + w * k, a - b \in 0..(w - 1)
    PROVE  (x - y + w) % w = a - b
<1> DEFINE d == a - b
           m == (j - k) + 1
<1>1. /\ m \in Int /\ d \in 0..(w - 1) /\ w * j \in Int /\ w * k \in Int
      /\ w * m = ((w * j) - (w * k)) + w
  OBVIOUS
<1>2. x - y + w = d + w * m
  BY <1>1
<1>3. (d + w * m) % w = d
  <2> HIDE DEF d, m
  <2> DEFINE z == d + w * m
             q == z \div w
             r == z % w
  <2>1. w * m \in Int /\ z \in Int
    BY <1>1
  <2>2. q \in Int /\ r \in 0..(w - 1) /\ z = (w * q) + r
    <3> HIDE DEF z
    <3> QED
      BY <2>1
  <2> HIDE DEF q, r
  <2>3. w * (m - q) = (w * m) - (w * q) /\ w * q \in Int /\ m - q \in Int
    BY <1>1, <2>2
  <2>4. w * (m - q) = r - d
    BY <1>1, <2>1, <2>2, <2>3
  <2>5. m - q = 0
    <3>1. ASSUME m - q >= 1
          PROVE  FALSE
      <4>1. w * (m - q) >= w
        BY <2>3, <3>1
      <4> QED
        BY <1>1, <2>2, <2>4, <4>1
    <3>2. ASSUME m - q <= -1
          PROVE  FALSE
      <4>1. w * (m - q) <= -w
        BY <2>3, <3>2
      <4> QED
        BY <1>1, <2>2, <2>4, <4>1
    <3> QED
      BY <2>3, <3>1, <3>2
  <2>6. r = d
    BY <1>1, <2>2, <2>4, <2>5
  <2> QED
    BY <2>6 DEF r, z
<1> QED
  BY <1>2, <1>3 DEF d

LEMMA RateInvTells == RateInv => RateIsTrue
<1> SUFFICES ASSUME RateInv, shown.from.ok, shown.to.ok, shown.from.nics = shown.to.nics,
                    Bytes(shown.to) - Bytes(shown.from) \in 0..(Word - 1)
             PROVE  shown.bytes = Bytes(shown.to) - Bytes(shown.from)
  BY DEF RateIsTrue
<1>1. PICK S, t, u, f, g :
          /\ S = shown.to.nics /\ t = shown.to.truth /\ u = shown.from.truth
          /\ f = [i \in S |-> t[i] % Word] /\ g = [i \in S |-> u[i] % Word]
  OBVIOUS
<1>2. /\ S \subseteq Nics /\ IsFiniteSet(S) /\ t \in [Nics -> Nat] /\ u \in [Nics -> Nat]
      /\ shown.to.sum = Total(f, S) /\ shown.from.sum = Total(g, S)
      /\ shown.bytes = Difference(shown.to.sum, shown.from.sum)
  BY <1>1, InterceptorAssumption, FS_Subset DEF RateInv, TrueReading
<1>3. Bytes(shown.to) = Total(t, S) /\ Bytes(shown.from) = Total(u, S)
  <2>1. PICK r, s : r = shown.to /\ s = shown.from
    OBVIOUS
  <2>2. Bytes(r) = Total(r.truth, r.nics) /\ Bytes(s) = Total(s.truth, s.nics)
    BY <1>1, <1>2, <2>1, SumOfBytes
  <2> QED
    BY <1>1, <2>1, <2>2
<1>4. /\ Total(t, S) \in Int /\ Total(f, S) \in Int
      /\ \E k \in Int : Total(f, S) = Total(t, S) + Word * k
  <2>1. \A i \in S : t[i] \in Int /\ f[i] = t[i] % Word
    BY <1>1, <1>2
  <2> QED
    BY <1>2, <2>1, WrappedTotal, InterceptorAssumption
<1>5. /\ Total(u, S) \in Int /\ Total(g, S) \in Int
      /\ \E k \in Int : Total(g, S) = Total(u, S) + Word * k
  <2>1. \A i \in S : u[i] \in Int /\ g[i] = u[i] % Word
    BY <1>1, <1>2
  <2> QED
    BY <1>2, <2>1, WrappedTotal, InterceptorAssumption
<1>6. (Total(f, S) - Total(g, S) + Word) % Word = Total(t, S) - Total(u, S)
  <2>1. PICK j \in Int : Total(f, S) = Total(t, S) + Word * j
    BY <1>4
  <2>2. PICK k \in Int : Total(g, S) = Total(u, S) + Word * k
    BY <1>5
  <2>3. PICK a, b, x, y : /\ a = Total(t, S) /\ b = Total(u, S)
                          /\ x = Total(f, S) /\ y = Total(g, S)
    OBVIOUS
  <2>4. /\ a \in Int /\ b \in Int /\ x \in Int /\ y \in Int /\ a - b \in 0..(Word - 1)
        /\ x = a + Word * j /\ y = b + Word * k
    BY <1>3, <1>4, <1>5, <2>1, <2>2, <2>3
  <2>5. (x - y + Word) % Word = a - b
    BY <2>1, <2>2, <2>4, WordsCancel, InterceptorAssumption
  <2> QED
    BY <2>3, <2>5
<1> QED
  BY <1>2, <1>3, <1>6 DEF Difference

LEMMA ReadingIsSum ==
    ASSUME RateInv
    PROVE  TrueReading(Reading) /\ TrueReading(Zeros)
<1>1. plugged \subseteq Nics /\ sent \in [Nics -> Nat]
  BY DEF RateInv
<1>2. MapThenSumSet(Counter, plugged) = Total([i \in plugged |-> sent[i] % Word], plugged)
  <2>1. PICK S : S = plugged
    OBVIOUS
  <2>2. MapThenSumSet(Counter, S) = Total([i \in S |-> sent[i] % Word], S)
    BY <1>1, <2>1, SumOfWords
  <2> QED
    BY <2>1, <2>2
<1> DEFINE r == Reading
<1>3. r.nics = plugged /\ r.truth = sent /\ r.sum = MapThenSumSet(Counter, plugged)
  BY DEF Reading
<1>4. TrueReading(r)
  <2> HIDE DEF r
  <2> QED
    BY <1>1, <1>2, <1>3 DEF TrueReading
<1>5. TrueReading(Zeros)
  BY DEF TrueReading, Zeros
<1> QED
  BY <1>4, <1>5

LEMMA RateInvStep == RateInv /\ [Next]_partsVars => RateInv'
<1> SUFFICES ASSUME RateInv, [Next]_partsVars
             PROVE  RateInv'
  OBVIOUS
<1>1. PICK reading : reading = Reading /\ TrueReading(reading)
  BY ReadingIsSum
<1>2. PICK zeros : zeros = Zeros /\ TrueReading(zeros)
  BY ReadingIsSum
<1>3. CASE UNCHANGED interceptorVars \/ StopCapture \/ TimerTicks
  BY <1>3 DEF StopCapture, TimerTicks, interceptorVars, RateInv, TrueReading, Difference
<1>4. CASE StartCapture
  <2>1. /\ UNCHANGED <<sent, plugged, poll, shown>>
        /\ buffer' \in {reading, buffer} /\ last' \in {reading, zeros}
    BY <1>1, <1>2, <1>4 DEF StartCapture
  <2> QED
    BY <1>1, <1>2, <2>1 DEF RateInv, TrueReading, Difference
<1>5. ASSUME NEW i \in Nics, Sends(i) \/ Flaps(i)
      PROVE  RateInv'
  <2>1. sent' \in [Nics -> Nat] /\ plugged' \subseteq Nics
    BY <1>5 DEF Sends, Flaps, RateInv
  <2> QED
    BY <1>5, <2>1 DEF Sends, Flaps, RateInv, TrueReading, Difference
<1>6. ASSUME NEW t \in Ticks, PollStep(t)
      PROVE  RateInv'
  <2>1. CASE PollDropped(t)
    BY <2>1 DEF PollDropped, RateInv, TrueReading, Difference
  <2>2. ASSUME NEW p, DOMAIN p = {"at", "now", "got", "positive"}, TrueReading(p.got),
               poll' = [poll EXCEPT ![t] = p]
        PROVE  /\ DOMAIN poll' = Ticks
               /\ \A s \in Ticks : /\ DOMAIN poll'[s] = {"at", "now", "got", "positive"}
                                   /\ TrueReading(poll'[s].got)
    <3>1. DOMAIN poll' = Ticks /\ \A s \in Ticks : poll'[s] = IF s = t THEN p ELSE poll[s]
      BY <2>2 DEF RateInv
    <3> QED
      BY <2>2, <3>1 DEF RateInv
  <2>3. CASE PollBegins(t) \/ PollReads(t)
    <3>1. PICK p : /\ poll' = [poll EXCEPT ![t] = p] /\ p.got = poll[t].got
                   /\ DOMAIN p = {"at", "now", "got", "positive"}
      <4>1. CASE PollBegins(t)
        <5>1. poll' = [poll EXCEPT ![t] = [poll[t] EXCEPT !.at = "reads", !.now = clock]]
          BY <4>1 DEF PollBegins, RateInv
        <5> QED
          BY <5>1 DEF RateInv
      <4>2. CASE PollReads(t)
        <5>1. poll' = [poll EXCEPT ![t] = [poll[t] EXCEPT !.at = "sums"]]
          BY <4>2 DEF PollReads, RateInv
        <5> QED
          BY <5>1 DEF RateInv
      <4> QED
        BY <2>3, <4>1, <4>2
    <3>2. buffer' \in {reading, buffer} /\ UNCHANGED <<sent, plugged, last, shown>>
      BY <1>1, <2>3 DEF PollBegins, PollReads
    <3>3. TrueReading(p.got)
      BY <3>1 DEF RateInv
    <3> QED
      BY <1>1, <2>2, <3>1, <3>2, <3>3 DEF RateInv, TrueReading, Difference
  <2>4. CASE PollFails(t) \/ PollSums(t)
    <3>1. PICK p : /\ poll' = [poll EXCEPT ![t] = p] /\ p.got \in {zeros, buffer}
                   /\ DOMAIN p = {"at", "now", "got", "positive"}
      <4>1. PICK g, b : /\ poll' = [poll EXCEPT ![t] = [poll[t] EXCEPT !.at = "applies", !.got = g,
                                                                      !.positive = b]]
                        /\ g \in {zeros, buffer}
        BY <1>2, <2>4 DEF PollFails, PollSums, RateInv
      <4> QED
        BY <4>1 DEF RateInv
    <3>2. UNCHANGED <<sent, plugged, buffer, last, shown>>
      BY <2>4 DEF PollFails, PollSums
    <3>3. TrueReading(p.got)
      BY <1>2, <3>1 DEF RateInv
    <3> QED
      BY <2>2, <3>1, <3>2, <3>3 DEF RateInv, TrueReading, Difference
  <2>5. CASE PollApplies(t)
    <3>1. /\ shown' = IF poll[t].positive
                      THEN [bytes |-> Difference(poll[t].got.sum, last.sum),
                            from |-> last, to |-> poll[t].got]
                      ELSE shown
          /\ last' = poll[t].got /\ poll' = [poll EXCEPT ![t] = Idle]
          /\ UNCHANGED <<sent, plugged, buffer>>
      BY <2>5 DEF PollApplies
    <3>2. DOMAIN Idle = {"at", "now", "got", "positive"} /\ Idle.got = zeros
      BY <1>2 DEF Idle
    <3>3. /\ DOMAIN poll' = Ticks
          /\ \A s \in Ticks : /\ DOMAIN poll'[s] = {"at", "now", "got", "positive"}
                              /\ TrueReading(poll'[s].got)
      BY <1>2, <2>2, <3>1, <3>2
    <3>4. /\ TrueReading(shown'.from) /\ TrueReading(shown'.to)
          /\ shown'.from.ok /\ shown'.to.ok =>
                shown'.bytes = Difference(shown'.to.sum, shown'.from.sum)
      <4>1. CASE poll[t].positive
        <5>1. /\ shown'.from = last /\ shown'.to = poll[t].got
              /\ shown'.bytes = Difference(poll[t].got.sum, last.sum)
          BY <3>1, <4>1
        <5> QED
          BY <5>1 DEF RateInv
      <4>2. CASE ~poll[t].positive
        BY <3>1, <4>2 DEF RateInv
      <4> QED
        BY <4>1, <4>2
    <3> QED
      BY <3>1, <3>3, <3>4 DEF RateInv, TrueReading, Difference
  <2> QED
    BY <1>6, <2>1, <2>3, <2>4, <2>5 DEF PollStep
<1> QED
  BY <1>3, <1>4, <1>5, <1>6, PartSteps DEF InterceptorNext

\* The rate is the traffic between two readings: for any number of interfaces, any
\* width of the counters, and however polls overlap with one another and the user.
THEOREM RateIsTrueAlways == Spec => []RateIsTrue
<1>1. Init => RateInv
  <2> SUFFICES ASSUME Init
               PROVE  RateInv
    OBVIOUS
  <2>1. /\ poll = [t \in Ticks |-> Idle] /\ buffer = Zeros /\ last = Zeros /\ shown = NotShown
        /\ sent = [i \in Nics |-> 0] /\ plugged = Nics
    BY DEF Init, InterceptorInit
  <2>2. TrueReading(Zeros) /\ ~Zeros.ok
    BY DEF TrueReading, Zeros
  <2>3. DOMAIN Idle = {"at", "now", "got", "positive"} /\ Idle.got = Zeros
    BY DEF Idle
  <2>4. NotShown.from = Zeros /\ NotShown.to = Zeros
    BY DEF NotShown
  <2> QED
    BY <2>1, <2>2, <2>3, <2>4 DEF RateInv
<1> QED
  BY <1>1, RateInvTells, RateInvStep, PTL DEF Spec
===============================================================================
