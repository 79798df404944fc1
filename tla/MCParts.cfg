SPECIFICATION Spec
CONSTANTS
  Ifaces = {1, 2}
  IfaceName <- MCIfaceNames
  Gateways = {"g1", "g6"}
  OnLink = "-"
  Addresses = {"a1"}
  NoAddress = "none"
  Defaults <- MCDefaults
  MaxNetChanges = 3
  MaxTicks = 2
  Nics = {n1, n2}
  Word = 2
  MaxSent = 2
  MaxStarts = 2
  MaxFlaps = 1
  Conns = {c1, c2, c3}
  CycleCap = 1
  RouteKeys = {k1, k2}
  RouteVals = {1, 2, 3}
  Visible <- MCVisible
  BurstCap = 2
  Links = {i1, i2}
  CounterWord = 2
  Kinds = {m1, m2}
  HandleKinds = {m1}
  MaxWorldSteps = 4
  RowKeys = {k1, k2, k3}
  DefaultKeys = {k1}
  MaxRows = 2
  Duration = 1
  MaxTime = 4
  MaxTests = 3
  MaxPosted = 3
  Rules = {r1, r2}
  Foreign = {f1}
  Names = {"n1", "n2"}
  RuleName <- MCRuleNames
  EveryName = "n2"
  MaxProcesses = 2
  MaxLoops = 2
  MaxSessions = 2
  MaxOthers = 2
  MaxAdapters = 2
  MaxPollers = 2
  MaxRecords = 4
  ChannelSize = 3
  MaxUnread = 1
  Paths = {p1, p2}
  NoPath = nopath
  MaxOctets = 2
  Burst = 2
  MaxSane = 1
  LastSecond = 3
  MaxMishaps = 1
  PingTicks = 2
  MaxPings = 3
  TabRoutes <- MCTabRoutes
  TabMetric <- MCTabMetric
  TabChanging <- MCTabChanging
  TabIfaces <- MCTabIfaces
  Next4 = {"g1"}
  Next6 = {"g6"}
  Direct4 = "0.0.0.0"
  Direct6 = "::"
  NoChoice = nochoice
  FirstLen = 24
  MaxGestures = 3
  MaxTabChanges = 1
INVARIANTS
  SceneMatchesGraph
  ShowsNetwork
  RateIsTrue
  LogIsTrue
  NotificationsHold
  HighlightsFollowRoutes
  ButtonsTell
  FirewallIsKnown
  LeavesNoTrace
  ReadsItsSession
  PublishedExactlyOnce
  RatesAreTrue
  PingsInOrder
  FormTells
CHECK_DEADLOCK FALSE
