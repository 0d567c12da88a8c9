SPECIFICATION DeskSpec
CONSTANTS
  Zone = 3600
  MonthDays = 30
  CopilotFloor = 5
  RunwayTurns = 4
  ExpensivePercent = 75
  ChartWindow = 1800
  HeaderLines = 2
  MaxLines = 20
  Desks <- Machines
  Kind <- SourceKind
  File <- SourceFile
  Lines <- SourceLines
  Stops <- SourceStops
  HermesAt <- HermesStates
  Remote <- Remotes
  SlotLength = 60
  Delays <- Waits
  Samples <- History0
  Groups <- GroupRows
  Thresholds <- Limits
  ChartTicks = 1
  HistTicks = 2
  HiddenTicks = 2
  MaxTime = 4
  MaxHides = 1
  MaxBad = 1
  v1 = v1
  v2 = v2
  Viewers = {v1, v2}
  BookTurns <- Booked
  BookTimes <- Mondays
  DayTicks = 4
  TickWindow = 1
  MaxInstant = 4
  MaxTurns = 2
  l1 = l1
  Logins = {l1}
  MaxExpiries = 1
INVARIANTS TotalsAgree ReadsLoseNothing CallsLoseNothing LiveAddsUp DrawerMatchesTicker EpisodesReported BundleAgrees StageComesToRest PageRingIsWindow TotalsOfTheirDay
PROPERTIES ScoresAreFinal PageKeepsUp SignInStands
CHECK_DEADLOCK FALSE
