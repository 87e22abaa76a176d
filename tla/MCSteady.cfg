SPECIFICATION Spec
CONSTANTS
  Absent = Absent
  NoMatch = NoMatch
  Foreign = Foreign
  app = app
  shell = shell
  Key = {p1, p2}
  Comm = {app, shell}
  InitiallyRunning = {p1}
  InitComm = shell
  RingCap = 2
  Lossy = FALSE
  MapCap = 2
  MaxMoves = 4
  StartClock = 0
  ThreadForks = FALSE
  LeaderExits = FALSE
  Policies <- SteadyPolicies
  InitPolicy <- AppInKernel
  ApiMarks <- NoApiMarks
  MaxGeneration = 3
  TombTTL = 1
  TombCollectionEvents = 100
  TimeModulus = 100
  AbortIteration = FALSE
  Starts = {"fresh", "booted"}
  HostTraffic = FALSE
  Traversals = TRUE
INVARIANTS
  TypeOK
  MapsConverge
  NoStaleGeneration
  MatchEnforced
  MissEnforced
  ConsumersInSync
PROPERTIES
  MirrorIsRegistry
CHECK_DEADLOCK FALSE
