SPECIFICATION FairSpec
CONSTANTS
  Absent = Absent
  NoMatch = NoMatch
  Foreign = Foreign
  app = app
  shell = shell
  Key = {p1, p2}
  Comm = {app, shell}
  InitiallyRunning = {p1}
  InitComm = shell
  RingCap = 1
  Lossy = TRUE
  MapCap = 1
  MaxMoves = 3
  StartClock = 2
  ThreadForks = FALSE
  LeaderExits = TRUE
  Policies <- FaultPolicies
  InitPolicy <- AppInKernel
  ApiMarks <- SomeApiMarks
  MaxGeneration = 3
  TombTTL = 1
  TombCollectionEvents = 1
  TimeModulus = 100
  AbortIteration = TRUE
  Starts = {"booted"}
  HostTraffic = TRUE
  Traversals = TRUE
INVARIANTS
  MapsConverge
PROPERTIES
  MirrorIsRegistry
  DeadTombstoned
  StaleHealed
CHECK_DEADLOCK FALSE
