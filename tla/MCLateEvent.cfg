SPECIFICATION FairSpec
CONSTANTS
  Absent = Absent
  NoMatch = NoMatch
  Foreign = Foreign
  app = app
  shell = shell
  Key = {p1, p2}
  Comm = {app, shell}
  InitiallyRunning = {p1}
  InitComm = shell
  RingCap = 3
  Lossy = FALSE
  MapCap = 2
  MaxMoves = 2
  StartClock = 2
  ThreadForks = FALSE
  LeaderExits = FALSE
  Policies <- NoPolicies
  InitPolicy <- AppInKernel
  ApiMarks <- NoApiMarks
  MaxGeneration = 3
  TombTTL = 1
  TombCollectionEvents = 100
  TimeModulus = 100
  AbortIteration = FALSE
  Starts = {"booted"}
  HostTraffic = FALSE
  Traversals = FALSE
PROPERTY NoRevival
CHECK_DEADLOCK FALSE
