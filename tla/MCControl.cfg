SPECIFICATION FairSpec
CONSTANTS
  a = a
  b = b
  o = o
  EmptyComm = EmptyComm
  Comm = {a, b, EmptyComm}
  Other = {o}
  Decision = {d1, d2}
  InitDecision = d1
  NoDecision = NoDecision
  NoMatch = NoMatch
  MaxKernelCommRules = 2
  Req = {r1, r2}
  Bodies <- MCBodies
  InitRules <- MCInitRules
  NoReport = NoReport
  Free = Free
  MaxRequests = 3
INVARIANTS
  TypeOK
  PolicyMatchesConfig
  PolicyAgrees
  ReportConsistent
  DefaultsFresh
  ManagerAgrees
PROPERTIES
  RequestsAnswered
  StopReturns
CHECK_DEADLOCK FALSE
