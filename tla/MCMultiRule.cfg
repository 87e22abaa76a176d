SPECIFICATION FairSpec
CONSTANTS
  k1 = k1
  k2 = k2
  k3 = k3
  one = one
  two = two
  a = a
  b = b
  NoPid = NoPid
  NoKey = NoKey
  NoRule = NoRule
  Untracked = Untracked
  Key = {k1, k2, k3}
  Pid = {one, two}
  TgidOf <- SharedPid
  Comm = {a, b}
  InitComm = a
  Rules <- TwoRules
  MaxID = 2
  MaxMoves = 6
INVARIANTS
  TypeOK
  NoGhostRules
  MatchesHeld
  PropagationExact
  LatestTracked
PROPERTIES
  NoRuleReplaced
  RegisterTerminates
