SPECIFICATION Spec
CONSTANTS
  p = p
  Key = {k1, k2}
  Pid = {p}
  PidOf <- OnePid
  Fd = {f1}
  Mark = {4}
  Half = 4
  Absent = Absent
  Dead = Dead
  Plain = Plain
  NoKey = NoKey
  NoSocket = NoSocket
  MaxChanges = 2
INVARIANTS
  TypeOK
  SocketsFollow
  StopClears
  ScanOwnProcess
  NoDanglingLinks
SYMMETRY Symmetry
CHECK_DEADLOCK FALSE
