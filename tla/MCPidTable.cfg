SPECIFICATION FairSpec
CONSTANTS
  p1 = p1
  p2 = p2
  o1 = o1
  n1 = n1
  n2 = n2
  Proc = {p1, p2, o1}
  Orphan = {o1}
  Pid = {n1, n2}
  SigCap = 1
  NoPid = NoPid
  NoProc = NoProc
  Nobody = Nobody
INVARIANTS
  OwnStatus
PROPERTIES
  WaitReturns
CHECK_DEADLOCK FALSE
