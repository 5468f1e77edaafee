SPECIFICATION FairSpec
CONSTANTS
  c1 = c1
  c2 = c2
  d1 = d1
  i1 = i1
  r1 = r1
  idx = idx
  idy = idy
  idw = idw
  Nothing = Nothing
  Cmd = {c1, c2, d1}
  Resident = {r1}
  Inner = {i1}
  Asking = {c2}
  Id = {idx, idy, idw}
  Unknown = {c2}
  Dispatch = {d1}
  PipeCap = 1
  IdOf <- MCIdOf
  Carries <- MCCarries
INVARIANTS
  FlagLapses
PROPERTIES
  ImplementsMailbox
  Answered
CHECK_DEADLOCK FALSE
