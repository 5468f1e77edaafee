SPECIFICATION FairJobSpec
CONSTANTS
  ending = ending
  signaling = signaling
  unscheduling = unscheduling
  Restarts = {0, 1, 2}
  Caller <- ThreeCallers
  Call <- MCCall
  Sig <- MCSig
  SigCap = 1
  MaxBegun = 4
INVARIANTS
  AtMostOneMoreRun
  RunsAsAsked
PROPERTIES
  TerminateEnds
  TimeoutEndsRun
CHECK_DEADLOCK FALSE
