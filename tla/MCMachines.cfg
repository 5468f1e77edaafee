SPECIFICATION Spec
CONSTANTS
  Vm <- Machine
  Incoming <- Moved
  Flist <- Made
  Port <- Ports
  PortsOf <- Wants
  Device <- Disk
  Op <- Ops
  Does <- OpDoes
  On <- OpOn
  With <- OpWith
  Given <- Together
  NoVm = NoVm
  NoOp = NoOp
INVARIANTS RunningKnown LeavesNothing DetachTold SyncFree
PROPERTIES StoppedHandled
CHECK_DEADLOCK FALSE
