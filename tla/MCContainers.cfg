SPECIFICATION Spec
CONSTANTS
  ra = ra
  rb = rb
  rc = rc
  rd = rd
  pa = pa
  add = add
  remove = remove
  forward = forward
  NoReq = NoReq
  Elder = Elder
  Req = {ra, rb, rc, rd}
  Op = {add, remove, forward}
  Port = {pa}
  Limit = 2
  MaxId = 4
  Base = 10
  First = 3
  Elders = {1}
  NicsOf <- SomeNics
  PortsOf <- SamePort
  AsksOf <- OneAsk
  Given <- Together
INVARIANTS
  OwnNumber
  LeavesNothing
CHECK_DEADLOCK FALSE
