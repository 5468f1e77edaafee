SPECIFICATION NetSpec
CONSTANTS
  Cmd <- Commands
  Does <- Arguments
  Given <- Together
  MaxFaults = 1
  Wires <- Nics
  HostBits <- WithHostBits
  Ports = 3
  Service <- Listening
  Ns <- Spaces
  Under <- Begins
  Host <- IPs
  Passed <- Unnoticed
  Bridge <- BridgeNames
  Network <- NetworkOf
  Overlaps <- Intersect
INVARIANTS RulesKnown ReservedApart HostSetCurrent NetworksApart BridgeGone
PROPERTIES CommandsEnd
CHECK_DEADLOCK FALSE
