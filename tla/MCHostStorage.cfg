SPECIFICATION Spec
CONSTANTS
  Cmd <- Commands
  Does <- Arguments
  Given <- Together
  MaxFaults = 1
  Path <- Paths
  Dev <- Devices
  Geometry <- Sectors
  Word = 64
  Place <- Places
  Profile <- Profiles
  Spaced <- Words
  Before <- Found
  Flist <- Flists
  Contents <- Published
  Remote <- FromHub
  Readable <- Archives
  BaseName <- Names
  Top <- Uppermost
  Namespace <- One
  Target <- Two
  Con <- Containers
  AtFirst <- First
  Archive <- Made1
  Process <- Running
  Unlimited = 99
  Machine <- Root
INVARIANTS DescriptorsKept MountsWhole SnapshotsRight
PROPERTIES QuotaOfItself LimitsAsTold Released
CHECK_DEADLOCK FALSE
