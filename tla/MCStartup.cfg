SPECIFICATION FairSpec
CONSTANTS
  sa = sa
  sb = sb
  sc = sc
  sx = sx
  Service <- MCService
  Unknown = sx
  Confs <- MCConfs
INVARIANTS
  DependenciesRan
PROPERTIES
  BootEnds
CHECK_DEADLOCK FALSE
