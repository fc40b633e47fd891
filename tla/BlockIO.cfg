SPECIFICATION FairSpec
CONSTANTS
  MaxReqs = 3
  Size = 4
  ClusterSize = 2
  Past = 2
  MaxLate = 1
  Scopes <- Cases
PROPERTIES
  ImplementsDisk
  DrainIsComplete
  DrainEnds
  RequestsEnd
CHECK_DEADLOCK FALSE
