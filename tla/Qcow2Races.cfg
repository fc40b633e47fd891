SPECIFICATION Spec
CONSTANTS
  Cos = {c1, c2}
  Guests = {1, 2}
  Clusters = {1, 2, 3}
  PerTable = 2
  PerBlock = 2
  CacheSize = 2
  Shared = {1}
  Fails = {"write", "flush", "read", "data"}
  Racy = FALSE
  MaxReqs = 3
  MaxCrashes = 0
SYMMETRY Symmetry
CHECK_DEADLOCK FALSE
INVARIANTS
  DataStaysHome
  
