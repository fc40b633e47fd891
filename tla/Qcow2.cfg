SPECIFICATION FairSpec
CONSTANTS
  Cos = {c1, c2}
  Guests = {1, 2}
  Clusters = {1, 2, 3}
  PerTable = 1
  PerBlock = 2
  CacheSize = 1
  Shared = {1}
  Fails = {"data"}
  Racy = TRUE
  MaxReqs = 3
  MaxCrashes = 1
CHECK_DEADLOCK FALSE
PROPERTIES
  RequestsEnd
INVARIANTS
  CrashConsistent
  CowBeforeLink
  FlushIsDurable
  PinsReleased
