SPECIFICATION FairSpec
CONSTANTS
  Reqs = {r1, r2}
  Threads = {t1, t2}
  MaxThreads = 2
  Kinds = {"flush"}
  PipeCap = 1
  Chunk = 2
  MaxNest = 2
  MaxSubmits = 3
INVARIANTS
  PoolAccounting
  NoLostSpawn
  NoStrandedRequest
  NoLostCompletion
  Ownership
PROPERTIES
  EveryRequestEnds
  CancelTerminates
CHECK_DEADLOCK FALSE
