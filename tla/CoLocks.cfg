SPECIFICATION FairSpec
CONSTANTS
  Cos = {c1, c2, c3}
  Leader = leader
  Mutexes = {m}
  Rwlocks = {rw}
  MaxOps = 8
INVARIANTS
  LocksExclude
  OneQueue
  NoLostWakeup
  ReadersWaitForWriter
PROPERTIES
  ImplementsLockService
  WaitersServed
CHECK_DEADLOCK FALSE
