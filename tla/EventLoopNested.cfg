SPECIFICATION Spec
CONSTANTS
  b1 = b1 b2 = b2 n1 = n1 n2 = n2 fd1 = fd1 fd2 = fd2
  Scopes <- Handlers
  Events = {{"r"}}
  MaxWait = 2
  MaxBusy = 1
  Signals = TRUE
  HandlersWait = TRUE
INVARIANTS
  AioWalkSafe
CHECK_DEADLOCK FALSE
