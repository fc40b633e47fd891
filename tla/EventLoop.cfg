SPECIFICATION FairSpec
CONSTANTS
  b1 = b1 b2 = b2 n1 = n1 n2 = n2 fd1 = fd1 fd2 = fd2
  Scopes <- Callbacks
  Events = {{"r"}}
  MaxWait = 1
  MaxBusy = 1
  Signals = TRUE
  HandlersWait = FALSE
INVARIANTS
  BhWalkSafe
  PollPaysDue
  WalksSafe
  RegistriesAgree

  
