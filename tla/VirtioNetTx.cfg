SPECIFICATION Spec
CONSTANTS
  Num = 2
  IdxMod = 4
  FeatureSets = {{}, {"NOTIFY_ON_EMPTY"}, {"EVENT_IDX"}, {"EVENT_IDX", "NOTIFY_ON_EMPTY"}}
  Start = 3
  MaxAdds = 3
  TxBurst = 2
  Modes = {"bh", "timer"}
  MaxEvents = 2
INVARIANTS
  HeadsConserved
  NoLostInterrupt
  StallsOnlyAfterBurst
  WaitingIsArmed
  BusyIsMuted
CHECK_DEADLOCK FALSE
