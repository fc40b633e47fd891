SPECIFICATION Spec
CONSTANTS
  Num = 2
  IdxMod = 4
  FeatureSets = {{}, {"EVENT_IDX"}}
  Start = 3
  MaxAdds = 3
  TxBurst = 2
  Modes = {"bh"}
  MaxEvents = 1
INVARIANT
  NeverAborts
CHECK_DEADLOCK FALSE
