SPECIFICATION Spec
CONSTANTS
  Loads <- Traffic
  MaxEvents = 0
  Sizes = {1, 2}
  Room = 1
INVARIANT
  QueuedOnlyIfAwaited
CHECK_DEADLOCK FALSE
