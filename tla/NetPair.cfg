SPECIFICATION FairSpec
CONSTANTS
  Loads <- Traffic
  MaxEvents = 1
  Sizes = {1, 2}
  Room = 1
INVARIANTS
  GuestInOrder
  RefusedIsWatched
  PausedIsQueued
  QueuedIsPolled
PROPERTIES
  ImplementsPacketService
  TrafficFlows
CHECK_DEADLOCK FALSE
