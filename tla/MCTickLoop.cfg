CONSTANTS
  c1 = c1
  c2 = c2
  Caller <- MCCaller
  MaxPriorityTicks = 2
  TaskBuf = 2
  PacketBuf = 2
  MaxPackets = 3
SPECIFICATION FairSpec
INVARIANTS
  DropsOldestFirst
  AwaitedIsQueued
PROPERTIES
  PacketsInOrder
  NothingStarves
  CloseEndsAll
CHECK_DEADLOCK FALSE
