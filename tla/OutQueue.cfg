\* Four packets of every kind; no more packets come when they are used up.
CONSTANTS
  Kinds <- AllKinds
  MaxPackets = 4
SPECIFICATION OutFairSpec
CHECK_DEADLOCK FALSE
INVARIANTS QueueConsistent
PROPERTIES EveryPacketLeaves
