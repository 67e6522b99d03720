SPECIFICATION FairSpec
CONSTANTS
  w1 = w1
  w2 = w2
  s1 = s1
  s2 = s2
  NoSocket = NoSocket
  Windows = {w1}
  Sockets = {s1, s2}
  Capacity = 2
  HighWater = 2
  LowWater = 1
  AckBytes = 2
  ChunkSizes = {1, 2}
  MaxOut = 4
  MaxEpoch = 2
  MaxMounts = 1
  Overlap = FALSE
INVARIANTS
  RingShape
  SnapshotsCovered
  NeverOvercounted
  UnackedAccounted
  ExitAfterTail
PROPERTIES
  
  CatchesUp
CHECK_DEADLOCK FALSE
