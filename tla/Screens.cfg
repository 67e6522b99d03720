SPECIFICATION Spec
CONSTANTS
  w1 = w1
  w2 = w2
  s1 = s1
  s2 = s2
  NoSocket = NoSocket
  Windows = {w1, w2}
  Sockets = {s1, s2}
  Capacity = 1
  HighWater = 0
  LowWater = 0
  AckBytes = 1
  ChunkSizes = {1}
  MaxOut = 2
  MaxEpoch = 2
  MaxMounts = 2
  Overlap = FALSE
INVARIANTS
  TypeOK
  BindingOK
  SinkIsOwner
  SnapshotsPinned
  
PROPERTIES
  
  OnlyOwnerIsSent
SYMMETRY Swaps
CHECK_DEADLOCK FALSE
