SPECIFICATION FairSpec
CONSTANTS
  a = a
  b = b
  s1 = s1
  s2 = s2
  s3 = s3
  NoSocket = NoSocket
  Everyone = Everyone
  Senders = {a}
  Clients = {a, b}
  Sockets = {s1, s2, s3}
  MaxAttempts = 1
  MaxRetries = 1
  MaxPending = 1
  MaxSeq = 1
INVARIANTS
  TypeOK
  PeersAgree
  AtMostOnce
  PausedWhenFull

  
CHECK_DEADLOCK FALSE
