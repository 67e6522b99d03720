SPECIFICATION Spec
CONSTANTS
  a = a
  b = b
  s1 = s1
  s2 = s2
  s3 = s3
  NoSocket = NoSocket
  Everyone = Everyone
  Senders = {a}
  Clients = {a, b}
  Sockets = {s1, s2, s3}
  MaxAttempts = 1
  MaxRetries = 1
  MaxPending = 1
  MaxSeq = 1
INVARIANTS
  AckedWasRelayed
CHECK_DEADLOCK FALSE
