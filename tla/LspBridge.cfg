SPECIFICATION FairSpec
CONSTANTS
  Windows = {a, b}
  Worktrees = {k1, k2}
  Sockets = {s1, s2, s3, s4}
  MaxFailures = 2
  MaxEvents = 3
  None = None
INVARIANTS
  TypeOK
  OneServer
  TrustHeld
  NothingStartsBehindTeardown
PROPERTIES
  NeverTakesItself
  Settles
CHECK_DEADLOCK FALSE
