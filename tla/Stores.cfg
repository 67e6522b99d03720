SPECIFICATION FairSpec
CONSTANTS
  w1 = w1
  w2 = w2
  None = None
  Nobody = Nobody
  Windows = {w1, w2}
  MaxChanges = 2
  MaxOpens = 2
  MaxFaults = 2
  SameShape = TRUE
INVARIANTS
  TypeOK
  AgreeWhenQuiet
PROPERTIES
  EchoesDie
CHECK_DEADLOCK FALSE
