SPECIFICATION FairSpec
CONSTANTS
  w1 = w1
  w2 = w2
  None = None
  Nobody = Nobody
  Windows = {w1, w2}
  MaxChanges = 1
  MaxOpens = 2
  MaxFaults = 0
  SameShape = FALSE
PROPERTIES
  EchoesDie
CHECK_DEADLOCK FALSE
