SPECIFICATION Spec
CONSTANTS
  Regions = {r1, r2}
  Saves = {1, 2}
  Nothing = Nothing
  Formats = {FALSE, TRUE}
  MaxTyped = 1
  MaxExternal = 1
  MaxExplicit = 1
  MaxFaults = 1
  Reports = {1, 2}
  Prompt = TRUE
  r1 = r1
  r2 = r2
INVARIANTS
  TypeOK
  InStep
SYMMETRY Perms
CHECK_DEADLOCK FALSE
