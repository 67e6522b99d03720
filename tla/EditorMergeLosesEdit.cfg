SPECIFICATION Spec
CONSTANTS
  Regions = {r1, r2}
  Saves = {1, 2}
  Nothing = Nothing
  Formats = {FALSE, TRUE}
  MaxTyped = 2
  MaxExternal = 2
  MaxExplicit = 0
  MaxFaults = 0
  Reports = {1}
  Prompt = TRUE
  r1 = r1
  r2 = r2
PROPERTIES
  EditsKept
CHECK_DEADLOCK FALSE
