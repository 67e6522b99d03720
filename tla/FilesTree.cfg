SPECIFICATION Spec
CONSTANTS
  Top = top
  Dirs = {top, sub}
  Consumers = {c1, c2}
  Ops = {o1}
  Overlap = FALSE
  MaxEvents = 2
INVARIANTS
  TypeOK
  
  
  NotStranded
PROPERTIES
  AnswerShowsOperation
SYMMETRY ConsumerPerms
CHECK_DEADLOCK FALSE
