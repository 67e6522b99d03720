SPECIFICATION FairSpec
CONSTANTS
  Worktrees = {w1, w2}
  Requests = {r1}
  MaxEvents = 4
INVARIANTS
  TypeOK
  
  FreshListIsCurrent
PROPERTIES
  AnswersCurrent
  
CHECK_DEADLOCK FALSE
