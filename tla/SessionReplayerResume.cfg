CONSTANTS
  u1 = u1
  u2 = u2
  l1 = l1
  l2 = l2
  Users <- OneUser
  Loops <- OneLoop
  N = 2
  Times = {0}
  PauseOnError = FALSE
  MaxPauses = 1
SPECIFICATION FairSpec
PROPERTY ResumeWakes
CHECK_DEADLOCK FALSE
