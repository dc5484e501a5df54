SPECIFICATION Spec
CONSTANTS
  Owners = {o1}
  Slots = {s1}
  MaxTokens = 2
  MaxInst = 2
  MaxFaults = 1
INVARIANT Exclusive
INVARIANT AckIsCurrent
PROPERTY MailResumes
PROPERTY WaitEnds
CHECK_DEADLOCK FALSE
