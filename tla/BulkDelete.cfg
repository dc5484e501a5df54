SPECIFICATION FairSpec
CONSTANTS
  Messages = {m1, m2}
  Boxes = {b1, b2}
  PageSize = 1
  MaxMail = 2
  MaxJobs = 1
  MaxStops = 1
  MaxFails = 1
  m1 = m1
  m2 = m2
  b1 = b1
  b2 = b2
INVARIANT ScopeSwept
 
PROPERTY NewMailSpared
PROPERTY JobsFinish
CHECK_DEADLOCK FALSE
