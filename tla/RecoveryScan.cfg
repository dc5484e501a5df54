CONSTANTS
  Paths = {1, 2}
  Size <- MCSmall
  Bad = {2}
  Legacy = {1}
  Batch = 2
  RetryShare = 4
  BatchBytes = 1
  Stability = 1
  Parsable = {1, 2}
  MaxTime = 1
  MaxErrors = 1
  MaxRestarts = 1
SPECIFICATION FairSpec
INVARIANT NothingSkipped
 
 
CHECK_DEADLOCK FALSE
