CONSTANTS
  m1 = m1
  x = x
  w1 = w1
  w2 = w2
  Msgs = {m1, x}
  Workers = {w1, w2}
  BatchMax = 2
  MaxAttempts = 2
  Conflicting = {x}
  DurableAck = TRUE
  MaxFaults = 2
  MaxCrashes = 1
SPECIFICATION Spec
INVARIANT AckedDurable
INVARIANT CountedOnce
INVARIANT NoResurrection
PROPERTY ImplementsReceipts
 
