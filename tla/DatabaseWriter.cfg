CONSTANTS
  c1 = c1
  c2 = c2
  c3 = c3
  STOP = STOP
  Callers = {c1, c2, c3}
  Capacity = 2
  MaxWaiters = 1
  MaxFatal = 1
SPECIFICATION WriterSpec
CHECK_DEADLOCK FALSE
INVARIANT SlotsAccounted
PROPERTY CallsEnd
