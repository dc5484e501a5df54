SPECIFICATION LiveSpec
CONSTANTS
  RingSize = 2
  Conns = {c1}
  SlotLimit = 1
  MaxInputs = 3
  Deliveries = {d1, d2}
  BatchSize = 1
 
INVARIANT SessionsEnd
 
CHECK_DEADLOCK FALSE
