CONSTANTS
  c1 = c1
  c2 = c2
  NoCall = NoCall
  Callers = {c1, c2}
  MaxConnections = 1
  Capacities = {1, 2}
  MaxWaiters = 1
  MaxPauses = 2
  MaxReplaced = 1
  MaxFatal = 1
SPECIFICATION Spec
CHECK_DEADLOCK FALSE
INVARIANT PausedIsQuiet
 
PROPERTY CallsEnd
PROPERTY PauseEnds
