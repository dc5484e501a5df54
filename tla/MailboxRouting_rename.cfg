SPECIFICATION Spec
CHECK_DEADLOCK FALSE
CONSTANTS
  Messages = {m1, m2}
  TopRoot = 1
  Writers = {"smtp", "recovery"}
  RuleStates = {"off", "on"}
  Page = 1
  MaxRcpt = 1
  MaxEdits = 2
  MaxBox = 3
INVARIANT NoMailLost
