SPECIFICATION Spec
SYMMETRY Symmetry
CHECK_DEADLOCK FALSE
CONSTANTS
  Messages = {m1, m2}
  TopRoot = 2
  Writers = {"smtp", "ingestd", "recovery"}
  RuleStates = {"deaf", "on"}
  Page = 1
  MaxRcpt = 1
  MaxEdits = 2
  MaxBox = 2
INVARIANT AddressesUnique
INVARIANT MailSettled
INVARIANT MailKept
