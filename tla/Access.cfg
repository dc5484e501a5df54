SPECIFICATION Spec
CONSTANTS
  Never = Never
  Absent = Absent
  Gone = Gone
  Admins = {a1, a2}
  Sessions = {s1, s2}
  Tasks = {t1, t2}
  FirstAdmin = a1
  FirstSession = s1
  Keys = {k1, k2}
  FirstKey = k1
  Roles = {"viewer", "superadmin"}
  Kind = "admin"
  Domains = {"d"}
  Policies <- MCPolicies
  FirstPolicy <- MCBounded
  MaxTime = 1
  MaxRequests = 3
SYMMETRY MCSymmetry
INVARIANT SuperadminRemains
INVARIANT SessionsProven
INVARIANT CacheFresh
PROPERTY ActorCurrent
PROPERTY EndedStaysEnded
CHECK_DEADLOCK FALSE
