CONSTANTS
  Requests = {r1}
  Contexts = {c1}
  Sites = {s1}
  Absent = Absent
  TTL = 1
  MaxTime = 1
  Approvers = {a1, a2}
  Enrollers = {}
  ContextOf <- MCOneContext
  Policies <- MCFewPolicies
  Unreadable = Unreadable
  MaxUpsets = 1
SPECIFICATION FairSpec
PROPERTIES
  ImplementsOneShot
  AuthenticatedRunEnds
CHECK_DEADLOCK FALSE
