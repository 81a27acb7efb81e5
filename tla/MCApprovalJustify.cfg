CONSTANTS
  Requests = {r1}
  Contexts = {c1}
  Sites = {s1}
  Absent = Absent
  TTL = 1
  MaxTime = 0
  Approvers = {a1}
  Enrollers = {}
  ContextOf <- MCOneContext
  Policies <- MCFewPolicies
  Unreadable = Unreadable
  MaxUpsets = 1
SPECIFICATION Spec
INVARIANT
  JustifiedByPolicy
CHECK_DEADLOCK FALSE
