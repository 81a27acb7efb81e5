CONSTANTS
  Requests = {r1, r2}
  Contexts = {c1}
  Sites = {s1}
  Absent = Absent
  TTL = 1
  MaxTime = 1
  Approvers = {a1}
  Enrollers = {e1}
  ContextOf <- MCOneContext
  Policies <- MCFewPolicies
  Unreadable = Unreadable
  MaxUpsets = 1
SPECIFICATION Spec
SYMMETRY MCSymmetry
INVARIANTS
  HumanApproved
  OnlyHumansConsume
CHECK_DEADLOCK FALSE
