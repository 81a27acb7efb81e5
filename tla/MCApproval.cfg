CONSTANTS
  Requests = {r1}
  Contexts = {s1, s2}
  Sites = {s1, s2}
  Absent = Absent
  TTL = 1
  MaxTime = 1
  Approvers = {a1, a2}
  Enrollers = {}
  ContextOf <- MCOwnContext
  Policies <- MCFewPolicies
  Unreadable = Unreadable
  MaxUpsets = 2
SPECIFICATION Spec
SYMMETRY MCSymmetry
INVARIANTS
  TypeOK
  AtMostOnce
  ExecutedAsReviewed
  UneditedRequest
  InTime
  RecordedFirst
  EveryApprovalAccounted
CHECK_DEADLOCK FALSE
