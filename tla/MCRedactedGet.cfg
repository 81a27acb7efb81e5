CONSTANTS
  Capacity = 1
  Outputs <- MCOutputs
SPECIFICATION Spec
INVARIANT NothingDropped
CHECK_DEADLOCK FALSE
