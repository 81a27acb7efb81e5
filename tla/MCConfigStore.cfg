CONSTANTS
  Editors = {e1, e2}
  MaxUpsets = 2
SPECIFICATION Spec
INVARIANT TypeOK
PROPERTIES
  GateHolds
  RecordedBefore
  OnlyItsOwn
  InvalidIsKept
SYMMETRY MCSymmetry
CHECK_DEADLOCK FALSE
