CONSTANTS
  Editors = {e1, e2}
  MaxUpsets = 0
SPECIFICATION Spec
PROPERTY GateIsAbsolute
CHECK_DEADLOCK FALSE
