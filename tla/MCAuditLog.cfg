CONSTANTS
  Writers = {w1, w2, w3}
  None = None
  Capacity = 1
  MaxKeep = 2
  MaxUpsets = 2
SPECIFICATION FairSpec
INVARIANTS
  TypeOK
  ChainsIntact
  SuccessIsStored
  RetentionHolds
PROPERTIES
  ImplementsTrail
  AppendEnds
CHECK_DEADLOCK FALSE
