CONSTANTS
  MaxSignals = 3
  MaxUpsets = 2
  Capacity = 1
  Outputs <- MCOutputs
SPECIFICATION FairSpec
INVARIANTS
  TypeOK
  OneVerdict
  RunsAsDecided
  FloorDecides
  ReadIsFaithful
PROPERTIES
  InterruptedNeverRuns
  Ends
  CaughtSignalActs
CHECK_DEADLOCK FALSE
