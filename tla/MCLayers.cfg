CONSTANTS
  ContextPatterns = {"prod", "*"}
  NamespacePatterns = {"apps", "default"}
  ServerPatterns = {"east"}
  ActorPatterns = {"bot"}
  Sinks = {"", "sink"}
  Commands <- MCCommands
  Baselines <- MCBaselines
  MaxEdits = 2
SPECIFICATION Spec
INVARIANTS
  TypeOK
  Floor
  UserKept
  NoCreep
  TrailKept
  BlockIsFinal
PROPERTIES
  SilentEditsKeep
CHECK_DEADLOCK FALSE
