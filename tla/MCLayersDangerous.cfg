CONSTANTS
  ContextPatterns = {"prod", "*"}
  NamespacePatterns = {"apps", "default"}
  ServerPatterns = {"east"}
  ActorPatterns = {"bot"}
  Sinks = {"", "sink"}
  Commands <- MCCommands
  Baselines <- MCDenyingBaselines
  MaxEdits = 1
SPECIFICATION Spec
INVARIANT
  DangerousOnlyTightens
CHECK_DEADLOCK FALSE
