SPECIFICATION Spec
CONSTANTS
  CmdQueueDepth = 2
  MarkerQueueDepth = 2
  MaxCommands = 3
INVARIANT WaitsForThisMarker
CHECK_DEADLOCK FALSE
