SPECIFICATION FairSpec
CONSTANTS
  CmdQueueDepth = 2
  MarkerQueueDepth = 2
  MaxCommands = 5
INVARIANTS
  TypeOK
  OwnCompletion
  AnswersAgree
  QueueHoldsLateMarkers
PROPERTY CommandTaskResponds
CHECK_DEADLOCK FALSE
