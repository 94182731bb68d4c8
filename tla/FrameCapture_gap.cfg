SPECIFICATION Spec
CONSTANTS
  QueueDepth = 2
  BatchMax = 2
  CommitFailLimit = 2
  MaxFrames = 6
  MaxFaults = 2
  MaxRotations = 0
INVARIANT GapsRecorded
