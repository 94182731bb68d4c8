SPECIFICATION Spec
CONSTANTS
  QueueDepth = 2
  BatchMax = 2
  CommitFailLimit = 2
  MaxFrames = 8
  MaxFaults = 3
  MaxRotations = 1
INVARIANTS
  TypeOK
  DropsAccounted
  GapsCovered
  LossWindow
