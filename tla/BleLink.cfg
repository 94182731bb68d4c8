SPECIFICATION LinkFairSpec
CONSTANTS
  CmdQueueDepth = 1
  LiveQueueDepth = 2
  NotifyRetryLimit = 1
  DefaultChunk = 2
  MaxChunk = 4
  Mtus = {9}
  ReplyLens = {3}
  FileLens = {3}
  LineLens = {2, 3}
  ShortestLine = 2
  MaxConnects = 2
  MaxCommands = 2
INVARIANTS
  ModeFitsLink
  RepliesWhole
  LeftoversBounded
PROPERTY PhoneIsHeard
