SPECIFICATION LinkFairSpec
CONSTANTS
  CmdQueueDepth = 1
  LiveQueueDepth = 1
  NotifyRetryLimit = 1
  DefaultChunk = 2
  MaxChunk = 4
  Mtus = {9}
  ReplyLens = {3}
  FileLens = {3}
  LineLens = {1, 3}
  ShortestLine = 1
  MaxConnects = 1
  MaxCommands = 1
PROPERTY CommandMeansTelematics
