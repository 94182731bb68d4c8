SPECIFICATION PartsSpec
CONSTANTS
  MaxBusOff = 3

  SaveInterval = 2
  StaleAfter = 2
  FirstCounts <- MCFirstCounts
  Uses <- MCUses
  Slow = {}
  Fast = {5}
  Dawn = 20
  MaxSeconds = 6
  MaxIdle = 1
  MaxLapses = 1
  MaxCuts = 1
  MaxTrips = 1
  MaxTimes = 1

  Stale = 2
  MaxFrames = 2
  MaxTime = 5

  MaxMounts = 4

  ByteBase = 4
  CurrentScale = 6
  Divisor = 4
  Base = 4
  HexBase = 4
  MaxU32 = 42
  LowDigits = 2
  MaxValue = 800
  ListMax = 2
  HeadLen = 1
  Room = 6
  Ids = {1, 2, 3, 4}
  EntryLens = {0, 1, 2}
INVARIANTS
  PartsTypeOK
  RequestKept
  FiguresBounded
  SummaryConsistent
  SnapshotCoherent
  C6KeepsController
  DecodedExactly
  RowsReadBack
  ListKeepsLowest
PROPERTIES
  StartReported
  RequestRetired
  RecoversUnlessRaced
  OldValuesOnlyOnWaking
CHECK_DEADLOCK FALSE
