SPECIFICATION FairSpec
CONSTANTS
  c1 = c1
  c2 = c2
  Cards = {c1, c2}
  NoCard = NoCard
  Absent = Absent
  MaxId = 3
  OpenRetryLimit = 3
  CommitFailLimit = 2
  PreUsed <- NothingUsed
  ReadOnly = {c2}
  Budgets <- RecoveryBudgets
INVARIANTS
  TripAgreement
  TripRowsWellFormed
  RunningTripMarked
PROPERTIES
  TripServiceSpec
  LoggingRecovers
  MarkerAnswered
  BootReachesLoop
