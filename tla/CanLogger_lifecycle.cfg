SPECIFICATION Spec
CONSTANTS
  c1 = c1
  c2 = c2
  Cards = {c1, c2}
  NoCard = NoCard
  Absent = Absent
  MaxId = 3
  OpenRetryLimit = 3
  CommitFailLimit = 2
  PreUsed <- OtherBoard
  ReadOnly = {}
  Budgets <- LifecycleBudgets
INVARIANTS
  TypeOK
  SessionPair
  OpenFilesExist
PROPERTY NoOverwrite
