SPECIFICATION FairSpec
CONSTANTS
  Absent = Absent
  MaxId = 4
  MaxKept = 3
  MaxListed = 2
  MaxRows = 2
  MaxEvents = 5
INVARIANTS
  TypeOK
  SyncedIsComplete
PROPERTIES
  EverythingFetched
