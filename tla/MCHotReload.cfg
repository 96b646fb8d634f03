SPECIFICATION Spec
CONSTANTS
  c1 = c1
  Clients = {c1}
  FileCount = 2
  Contents <- MCContents
  Times = {1, 2, 3}
  InitialFiles <- MCInitialFiles
  MaxRuns = 2
  MaxFaults = 1
INVARIANTS
  TypeOK
  BackReferences
  HistoryFollowsName
  AnswersAreOwn
PROPERTY
  StoreFollowsFiles
CHECK_DEADLOCK FALSE
