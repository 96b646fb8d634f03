SPECIFICATION Spec
CONSTANTS
  q1 = q1
  BufferSize = 1
  FileCount = 2
  Times = {1, 2}
  InitialDirs <- MCInitialDirs
  MaxFaults = 1
  Requests = {q1}
INVARIANTS
  TypeOK
  CloseAfterListeners
PROPERTIES
  ReportedOnce
  NewerFilesAreReported
  AcceptedIsTaken
  ManagerReturns
CHECK_DEADLOCK FALSE
