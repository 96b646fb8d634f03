SPECIFICATION Spec
CONSTANTS
  q1 = q1
  BufferSize = 1
  FileCount = 2
  Times = {1, 2}
  InitialDirs <- MCInitialDirs
  MaxFaults = 1
  Requests = {q1}
CHECK_DEADLOCK FALSE
INVARIANT ListenersAreStopped
