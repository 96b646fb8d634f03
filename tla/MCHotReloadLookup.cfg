SPECIFICATION Spec
CONSTANTS
  c1 = c1
  Clients = {c1}
  FileCount = 2
  Contents <- MCContents
  Times = {1, 2, 3}
  InitialFiles <- MCInitialFiles
  MaxRuns = 2
  MaxFaults = 0
PROPERTY
  LookupsAreHonoured
CHECK_DEADLOCK FALSE
