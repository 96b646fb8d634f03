SPECIFICATION DispatchSpec
CONSTANTS
  b1 = b1
  b2 = b2
  d1 = d1
  d2 = d2
  d3 = d3
  Jobs <- TwoBuilds
  Pipelines <- OnlyBuild
  PipelineOf <- MCPipelineOf
  Targets <- MCTargets
  Def <- PlainDef
  MaxConcurrent = 2
  Timeout = 60
  SinkCap = 1
  Triggers <- BuildTwice
  MaxReloads = 0
INVARIANTS
  DispatchTypeOK
  RunMirrorsExecution
  NoStaleEntry
  UpdatesStayInCrowd
PROPERTIES
  EndedIsFinal
