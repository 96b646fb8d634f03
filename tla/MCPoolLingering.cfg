SPECIFICATION FairSpec
CONSTANTS
  j1 = j1
  j2 = j2
  j3 = j3
  Jobs <- TwoJobs
  Pipelines <- MCPipelines
  PipelineOf <- BuildWatch
  Targets <- MCTargets
  Def <- MCDef
  MaxConcurrent = 2
  Timeout = 60
  SinkCap = 1
PROPERTIES
  TimeoutEndsRun
CHECK_DEADLOCK FALSE
