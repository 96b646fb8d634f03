SPECIFICATION FairSpec
CONSTANTS
  j1 = j1
  j2 = j2
  j3 = j3
  Jobs <- MCJobs
  Pipelines <- MCPipelines
  PipelineOf <- BuildDeployDeploy
  Targets <- MCTargets
  Def <- MCDef
  MaxConcurrent = 2
  Timeout = 60
  SinkCap = 1
INVARIANTS
  TypeOK
  SlotAccounting
  IInv
  EventsMatchOutcome
PROPERTIES
  WaitOnlyWhenQuiet
  ImplementsExecutor
  CancelledJobsDoNothing
  SubmittedSettles
