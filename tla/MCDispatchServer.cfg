SPECIFICATION FairDispatchSpec
CONSTANTS
  b1 = b1
  b2 = b2
  d1 = d1
  d2 = d2
  d3 = d3
  Jobs <- BuildAndDeploys
  Pipelines <- MCPipelines
  PipelineOf <- MCPipelineOf
  Targets <- MCTargets
  Def <- FanOutThenGhosts
  MaxConcurrent = 1
  Timeout = 60
  SinkCap = 1
  Triggers <- BuildThenDeploy
  MaxReloads = 1
INVARIANTS
  RunMirrorsExecution
  NoCommandOutlivesServer
PROPERTIES
  ImplementsPool
  RunsEnd
  EventsAreTakenUnlessJammed
  SignalEnds
