SPECIFICATION FairDispatchSpec
CONSTANTS
  b1 = b1
  b2 = b2
  d1 = d1
  d2 = d2
  d3 = d3
  Jobs <- BuildAndThree
  Pipelines <- MCPipelines
  PipelineOf <- MCPipelineOf
  Targets <- MCTargets
  Def <- FanOutThree
  MaxConcurrent = 1
  Timeout = 60
  SinkCap = 1
  Triggers <- BuildOnce
  MaxReloads = 0
PROPERTIES
  EmittedEventsAreTaken
