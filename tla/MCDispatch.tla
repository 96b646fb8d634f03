------------------------------ MODULE MCDispatch ------------------------------
(***************************************************************************)
(* Instances of Dispatch for TLC.  Pipelines have no pipeline-level emit:  *)
(* the loader of the server keeps only a file's name and steps.            *)
(***************************************************************************)
EXTENDS Dispatch, TLC

CONSTANTS b1, b2, d1, d2, d3

Step(n, c, e) == [name |-> n, command |-> c, emit |-> e]

MCPipelines == {"build", "deploy"}
OnlyBuild == {"build"}
MCTargets == {"build", "deploy", "ghost"}

TwoBuilds == {b1, b2}
BuildAndDeploy == {b1, d1}
BuildAndDeploys == {b1, d1, d2}
BuildAndThree == {b1, d1, d2, d3}

BuildTwice == <<"build", "build">>
BuildThenDeploy == <<"build", "deploy">>
BuildOnce == <<"build">>

MCPipelineOf == [j \in Jobs |-> IF j \in {b1, b2} THEN "build" ELSE "deploy"]

\* Two steps and no events: what overlapping executions do to the records.
PlainDef == [p \in OnlyBuild |->
  [steps |-> <<Step("compile", "ends", <<>>), Step("test", "ends", <<>>)>>,
   emit |-> <<>>]]

\* "build" starts "deploy" after its first step and names a pipeline that is
\* not loaded after its second.
ChainDef == [p \in MCPipelines |->
  IF p = "build"
  THEN [steps |-> <<Step("compile", "ends", <<"deploy">>),
                    Step("test", "hangs", <<"ghost">>)>>, emit |-> <<>>]
  ELSE [steps |-> <<Step("push", "ends", <<>>)>>, emit |-> <<>>]]

\* "build" starts "deploy" as often as there are names in fan.
FanDef(fan) == [p \in MCPipelines |->
  IF p = "build"
  THEN [steps |-> <<Step("compile", "ends", fan)>>, emit |-> <<>>]
  ELSE [steps |-> <<Step("push", "ends", <<>>)>>, emit |-> <<>>]]
FanOutThenGhosts == FanDef(<<"deploy", "ghost", "ghost">>)
FanOutThree == FanDef(<<"deploy", "deploy", "deploy">>)
===============================================================================
