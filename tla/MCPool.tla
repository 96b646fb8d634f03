-------------------------------- MODULE MCPool --------------------------------
(***************************************************************************)
(* Instances of Pool for TLC.  The pipelines differ in what matters to the *)
(* pool: how many steps, which of them emit, how their commands end.       *)
(***************************************************************************)
EXTENDS Pool, TLC

CONSTANTS j1, j2, j3

MCJobs == {j1, j2, j3}
TwoJobs == {j1, j2}
MCPipelines == {"build", "deploy", "watch"}
MCTargets == {"deploy", "ghost"}

Step(n, c, e) == [name |-> n, command |-> c, emit |-> e]

\* "build" fires nothing from its first step, twice from its last and once
\* at its end; "deploy" has one step that must be killed; "watch" leaves a child.
MCDef == [p \in MCPipelines |->
  CASE p = "build" -> [steps |-> <<Step("compile", "ends", <<>>),
                                   Step("test", "ends", <<"deploy", "ghost">>)>>,
                       emit |-> <<"ghost">>]
    [] p = "deploy" -> [steps |-> <<Step("push", "hangs", <<>>)>>, emit |-> <<>>]
    [] p = "watch" -> [steps |-> <<Step("serve", "lingers", <<>>)>>, emit |-> <<>>]]

BuildDeployDeploy == (j1 :> "build") @@ (j2 :> "deploy") @@ (j3 :> "deploy")
BuildWatch == (j1 :> "build") @@ (j2 :> "watch")
===============================================================================
