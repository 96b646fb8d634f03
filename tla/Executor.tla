------------------------------- MODULE Executor -------------------------------
(***************************************************************************)
(* What the runner pool promises to its callers, with none of its          *)
(* mechanism: no semaphore channel, no wait group, no hooks, no contexts.  *)
(* A job is queued, runs while at most Limit jobs run, finishes its steps  *)
(* one after the other and ends succeeded or failed; it is refused only    *)
(* once the executor is closed.  A job has succeeded only when every one   *)
(* of its steps has.                                                       *)
(***************************************************************************)
EXTENDS Naturals, FiniteSets

CONSTANTS
  Jobs,      \* the executions
  StepsOf,   \* StepsOf[j]: how many steps job j has
  Limit      \* how many jobs may run at once

VARIABLES
  phase,     \* phase[j]: where job j is in its life
  finished,  \* finished[j]: how many steps of j have succeeded
  closed     \* whether the executor may refuse queued jobs

vars == <<phase, finished, closed>>

Running == {j \in Jobs : phase[j] = "running"}
HasRoom == Cardinality(Running) < Limit

Init ==
  /\ phase = [j \in Jobs |-> "new"]
  /\ finished = [j \in Jobs |-> 0]
  /\ closed = FALSE

Enqueue(j) ==
  /\ phase[j] = "new"
  /\ phase' = [phase EXCEPT ![j] = "queued"]
  /\ UNCHANGED <<finished, closed>>

Start(j) ==
  /\ phase[j] = "queued"
  /\ HasRoom
  /\ phase' = [phase EXCEPT ![j] = "running"]
  /\ UNCHANGED <<finished, closed>>

Refuse(j) ==
  /\ phase[j] = "queued"
  /\ closed
  /\ phase' = [phase EXCEPT ![j] = "refused"]
  /\ UNCHANGED <<finished, closed>>

FinishStep(j) ==
  /\ phase[j] = "running"
  /\ finished[j] < StepsOf[j]
  /\ finished' = [finished EXCEPT ![j] = @ + 1]
  /\ UNCHANGED <<phase, closed>>

Succeed(j) ==
  /\ phase[j] = "running"
  /\ finished[j] = StepsOf[j]
  /\ phase' = [phase EXCEPT ![j] = "succeeded"]
  /\ UNCHANGED <<finished, closed>>

Fail(j) ==
  /\ phase[j] = "running"
  /\ finished[j] < StepsOf[j]
  /\ phase' = [phase EXCEPT ![j] = "failed"]
  /\ UNCHANGED <<finished, closed>>

Close ==
  /\ ~closed
  /\ closed' = TRUE
  /\ UNCHANGED <<phase, finished>>

Next ==
  \/ \E j \in Jobs :
       \/ Enqueue(j) \/ Start(j) \/ Refuse(j)
       \/ FinishStep(j) \/ Succeed(j) \/ Fail(j)
  \/ Close

Spec == Init /\ [][Next]_vars
===============================================================================
