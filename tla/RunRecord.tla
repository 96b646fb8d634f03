------------------------------- MODULE RunRecord -------------------------------
(***************************************************************************)
(* The Run of internal/pipeline: the record of one execution that the API  *)
(* shows.  Every method holds the run's own lock for its whole body, so a  *)
(* method is an operator from the record before to the record after.       *)
(* Identifiers, times, outputs and log entries are left out; what is kept  *)
(* of StartedAt, FinishedAt and Error is whether they are set.             *)
(***************************************************************************)
EXTENDS Naturals, Sequences

Status == {"pending", "running", "completed", "failed"}
Terminal == {"completed", "failed"}

\* A step has no name before it is started.
StepResult(names) == [name : names \cup {""}, status : Status]

\* The type of a run with n steps whose names are among names.
Run(n, names) == [status : Status, started : BOOLEAN, finished : BOOLEAN,
                  error : BOOLEAN, steps : [1..n -> StepResult(names)]]

NewRun(n) ==
  [status |-> "pending", started |-> FALSE, finished |-> FALSE, error |-> FALSE,
   steps |-> [i \in 1..n |-> [name |-> "", status |-> "pending"]]]

\* Faulty variant: the run is not marked as running.
Start_NoStatus(r) == [r EXCEPT !.started = TRUE]

Start(r) == [r EXCEPT !.status = "running", !.started = TRUE]

StartStep(r, i, name) ==
  [r EXCEPT !.steps[i].name = name, !.steps[i].status = "running"]

CompleteStep(r, i) == [r EXCEPT !.steps[i].status = "completed"]

FailStep(r, i) == [r EXCEPT !.steps[i].status = "failed"]

\* err # nil is failed; a nil err does not clear an earlier Error.
Finish(r, failed) ==
  [r EXCEPT !.finished = TRUE,
            !.status = IF failed THEN "failed" ELSE "completed",
            !.error = @ \/ failed]
===============================================================================
