--------------------------------- MODULE Pool ---------------------------------
(***************************************************************************)
(* The runner pool of internal/runners: Pool.Submit, Pool.run,             *)
(* Pool.emitEvents and Pool.Wait, with Step.Execute below and the hook     *)
(* registries beside them.                                                 *)
(*                                                                         *)
(* A job is one call of Submit together with the goroutine it starts.      *)
(* Submitting, running and the reader of the event sink are interleaved;   *)
(* everything between two channel operations, hook calls or command        *)
(* executions of one goroutine is one step.                                *)
(*                                                                         *)
(* A pipeline is data: Def[p].steps is a sequence of                       *)
(*    [name, command, emit], and Def[p].emit is the pipeline-level emit.   *)
(* command abstracts the shell command by how its execution can end:       *)
(*    "ends"     it exits by itself, or is killed with its context,        *)
(*    "hangs"    it exits only when it is killed,                          *)
(*    "lingers"  a child of the shell keeps the output pipes open for      *)
(*               ever: cmd.Run copies both outputs and sets no WaitDelay,  *)
(*               so it does not return even after the shell is killed.     *)
(* An emit list is the sequence of target pipeline names (the trigger      *)
(* label is only logged).  A nil EventSink behaves like empty emit lists.  *)
(***************************************************************************)
EXTENDS Naturals, Sequences, FiniteSets

CONSTANTS
  Jobs,           \* identifiers of the calls of Submit
  Pipelines,      \* pipeline names
  PipelineOf,     \* PipelineOf[j]: the pipeline submitted by call j
  Targets,        \* names an emit entry can carry, loaded or not
  Def,            \* Def[p]: the definition of pipeline p
  MaxConcurrent,  \* Config.MaxConcurrent, the capacity of the channel sem
  Timeout,        \* Config.Timeout in seconds
  SinkCap         \* capacity of the channel behind EventSink

Commands == {"ends", "hangs", "lingers"}
Steps == [name : STRING, command : Commands, emit : Seq(Targets)]

ASSUME JobsAssumption == IsFiniteSet(Jobs)
ASSUME DefAssumption ==
  /\ PipelineOf \in [Jobs -> Pipelines]
  /\ DOMAIN Def = Pipelines
  /\ \A p \in Pipelines :
       /\ Def[p].emit \in Seq(Targets)
       /\ Len(Def[p].steps) \in Nat \ {0}
       /\ \A k \in 1..Len(Def[p].steps) :
            /\ Def[p].steps[k].command \in Commands
            /\ Def[p].steps[k].emit \in Seq(Targets)
ASSUME ConfigAssumption ==
  /\ MaxConcurrent \in Nat
  /\ Timeout \in Nat
  /\ SinkCap \in Nat \ {0}

VARIABLES
  pc,         \* pc[j]: where call j of Submit, then its goroutine, stands
  step,       \* step[j]: loop variable of run; StepCount+1 is the pipeline's
              \* own emit list, StepCount+2 means run has returned nil
  sent,       \* sent[j]: entries of the current emit list already sent
  expired,    \* expired[j]: the timeout context of run has expired
  sem,        \* tokens in the channel sem
  wg,         \* counter of the WaitGroup
  sink,       \* contents of the channel behind EventSink
  cancelled,  \* the context given to Submit is done
  waiter,     \* where the main goroutine, the caller of Wait, stands
  fired,      \* history: fired[j][s], events job j has sent for its stage s
  passed      \* history: commands of job j that have returned no error

vars == <<pc, step, sent, expired, sem, wg, sink, cancelled, waiter, fired, passed>>

-------------------------------------------------------------------------------
(* Data of a job *)

StepCount(j) == Len(Def[PipelineOf[j]].steps)
Stages(j) == 1..(StepCount(j) + 1)

\* The emit list of stage s: that of step s, or the pipeline's after the last.
Emits(j, s) ==
  IF s <= StepCount(j) THEN Def[PipelineOf[j]].steps[s].emit
                       ELSE Def[PipelineOf[j]].emit

Command(j) == Def[PipelineOf[j]].steps[step[j]].command

CtxDone(j) == cancelled \/ expired[j]

(* Sets of control points *)

HookPoints == {"pipelineStarted", "stepStarted", "stepCompleted",
               "stepFailed", "pipelineFailed", "pipelineCompleted"}
InRun   == HookPoints \cup {"execute", "running", "emit"}
Holding == InRun \cup {"spawned", "release"}
Busy    == Holding \cup {"acquire", "wgDone"}
Over    == {"done", "rejected"}
Labels  == Busy \cup Over \cup {"idle"}

Holders  == {j \in Jobs : pc[j] \in Holding}
InFlight == {j \in Jobs : pc[j] \in Busy}

Succeeded(j) == step[j] = StepCount(j) + 2

\* The process ends with a panic of Wait, or with its main goroutine.
Alive == waiter \notin {"panicked", "exited"}

-------------------------------------------------------------------------------
Init ==
  /\ pc = [j \in Jobs |-> "idle"]
  /\ step = [j \in Jobs |-> 1]
  /\ sent = [j \in Jobs |-> 0]
  /\ expired = [j \in Jobs |-> FALSE]
  /\ sem = 0
  /\ wg = 0
  /\ sink = <<>>
  /\ cancelled = FALSE
  /\ waiter = "none"
  /\ fired = [j \in Jobs |-> [s \in Stages(j) |-> 0]]
  /\ passed = [j \in Jobs |-> 0]

\* Moves j from label a to label b.
Goto(j, a, b) ==
  /\ Alive
  /\ pc[j] = a
  /\ pc' = [pc EXCEPT ![j] = b]

\* wg.Done: when the counter comes to zero, a goroutine parked in Wait is woken.
CountDown ==
  /\ wg' = wg - 1
  /\ waiter' = IF wg = 1 /\ waiter = "parked" THEN "woken" ELSE waiter

(* Submit: the counter is raised before the select, which then takes a     *)
(* slot or returns the context's error; with both ready it takes either.   *)

\* Faulty variant: Add is left to the goroutine and never happens.
Submit_NoAdd(j) ==
  /\ Goto(j, "idle", "acquire")
  /\ UNCHANGED <<step, sent, expired, sem, wg, sink, cancelled, waiter, fired, passed>>

Submit(j) ==
  /\ Goto(j, "idle", "acquire")
  /\ wg' = wg + 1
  /\ UNCHANGED <<step, sent, expired, sem, sink, cancelled, waiter, fired, passed>>

\* Faulty variant: a channel of one place too many.
Acquire_OffByOne(j) ==
  /\ sem <= MaxConcurrent
  /\ Goto(j, "acquire", "spawned")
  /\ sem' = sem + 1
  /\ UNCHANGED <<step, sent, expired, wg, sink, cancelled, waiter, fired, passed>>

Acquire(j) ==
  /\ sem < MaxConcurrent
  /\ Goto(j, "acquire", "spawned")
  /\ sem' = sem + 1
  /\ UNCHANGED <<step, sent, expired, wg, sink, cancelled, waiter, fired, passed>>

\* Faulty variant: the error path gives back a slot it never took.
Reject_FreesSlot(j) ==
  /\ cancelled
  /\ Goto(j, "acquire", "rejected")
  /\ CountDown
  /\ sem' = sem - 1
  /\ UNCHANGED <<step, sent, expired, sink, cancelled, fired, passed>>

\* Faulty variant: the send on sem does not watch the context.
Reject_Never(j) == FALSE /\ pc[j] = "acquire" /\ UNCHANGED vars

Reject(j) ==
  /\ cancelled
  /\ Goto(j, "acquire", "rejected")
  /\ CountDown
  /\ UNCHANGED <<step, sent, expired, sem, sink, cancelled, fired, passed>>

(* run: the timeout context starts here; one of zero seconds is done.      *)

Begin(j) ==
  /\ Goto(j, "spawned", "pipelineStarted")
  /\ expired' = [expired EXCEPT ![j] = (Timeout = 0)]
  /\ UNCHANGED <<step, sent, sem, wg, sink, cancelled, waiter, fired, passed>>

\* Time passes while run's context is alive.
Expire(j) ==
  /\ Alive
  /\ pc[j] \in InRun
  /\ ~expired[j]
  /\ expired' = [expired EXCEPT ![j] = TRUE]
  /\ UNCHANGED <<pc, step, sent, sem, wg, sink, cancelled, waiter, fired, passed>>

\* Faulty variant: a failed step is reported, and the loop goes on.
AfterHook_GoesOn(l) ==
  CASE l = "pipelineStarted"   -> "stepStarted"
    [] l = "stepStarted"       -> "execute"
    [] l = "stepCompleted"     -> "emit"
    [] l = "stepFailed"        -> "emit"
    [] l = "pipelineFailed"    -> "release"
    [] l = "pipelineCompleted" -> "emit"

\* Where run goes when the callbacks of the hook it called have returned.
AfterHook(l) ==
  CASE l = "pipelineStarted"   -> "stepStarted"
    [] l = "stepStarted"       -> "execute"
    [] l = "stepCompleted"     -> "emit"
    [] l = "stepFailed"        -> "pipelineFailed"
    [] l = "pipelineFailed"    -> "release"
    [] l = "pipelineCompleted" -> "emit"

HookReturn(j) ==
  /\ pc[j] \in HookPoints
  /\ Goto(j, pc[j], AfterHook(pc[j]))
  /\ UNCHANGED <<step, sent, expired, sem, wg, sink, cancelled, waiter, fired, passed>>

(* Step.Execute: Start refuses a done context and can fail by itself (no   *)
(* shell, no such directory); a started command ends as its kind says.     *)

\* Faulty variant: exec.Command in place of exec.CommandContext.
ExecStart_NoContext(j) ==
  /\ Goto(j, "execute", "running") \/ Goto(j, "execute", "stepFailed")
  /\ UNCHANGED <<step, sent, expired, sem, wg, sink, cancelled, waiter, fired, passed>>

ExecStart(j) ==
  /\ \/ ~CtxDone(j) /\ Goto(j, "execute", "running")
     \/ Goto(j, "execute", "stepFailed")
  /\ UNCHANGED <<step, sent, expired, sem, wg, sink, cancelled, waiter, fired, passed>>

ExecEnd(j) ==
  /\ pc[j] = "running"
  /\ \/ /\ Command(j) = "ends"
        /\ Goto(j, "running", "stepCompleted")
        /\ passed' = [passed EXCEPT ![j] = @ + 1]
     \/ /\ Command(j) = "ends" \/ (Command(j) = "hangs" /\ CtxDone(j))
        /\ Goto(j, "running", "stepFailed")
        /\ UNCHANGED passed
  /\ UNCHANGED <<step, sent, expired, sem, wg, sink, cancelled, waiter, fired>>

(* emitEvents: a blocking send per entry, which watches no context.        *)

\* Faulty variant: a send that does not wait for room.
EmitSend_NoRoom(j) ==
  /\ Alive
  /\ pc[j] = "emit"
  /\ sent[j] < Len(Emits(j, step[j]))
  /\ sink' = Append(sink, [source |-> PipelineOf[j],
                           pipeline |-> Emits(j, step[j])[sent[j] + 1]])
  /\ sent' = [sent EXCEPT ![j] = @ + 1]
  /\ fired' = [fired EXCEPT ![j][step[j]] = @ + 1]
  /\ UNCHANGED <<pc, step, expired, sem, wg, cancelled, waiter, passed>>

EmitSend(j) ==
  /\ Alive
  /\ pc[j] = "emit"
  /\ sent[j] < Len(Emits(j, step[j]))
  /\ Len(sink) < SinkCap
  /\ sink' = Append(sink, [source |-> PipelineOf[j],
                           pipeline |-> Emits(j, step[j])[sent[j] + 1]])
  /\ sent' = [sent EXCEPT ![j] = @ + 1]
  /\ fired' = [fired EXCEPT ![j][step[j]] = @ + 1]
  /\ UNCHANGED <<pc, step, expired, sem, wg, cancelled, waiter, passed>>

\* Faulty variant: the index is not reset, so the next list is cut short.
EmitDone_NoReset(j) ==
  /\ pc[j] = "emit"
  /\ sent[j] >= Len(Emits(j, step[j]))
  /\ \/ step[j] < StepCount(j) /\ Goto(j, "emit", "stepStarted")
     \/ step[j] = StepCount(j) /\ Goto(j, "emit", "pipelineCompleted")
     \/ step[j] > StepCount(j) /\ Goto(j, "emit", "release")
  /\ step' = [step EXCEPT ![j] = @ + 1]
  /\ UNCHANGED <<sent, expired, sem, wg, sink, cancelled, waiter, fired, passed>>

\* The list is exhausted: next step, or the end of the loop, or of run.
EmitDone(j) ==
  /\ pc[j] = "emit"
  /\ sent[j] = Len(Emits(j, step[j]))
  /\ \/ step[j] < StepCount(j) /\ Goto(j, "emit", "stepStarted")
     \/ step[j] = StepCount(j) /\ Goto(j, "emit", "pipelineCompleted")
     \/ step[j] > StepCount(j) /\ Goto(j, "emit", "release")
  /\ step' = [step EXCEPT ![j] = @ + 1]
  /\ sent' = [sent EXCEPT ![j] = 0]
  /\ UNCHANGED <<expired, sem, wg, sink, cancelled, waiter, fired, passed>>

(* The deferred calls of the goroutine, last deferred first.               *)

\* Faulty variant: the slot is given back on the success path only.
Release_OnSuccessOnly(j) ==
  /\ Goto(j, "release", "wgDone")
  /\ sem' = IF Succeeded(j) THEN sem - 1 ELSE sem
  /\ UNCHANGED <<step, sent, expired, wg, sink, cancelled, waiter, fired, passed>>

Release(j) ==
  /\ Goto(j, "release", "wgDone")
  /\ sem' = sem - 1
  /\ UNCHANGED <<step, sent, expired, wg, sink, cancelled, waiter, fired, passed>>

WgDone(j) ==
  /\ Goto(j, "wgDone", "done")
  /\ CountDown
  /\ UNCHANGED <<step, sent, expired, sem, sink, cancelled, fired, passed>>

(* Wait, called once.  A goroutine that was parked looks at the counter     *)
(* again when it runs: if a Submit has raised it meanwhile, sync.WaitGroup  *)
(* panics ("reused before previous Wait has returned"), and nobody recovers *)
(* it.  An Add that comes even earlier, while the last Done is still        *)
(* resetting the WaitGroup, panics itself; here the process then ends one   *)
(* step later, in WaitReturn.                                               *)

WaitCall ==
  /\ waiter = "none"
  /\ waiter' = IF wg = 0 THEN "returned" ELSE "parked"
  /\ UNCHANGED <<pc, step, sent, expired, sem, wg, sink, cancelled, fired, passed>>

WaitReturn ==
  /\ waiter = "woken"
  /\ waiter' = IF wg = 0 THEN "returned" ELSE "panicked"
  /\ UNCHANGED <<pc, step, sent, expired, sem, wg, sink, cancelled, fired, passed>>

\* The main goroutine returns, and ends every other one.
Exit ==
  /\ waiter = "returned"
  /\ waiter' = "exited"
  /\ UNCHANGED <<pc, step, sent, expired, sem, wg, sink, cancelled, fired, passed>>

(* The caller's side: the reader of the sink, and the cancellation.        *)

Drain ==
  /\ Alive
  /\ sink # <<>>
  /\ sink' = Tail(sink)
  /\ UNCHANGED <<pc, step, sent, expired, sem, wg, cancelled, waiter, fired, passed>>

Cancel ==
  /\ Alive
  /\ ~cancelled
  /\ cancelled' = TRUE
  /\ UNCHANGED <<pc, step, sent, expired, sem, wg, sink, waiter, fired, passed>>

Terminated == ~Alive /\ UNCHANGED vars

\* The steps of j's goroutine that need nobody's leave but the scheduler's.
Worker(j) ==
  \/ Begin(j) \/ HookReturn(j) \/ ExecStart(j) \/ ExecEnd(j)
  \/ EmitSend(j) \/ EmitDone(j) \/ Release(j) \/ WgDone(j)

JobNext(j) ==
  \/ Submit(j) \/ Acquire(j) \/ Reject(j)
  \/ Expire(j) \/ Worker(j)

Next ==
  \/ \E j \in Jobs : JobNext(j)
  \/ WaitCall \/ WaitReturn \/ Exit \/ Drain \/ Cancel \/ Terminated

Spec == Init /\ [][Next]_vars

(* Goroutines are scheduled, a blocked channel operation completes once    *)
(* its channel stays ready, timers fire and the sink's reader reads.       *)
(* Nothing obliges a caller to submit, to wait, to cancel or to exit.      *)
Fairness ==
  /\ \A j \in Jobs :
       /\ WF_vars(Worker(j))
       /\ WF_vars(Acquire(j) \/ Reject(j))
       /\ WF_vars(Expire(j))
  /\ WF_vars(WaitReturn)
  /\ WF_vars(Drain)

FairSpec == Spec /\ Fairness

-------------------------------------------------------------------------------
(* Safety *)

\* Types of the variables; the counters stay within their channels.
TypeOK ==
  /\ pc \in [Jobs -> Labels]
  /\ step \in [Jobs -> Nat \ {0}]
  /\ sent \in [Jobs -> Nat]
  /\ expired \in [Jobs -> BOOLEAN]
  /\ sem \in 0..MaxConcurrent
  /\ wg \in Nat
  /\ sink \in Seq([source : Pipelines, pipeline : Targets])
  /\ Len(sink) <= SinkCap
  /\ cancelled \in BOOLEAN
  /\ waiter \in {"none", "parked", "woken", "returned", "panicked", "exited"}
  /\ DOMAIN fired = Jobs
  /\ \A j \in Jobs : fired[j] \in [Stages(j) -> Nat]
  /\ passed \in [Jobs -> Nat]

\* The tokens in sem are exactly those of the goroutines that will give one
\* back, on whichever path Submit and run are left, and the counter of the
\* WaitGroup counts exactly the calls that have not ended.
SlotAccounting ==
  /\ sem = Cardinality(Holders)
  /\ wg = Cardinality(InFlight)

\* Never more than max_concurrent pipelines hold a slot.
ConcurrencyLimit == Cardinality(Holders) <= MaxConcurrent

\* Where run stands in its loop: which stages can be under way at a label,
\* and that it has gone past a step only if the step's command passed.
LoopInv ==
  \A j \in Jobs :
    LET n == StepCount(j) IN
    /\ pc[j] \in {"idle", "acquire", "rejected", "spawned", "pipelineStarted"}
         => step[j] = 1
    /\ pc[j] \in {"stepStarted", "execute", "running", "stepCompleted",
                  "stepFailed", "pipelineFailed"} => step[j] \in 1..n
    /\ pc[j] = "emit" => step[j] \in Stages(j)
    /\ pc[j] = "pipelineCompleted" => step[j] = n + 1
    /\ pc[j] \in {"release", "wgDone", "done"} => step[j] \in 1..n \/ Succeeded(j)
    /\ passed[j] = IF step[j] > n THEN n
                   ELSE IF pc[j] \in {"stepCompleted", "emit"} THEN step[j]
                   ELSE step[j] - 1

\* Every stage before the current one has sent its whole list, every later
\* one nothing, and the current one as much as the loop index says.
EmitInv ==
  \A j \in Jobs :
    /\ pc[j] # "emit" => sent[j] = 0
    /\ pc[j] = "emit" => sent[j] <= Len(Emits(j, step[j]))
    /\ \A s \in Stages(j) :
         fired[j][s] = IF s < step[j] THEN Len(Emits(j, s))
                       ELSE IF s = step[j] THEN sent[j] ELSE 0

\* When a run is over, the events it has sent are those of the steps whose
\* commands passed, each exactly once, and the pipeline's own only if they
\* all did: a failing step, a timeout or a cancellation fires nothing.
EventsMatchOutcome ==
  \A j \in Jobs :
    pc[j] \in {"release", "wgDone", "done"} =>
      \A s \in Stages(j) :
        fired[j][s] = IF s <= passed[j] \/ passed[j] = StepCount(j)
                      THEN Len(Emits(j, s)) ELSE 0

\* The parts above together are inductive: they carry the proofs.
IInv == TypeOK /\ SlotAccounting /\ LoopInv /\ EmitInv

(* Steps and histories *)

\* Wait returns, at once or after it was parked, only in a state where every
\* call of Submit that has begun is over: neither a queued call, nor a
\* goroutine still in its deferred calls, nor a submission made between the
\* last Done and the return is missed.  (That the last of these may end in a
\* panic in place of a return is WaitBlocksUntilFinished, below.)
WaitOnlyWhenQuiet ==
  [][waiter # "returned" /\ waiter' = "returned" => InFlight = {}]_vars

\* A job whose goroutine has not yet entered run when the context is cancelled
\* never succeeds and never fires an event, even when Submit's select gave it
\* a slot after the cancellation.
CancelledJobsDoNothing ==
  \A j \in Jobs :
    [](cancelled /\ pc[j] \in {"idle", "acquire", "spawned"}
       => [](~Succeeded(j) /\ \A s \in Stages(j) : fired[j][s] = 0))

\* The phase of a job: it runs while it holds a slot.
Phase(j) ==
  CASE pc[j] = "idle" -> "new"
    [] pc[j] = "acquire" -> "queued"
    [] pc[j] \in Holding -> "running"
    [] pc[j] \in {"wgDone", "done"} ->
         IF Succeeded(j) THEN "succeeded" ELSE "failed"
    [] pc[j] = "rejected" -> "refused"

Exec == INSTANCE Executor WITH
  StepsOf <- [j \in Jobs |-> StepCount(j)],
  Limit <- MaxConcurrent,
  phase <- [j \in Jobs |-> Phase(j)],
  finished <- passed,
  closed <- cancelled

\* Every behaviour of the pool is one of the abstract executor: the limit is
\* kept, steps finish in order, success needs all of them, and a submission
\* is refused only after cancellation.
ImplementsExecutor == Exec!Spec

(* Liveness *)

\* With at least one slot, a reader of the sink and commands that end when
\* killed, every submission comes to an end while the process lives: no slot
\* is leaked on any path.
SubmittedSettles == \A j \in Jobs : pc[j] = "acquire" ~> pc[j] \in Over \/ ~Alive

(* What the documentation says *)

InWait == waiter \in {"parked", "woken"}

\* pool.go: Wait "blocks until all submitted pipelines have finished".  The
\* call of Wait is left, in whatever way, only when none is in flight.
WaitBlocksUntilFinished ==
  [][InWait /\ ~InWait' => InFlight = {}]_vars

\* Execute "respects the context for cancellation and timeout": a run whose
\* timeout has expired comes to an end.
TimeoutEndsRun == \A j \in Jobs : expired[j] ~> pc[j] \in Over \/ ~Alive
===============================================================================
