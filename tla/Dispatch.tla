-------------------------------- MODULE Dispatch --------------------------------
(***************************************************************************)
(* The server of cmd/server around the pool: two goroutines that turn      *)
(* events into submissions (handleListenerEvents, handlePipelineEvents and *)
(* dispatchPipeline below them), the pipeline store they look names up in, *)
(* its hot reload, and the run-tracking hooks through which the workers of *)
(* the pool update the run records.                                        *)
(*                                                                         *)
(* The pool is module Pool, its actions used as they are: a dispatcher     *)
(* calls Submit and waits for it, the reader of the event sink is the      *)
(* pipeline dispatcher, and the callbacks of a hook are broken into their  *)
(* own steps, the last of which lets the worker go on (HookReturn).        *)
(*                                                                         *)
(* Job j stands for the execution and for the Run record created for it.   *)
(* activeRuns is the sync.Map from a pipeline's name to the run that its   *)
(* hooks update; one entry per name.                                       *)
(***************************************************************************)
EXTENDS Pool, RunRecord

CONSTANTS
  Triggers,     \* bound: the names in the events the listeners produce
  MaxReloads    \* bound: how many times the pipeline files change

ASSUME BoundsAssumption == Triggers \in Seq(Targets) /\ MaxReloads \in Nat

Loops == {"listener", "pipeline"}

VARIABLES
  loop,       \* loop[l]: where dispatcher l stands, and with what
  incoming,   \* listener events still to come, oldest first
  present,    \* names of the pipelines in the store
  gen,        \* the store's generation: a reload gives every pipeline a new ID
  created,    \* jobs whose run has been created
  runs,       \* runs[j]: the Run of job j
  activeRuns, \* activeRuns[n]: the run stored under name n, as a set
  cb,         \* cb[j]: where the run-tracking callback of j's hook stands
  held,       \* held[j]: the run that callback has loaded
  idx,        \* idx[j]: its position in the run's steps
  touched,    \* history: touched[r], the jobs that have updated run r
  crowded     \* history: jobs that were in flight together with another of
              \* the same name

serverVars == <<loop, incoming, present, gen, created, runs, activeRuns,
                cb, held, idx, touched, crowded>>
allVars == <<vars, serverVars>>

-------------------------------------------------------------------------------
Name(j) == PipelineOf[j]
StepName(j) == Def[Name(j)].steps[step[j]].name
StepNames(j) == {Def[Name(j)].steps[k].name : k \in 1..StepCount(j)}

AtRecv == [at |-> "recv"]

\* A job is tracked from activeRuns.Store until its goroutine is over.
Tracked(j) ==
  /\ j \in created
  /\ pc[j] \notin Over
  /\ \A l \in Loops : loop[l] # [at |-> "track", job |-> j]

DispatchInit ==
  /\ Init
  /\ loop = [l \in Loops |-> AtRecv]
  /\ incoming = Triggers
  /\ present = Pipelines
  /\ gen = 0
  /\ created = {}
  /\ runs = [j \in Jobs |-> NewRun(StepCount(j))]
  /\ activeRuns = [n \in Pipelines |-> {}]
  /\ cb = [j \in Jobs |-> "load"]
  /\ held = [j \in Jobs |-> j]
  /\ idx = [j \in Jobs |-> 1]
  /\ touched = [j \in Jobs |-> {}]
  /\ crowded = {}

-------------------------------------------------------------------------------
(* The dispatchers *)

\* GetPipelineByName: an unknown name ends the dispatch; the ID found is the
\* pipeline's in this generation.
Lookup(l, n) ==
  loop' = [loop EXCEPT ![l] = IF n \in present
                              THEN [at |-> "create", name |-> n, gen |-> gen]
                              ELSE AtRecv]

\* handleListenerEvents receives the oldest event of the listeners.
ListenerEvent ==
  /\ Alive
  /\ loop["listener"] = AtRecv
  /\ incoming # <<>>
  /\ incoming' = Tail(incoming)
  /\ Lookup("listener", Head(incoming))
  /\ UNCHANGED <<vars, present, gen, created, runs, activeRuns,
                 cb, held, idx, touched, crowded>>

\* handlePipelineEvents receives the oldest event of the sink.
PipelineEvent ==
  /\ loop["pipeline"] = AtRecv
  /\ Drain
  /\ Lookup("pipeline", Head(sink).pipeline)
  /\ UNCHANGED <<incoming, present, gen, created, runs, activeRuns,
                 cb, held, idx, touched, crowded>>

\* CreateRun: by ID, so it fails once a reload has replaced the pipeline.
Create(l) ==
  /\ loop[l].at = "create"
  /\ \/ /\ loop[l].gen = gen
        /\ \E j \in Jobs \ created :
             /\ Name(j) = loop[l].name
             /\ created' = created \cup {j}
             /\ loop' = [loop EXCEPT ![l] = [at |-> "track", job |-> j]]
     \/ /\ loop[l].gen # gen
        /\ loop' = [loop EXCEPT ![l] = AtRecv]
        /\ UNCHANGED created
  /\ UNCHANGED <<vars, incoming, present, gen, runs, activeRuns,
                 cb, held, idx, touched, crowded>>

\* Faulty variant: LoadOrStore in place of Store.
Track_LoadOrStore(l) ==
  /\ loop[l].at = "track"
  /\ LET j == loop[l].job
         others == {i \in Jobs : Tracked(i) /\ Name(i) = Name(j)}
     IN  /\ activeRuns' = [activeRuns EXCEPT ![Name(j)] = IF @ = {} THEN {j} ELSE @]
         /\ loop' = [loop EXCEPT ![l] = [at |-> "submit", job |-> j]]
         /\ crowded' = IF others = {} THEN crowded ELSE crowded \cup others \cup {j}
  /\ UNCHANGED <<vars, incoming, present, gen, created, runs, cb, held, idx, touched>>

\* activeRuns.Store(name, run) overwrites whatever the name held.
Track(l) ==
  /\ loop[l].at = "track"
  /\ LET j == loop[l].job
         others == {i \in Jobs : Tracked(i) /\ Name(i) = Name(j)}
     IN  /\ activeRuns' = [activeRuns EXCEPT ![Name(j)] = {j}]
         /\ loop' = [loop EXCEPT ![l] = [at |-> "submit", job |-> j]]
         /\ crowded' = IF others = {} THEN crowded ELSE crowded \cup others \cup {j}
  /\ UNCHANGED <<vars, incoming, present, gen, created, runs, cb, held, idx, touched>>

CallSubmit(l) ==
  /\ loop[l].at = "submit"
  /\ Submit(loop[l].job)
  /\ loop' = [loop EXCEPT ![l] = [at |-> "wait", job |-> loop[l].job]]
  /\ UNCHANGED <<incoming, present, gen, created, runs, activeRuns,
                 cb, held, idx, touched, crowded>>

\* Faulty variant: the error of Submit is only logged.
Return_NoFinish(l) ==
  /\ loop[l].at = "wait"
  /\ pc[loop[l].job] # "acquire"
  /\ loop' = [loop EXCEPT ![l] = AtRecv]
  /\ UNCHANGED <<vars, incoming, present, gen, created, runs, activeRuns,
                 cb, held, idx, touched, crowded>>

\* Faulty variant: the event loop returns with the first error of Submit.
Return_EndsLoop(l) ==
  /\ loop[l].at = "wait"
  /\ pc[loop[l].job] \notin {"acquire", "rejected"}
  /\ loop' = [loop EXCEPT ![l] = AtRecv]
  /\ UNCHANGED <<vars, incoming, present, gen, created, runs, activeRuns,
                 cb, held, idx, touched, crowded>>

\* Faulty variant: the run is finished whatever Submit has returned.
Return_AlwaysFinishes(l) ==
  /\ loop[l].at = "wait"
  /\ LET j == loop[l].job IN
     /\ pc[j] # "acquire"
     /\ runs' = [runs EXCEPT ![j] = Finish(@, pc[j] = "rejected")]
     /\ touched' = [touched EXCEPT ![j] = @ \cup {j}]
  /\ loop' = [loop EXCEPT ![l] = AtRecv]
  /\ UNCHANGED <<vars, incoming, present, gen, created, activeRuns,
                 cb, held, idx, crowded>>

\* Submit has returned; its error finishes the run, and leaves activeRuns alone.
Return(l) ==
  /\ loop[l].at = "wait"
  /\ LET j == loop[l].job IN
     /\ pc[j] # "acquire"
     /\ IF pc[j] = "rejected"
        THEN /\ runs' = [runs EXCEPT ![j] = Finish(@, TRUE)]
             /\ touched' = [touched EXCEPT ![j] = @ \cup {j}]
        ELSE UNCHANGED <<runs, touched>>
  /\ loop' = [loop EXCEPT ![l] = AtRecv]
  /\ UNCHANGED <<vars, incoming, present, gen, created, activeRuns,
                 cb, held, idx, crowded>>

(* watchPipelineDirectories: ReplacePipelines swaps the whole map at once; *)
(* a pipeline whose file is gone or does not load is not in the new one.   *)
Reload(names) ==
  /\ Alive
  /\ gen < MaxReloads
  /\ gen' = gen + 1
  /\ present' = names
  /\ UNCHANGED <<vars, loop, incoming, created, runs, activeRuns,
                 cb, held, idx, touched, crowded>>

-------------------------------------------------------------------------------
(* registerRunTracking: the callback run by job j at each of its hooks *)

StepHooks == {"stepStarted", "stepCompleted", "stepFailed"}
LastHooks == {"pipelineCompleted", "pipelineFailed"}

\* Faulty variant: a panic in the callback is not recovered and unwinds run.
CallbackReturn_Unwinds(j) ==
  /\ HookReturn(j) \/ (/\ pc[j] \in HookPoints
                       /\ Goto(j, pc[j], "release")
                       /\ UNCHANGED <<step, sent, expired, sem, wg, sink,
                                      cancelled, waiter, fired, passed>>)
  /\ cb' = [cb EXCEPT ![j] = "load"]
  /\ held' = [held EXCEPT ![j] = j]
  /\ idx' = [idx EXCEPT ![j] = 1]

\* The callback is over and with it the hook: the worker goes on.
CallbackReturn(j) ==
  /\ HookReturn(j)
  /\ cb' = [cb EXCEPT ![j] = "load"]
  /\ held' = [held EXCEPT ![j] = j]
  /\ idx' = [idx EXCEPT ![j] = 1]

\* activeRuns.Load(name): nothing stored, nothing to do.
Load(j) ==
  /\ pc[j] \in HookPoints
  /\ cb[j] = "load"
  /\ \/ /\ activeRuns[Name(j)] = {}
        /\ CallbackReturn(j)
     \/ \E r \in activeRuns[Name(j)] :
          /\ held' = [held EXCEPT ![j] = r]
          /\ cb' = [cb EXCEPT ![j] = IF pc[j] \in StepHooks THEN "scan" ELSE "apply"]
          /\ UNCHANGED <<vars, idx>>
  /\ UNCHANGED <<loop, incoming, present, gen, created, runs, activeRuns, touched, crowded>>

\* Whether the loop over run.Steps stops at entry s.
Matches(j, s) ==
  IF pc[j] = "stepStarted" THEN s.status = "pending"
                           ELSE s.name = StepName(j) /\ s.status = "running"

\* Faulty variant: the loop runs one entry too far.
Scan_OffByOne(j) ==
  /\ cb[j] = "scan"
  /\ LET steps == runs[held[j]].steps IN
     \/ /\ Matches(j, steps[idx[j]])
        /\ cb' = [cb EXCEPT ![j] = "apply"]
        /\ UNCHANGED <<vars, held, idx>>
     \/ /\ ~Matches(j, steps[idx[j]]) /\ idx[j] <= Len(steps)
        /\ idx' = [idx EXCEPT ![j] = @ + 1]
        /\ UNCHANGED <<vars, cb, held>>
  /\ UNCHANGED <<loop, incoming, present, gen, created, runs, activeRuns, touched, crowded>>

\* Another job is about to store the name of the entry this scan reads.
NameIsStored(j) ==
  /\ runs[held[j]].steps[idx[j]].name = ""
  /\ \E i \in Jobs \ {j} : /\ cb[i] = "apply" /\ pc[i] = "stepStarted"
                          /\ held[i] = held[j] /\ idx[i] = idx[j]

(* One entry of run.Steps is read, without the run's lock.  A read that    *)
(* meets StartStep half way through storing the name (its length without   *)
(* its bytes) panics in the comparison, which the hook recovers.           *)
Scan(j) ==
  /\ cb[j] = "scan"
  /\ LET steps == runs[held[j]].steps IN
     \/ /\ Matches(j, steps[idx[j]])
        /\ cb' = [cb EXCEPT ![j] = "apply"]
        /\ UNCHANGED <<vars, held, idx>>
     \/ /\ ~Matches(j, steps[idx[j]]) /\ idx[j] < Len(steps)
        /\ idx' = [idx EXCEPT ![j] = @ + 1]
        /\ UNCHANGED <<vars, cb, held>>
     \/ /\ ~Matches(j, steps[idx[j]]) /\ idx[j] = Len(steps)
        /\ CallbackReturn(j)
     \/ /\ pc[j] # "stepStarted" /\ NameIsStored(j)
        /\ CallbackReturn(j)
  /\ UNCHANGED <<loop, incoming, present, gen, created, runs, activeRuns, touched, crowded>>

\* The method of Run that the hook calls.
Update(j, r) ==
  CASE pc[j] = "pipelineStarted"   -> Start(r)
    [] pc[j] = "stepStarted"       -> StartStep(r, idx[j], StepName(j))
    [] pc[j] = "stepCompleted"     -> CompleteStep(r, idx[j])
    [] pc[j] = "stepFailed"        -> FailStep(r, idx[j])
    [] pc[j] = "pipelineCompleted" -> Finish(r, FALSE)
    [] pc[j] = "pipelineFailed"    -> Finish(r, TRUE)

\* Faulty variant: the entry is deleted on success only.
Apply_KeepsOnFailure(j) ==
  /\ cb[j] = "apply"
  /\ runs' = [runs EXCEPT ![held[j]] = Update(j, @)]
  /\ touched' = [touched EXCEPT ![held[j]] = @ \cup {j}]
  /\ IF pc[j] = "pipelineCompleted"
     THEN cb' = [cb EXCEPT ![j] = "delete"] /\ UNCHANGED <<vars, held, idx>>
     ELSE CallbackReturn(j)
  /\ UNCHANGED <<loop, incoming, present, gen, created, activeRuns, crowded>>

Apply(j) ==
  /\ cb[j] = "apply"
  /\ runs' = [runs EXCEPT ![held[j]] = Update(j, @)]
  /\ touched' = [touched EXCEPT ![held[j]] = @ \cup {j}]
  /\ IF pc[j] \in LastHooks
     THEN cb' = [cb EXCEPT ![j] = "delete"] /\ UNCHANGED <<vars, held, idx>>
     ELSE CallbackReturn(j)
  /\ UNCHANGED <<loop, incoming, present, gen, created, activeRuns, crowded>>

\* activeRuns.Delete(name), whichever run the name holds by now.
Delete(j) ==
  /\ cb[j] = "delete"
  /\ activeRuns' = [activeRuns EXCEPT ![Name(j)] = {}]
  /\ CallbackReturn(j)
  /\ UNCHANGED <<loop, incoming, present, gen, created, runs, touched, crowded>>

-------------------------------------------------------------------------------
(* The actions of the pool that the server does not take part in *)

PoolStep(j) ==
  /\ \/ Acquire(j) \/ Reject(j) \/ Expire(j) \/ Begin(j)
     \/ ExecStart(j) \/ ExecEnd(j) \/ EmitSend(j) \/ EmitDone(j)
     \/ Release(j) \/ WgDone(j)
  /\ UNCHANGED serverVars

\* The signal handler cancels the server's context.
Signal == Cancel /\ UNCHANGED serverVars

\* Faulty variant: Wait is called without waiting for Manager.Start.
ServerWait_AtOnce == WaitCall /\ UNCHANGED serverVars

(* The main goroutine: Manager.Start returns after the signal (see          *)
(* ManagerReturns of Listeners), then Wait is called, and main returns.     *)
(* The dispatchers are not waited for and go on until the process ends.     *)
ServerWait == cancelled /\ WaitCall /\ UNCHANGED serverVars
ServerExit == (WaitReturn \/ Exit) /\ UNCHANGED serverVars

Stopped == ~Alive /\ UNCHANGED allVars

Callback(j) == Alive /\ (Load(j) \/ Scan(j) \/ Apply(j) \/ Delete(j))
Dispatcher(l) == Alive /\ (Create(l) \/ Track(l) \/ CallSubmit(l) \/ Return(l))

DispatchNext ==
  \/ ListenerEvent
  \/ PipelineEvent
  \/ \E l \in Loops : Dispatcher(l)
  \/ \E names \in SUBSET Pipelines : Reload(names)
  \/ \E j \in Jobs : Callback(j) \/ PoolStep(j)
  \/ Signal \/ ServerWait \/ ServerExit
  \/ Stopped

DispatchSpec == DispatchInit /\ [][DispatchNext]_allVars

(* Goroutines are scheduled and timers fire; listeners, file changes and   *)
(* the signal come when they like.                                         *)
DispatchFairness ==
  /\ \A j \in Jobs :
       /\ WF_allVars(Callback(j))
       /\ WF_allVars(PoolStep(j))
  /\ \A l \in Loops : WF_allVars(Dispatcher(l))
  /\ WF_allVars(PipelineEvent)
  /\ WF_allVars(ServerWait \/ ServerExit)

FairDispatchSpec == DispatchSpec /\ DispatchFairness

-------------------------------------------------------------------------------
(* Safety *)

LoopStates ==
  {AtRecv}
  \cup [at : {"create"}, name : Pipelines, gen : 0..MaxReloads]
  \cup [at : {"track", "submit", "wait"}, job : Jobs]

\* Types of what the dispatchers and the store keep.
LoopTypeOK ==
  /\ loop \in [Loops -> LoopStates]
  /\ incoming \in Seq(Targets)
  /\ present \subseteq Pipelines
  /\ gen \in 0..MaxReloads

\* Types of all the variables; a scan stays inside the run it reads, and the
\* entries of a run carry only names of steps of its pipeline.
DispatchTypeOK ==
  /\ TypeOK
  /\ LoopTypeOK
  /\ created \subseteq Jobs
  /\ DOMAIN runs = Jobs
  /\ \A j \in Jobs : runs[j] \in Run(StepCount(j), StepNames(j))
  /\ activeRuns \in [Pipelines -> SUBSET Jobs]
  /\ cb \in [Jobs -> {"load", "scan", "apply", "delete"}]
  /\ held \in [Jobs -> Jobs]
  /\ \A j \in Jobs : idx[j] \in 1..StepCount(held[j])
  /\ touched \in [Jobs -> SUBSET Jobs]
  /\ crowded \subseteq Jobs

\* What the record of job j should say of the run as a whole, and of step k.
RunStatusOf(j) ==
  CASE pc[j] \in {"idle", "acquire", "spawned", "pipelineStarted"} -> "pending"
    [] pc[j] = "rejected" -> "failed"
    [] pc[j] \in {"release", "wgDone", "done"} ->
         IF Succeeded(j) THEN "completed" ELSE "failed"
    [] pc[j] = "emit" /\ step[j] > StepCount(j) -> "completed"
    [] OTHER -> "running"

StepStatusOf(j, k) ==
  IF k < step[j] THEN "completed"
  ELSE IF k > step[j] THEN "pending"
  ELSE CASE pc[j] \in {"execute", "running", "stepCompleted", "stepFailed"} -> "running"
         [] pc[j] = "emit" -> "completed"
         [] pc[j] \in {"pipelineFailed", "release", "wgDone", "done"} -> "failed"
         [] OTHER -> "pending"

\* No update of j's record is under way, by its callbacks or its dispatcher.
UpToDate(j) ==
  /\ cb[j] = "load"
  /\ pc[j] # "rejected" \/ \A l \in Loops : loop[l] # [at |-> "wait", job |-> j]

\* A run whose execution was never in flight together with another of the
\* same pipeline records that execution exactly: whenever no callback of it
\* is under way and its dispatcher has returned, its status and the status
\* and name of each step are those of the worker's position, whatever other
\* pipelines, reloads, timeouts or the shutdown do meanwhile.
RunMirrorsExecution ==
  \A j \in created \ crowded :
    UpToDate(j) =>
      /\ runs[j].status = RunStatusOf(j)
      /\ \A k \in 1..StepCount(j) :
           LET s == StepStatusOf(j, k) IN
           runs[j].steps[k] =
             [name |-> IF s = "pending" THEN "" ELSE Def[Name(j)].steps[k].name,
              status |-> s]

\* Once no execution of a pipeline is in flight its name holds no run, or one
\* that was refused: no hook of a later execution can reach an old record
\* that looks alive.  This holds for overlapping executions too.
NoStaleEntry ==
  \A n \in Pipelines :
    (\A j \in Jobs : Name(j) = n => ~Tracked(j)) =>
      \A r \in activeRuns[n] : pc[r] = "rejected"

\* Only executions of one pipeline share records: a run is updated by jobs
\* of its own name, and by its own job alone unless the two were crowded.
UpdatesStayInCrowd ==
  \A r \in Jobs : \A j \in touched[r] :
    Name(j) = Name(r) /\ (j = r \/ (j \in crowded /\ r \in crowded))

\* The record of a run that has ended is final, unless its execution overlapped
\* another one: neither the callbacks of its own job that are still to come,
\* nor its dispatcher, nor a later execution that finds its entry left behind
\* in activeRuns writes to it again.
EndedIsFinal ==
  [][\A j \in Jobs \ crowded :
       runs[j].status \in Terminal => runs'[j] = runs[j]]_allVars

\* Once the pool has been idle under Wait no command is being executed, and
\* none will be until the process ends, be it by a panic of Wait: a dispatcher
\* that calls Submit only then, or has its slot only then, gets no further
\* than the first step, because the context it hands on is done.
NoCommandOutlivesServer ==
  waiter \notin {"none", "parked"} => \A j \in Jobs : pc[j] # "running"

(* Refinement *)

\* The server uses the pool as Pool describes it: what is proved of Pool
\* holds inside the server.
ImplementsPool == Spec

(* Liveness *)

\* Nobody moves before the signal: the reader of the full sink waits for a
\* slot, and every slot is held by a worker that waits to send.
Jam ==
  /\ ~cancelled /\ Len(sink) = SinkCap
  /\ \E j \in Jobs : loop["pipeline"] = [at |-> "wait", job |-> j] /\ pc[j] = "acquire"
  /\ Cardinality(Holders) = MaxConcurrent
  /\ \A j \in Holders : pc[j] = "emit" /\ sent[j] < Len(Emits(j, step[j]))

\* Every run comes to an end, unless its execution overlapped another one of
\* its pipeline, the server is jammed, or the process ends.
RunsEnd ==
  \A j \in Jobs :
    j \in created ~> runs[j].status \in Terminal \/ j \in crowded \/ Jam \/ ~Alive

\* After the signal the process comes to its end, even where workers and
\* dispatchers were waiting for each other.
SignalEnds == cancelled ~> ~Alive

\* While the process lives, the events in the sink are all taken up, and
\* nothing but a jam keeps them there: no refused, failed or lost dispatch
\* costs the events behind it.
EventsAreTakenUnlessJammed == sink # <<>> ~> (sink = <<>> \/ Jam \/ ~Alive)

\* README: "Each emitted event triggers a target pipeline by name".  The
\* events in the sink of a process that lives are all taken up.
EmittedEventsAreTaken == sink # <<>> ~> sink = <<>> \/ ~Alive

(* What the documentation says of runs, and overlapping executions break *)

\* internal/pipeline/README.md: "pending -> running -> completed/failed".  A
\* run does not stay behind when its execution is over: every run ends, or
\* the process does.
EveryRunEnds ==
  \A j \in Jobs : j \in created ~> runs[j].status \in Terminal \/ ~Alive
===============================================================================
