# TLA+ verification of lp

lp is a pipeline server: listeners notice changes or requests, the server turns
their events into pipeline runs, and a pool executes the runs' shell commands,
a bounded number at a time. Steps and pipelines can emit events that start
further pipelines. Everything lives in one process and in memory; the hard part
is the goroutines, channels and callbacks between an event and its run record.

This directory holds TLA+ models of that part, the TLC runs that check them and
TLAPS proofs about them. `PROJECT.json` is the index: components, runs, the
source lines of every definition, hazards, findings and theorems. Paths below
are relative to the repository.

    tlc -workers 2 -config MCPool.cfg MCPool.tla     # one run
    tlapm PoolProofs.tla                             # one proof module

## The system

| Component | State | Operations | Used by / uses |
|---|---|---|---|
| Runner pool (`internal/runners/pool.go`) | slots `sem`, wait group, event sink | `Submit`, `run`, `emitEvents`, `Wait` | called by the dispatchers; fires hooks, executes steps, sends to the sink |
| Step (`internal/runners/step.go`) | none | `Execute` | `sh -c` under the run's context |
| Hooks (`internal/runners/hooks.go`, `internal/hooks`, `internal/observability/tracker.go`) | lists of callbacks, counters | register, emit with panic recovery | the pool calls the server back, in the worker's goroutine |
| Run record (`internal/pipeline/run.go`) | status, steps, times | `Start`, `StartStep`, `CompleteStep`, `FailStep`, `Finish` | written by tracking hooks, shown by the API |
| Store (`internal/pipeline/store.go`) | pipelines by ID, runs, history | lookup by name, `CreateRun`, `ReplacePipelines` | dispatchers, hot reload, API |
| Dispatch and tracking (`cmd/server/server.go`) | `activeRuns`: name to run | two event loops, `dispatchPipeline`, six tracking hooks | events in, submissions out |
| Hot reload (`cmd/server/server.go`, `pipelines.go`) | modification times | poll, load, replace | the store |
| Lifecycle (`cmd/server/server.go`, `main.go`) | root context | signal, `Manager.Start`, `pool.Wait`, stop | everything |
| Listener manager, file watcher, webhook (`internal/listener`) | event channel, modification times, HTTP server | start, stop, scan, handle | produce listener events |
| WebSocket hub (`cmd/server/ws.go`) | clients | upgrade, broadcast, read pump | fed from the hooks |
| REST API, ledger, collector, CLI, hook commands | logs and counters | read and report | decide nothing |

What makes each correct:

* pool: the limit is kept, no slot or count is lost on any path, events are
  fired exactly for what passed, `Wait` is a barrier, every submission settles;
* run record and tracking: a record says what its execution does, ends with it,
  and no execution writes into another's record;
* dispatch: every trigger of a known name becomes a run, nobody waits for ever,
  the signal releases all;
* store and reload: lookups see whole generations, history follows its name,
  the store comes to hold what the files say;
* listeners: every change is reported once, shutdown closes the channel only
  when no listener will send any more, what was accepted is taken up;
* hub: frames are whole, one client's failure costs no other its events.

Hard behaviours: callbacks run inside workers and read shared records without
a lock; look-ups are used after their lock is released; workers and dispatchers
wait on each other through two bounded channels; contexts are done at any
moment; reloads replace identities under a dispatch in progress; files change
between a listing, a stat and a read; handlers outlive the server that started
them; clients fall silent in the middle of a frame.

## Modules

    Executor         what the pool promises (abstract)
    Pool             the pool, one job per call of Submit
    PoolProofs       theorems about Pool
    RunRecord        the Run, its methods as operators
    Dispatch         EXTENDS Pool, RunRecord: the server around the pool
    DispatchProofs   theorems about Dispatch, EXTENDS PoolProofs
    TrackingProofs   theorems about who writes a record, EXTENDS DispatchProofs
    MirrorProofs     theorems about what a record says, EXTENDS TrackingProofs
    Store            the pipeline store
    HotReload        EXTENDS Store: files, loader, watcher, users of the store
    HotReloadProofs  theorems about HotReload and the methods of Store
    EventChannel     the channel of listener events and the context
    FileWatcher      EXTENDS EventChannel
    Webhook          EXTENDS EventChannel
    Listeners        EXTENDS FileWatcher, Webhook: manager, shutdown, reader
    ListenersProofs  theorems about Listeners
    WSFrame          lengths in frame headers, pure operators
    WSHub            EXTENDS WSFrame: connections, broadcasts, read pumps
    WSHubProofs      theorems about WSHub
    Minimum          the least element of a set of numbers, as lemmas
    MC...            instances for TLC

Operators named `X_Y` that stand before `X` are faulty variants of it: each
shows that a property fails once the code goes wrong in that way.

**Pool.** A job is a call of `Submit` and the goroutine it starts. `pc[j]` is its
position: `acquire` is the select in `Submit`, `spawned` to `wgDone` the
goroutine, with one label for each of the six hooks, for the start and the
duration of a command, for the send loop of `emitEvents` and for the two
deferred calls. One action is the code between two points at which another
goroutine can be noticed: a channel operation, a wait group operation, a hook,
the start or end of a command. `sem` is the number of tokens in the channel,
`sink` the contents of the channel behind `EventSink`, `step`/`sent` the loop
indices, `expired[j]` the timeout of `run`'s context. `waiter` is the one caller
of `Wait`: `parked` while the counter is not zero, `woken` by the `Done` that
brings it to zero (`CountDown`), and past `WaitReturn`, where it looks at the
counter again, `returned`, or `panicked` if a `Submit` has raised it meanwhile,
as `sync.WaitGroup` does. That panic, and the return of the main goroutine
(`Exit`), end every goroutine (`Alive`). `fired` and `passed` are histories. A command is known by how it can end: by itself, only when killed,
or not even then (a child holds the output pipes). Pipeline definitions are
data (`Def`). A nil `EventSink` is the case of empty emit lists. A negative
`max_concurrent` is outside the model: `make(chan)` panics at start-up.

**Executor.** Queued, running, succeeded, failed, refused, with a limit. The
refinement mapping is `Phase`, `passed` and `cancelled` at the end of `Pool`.

**RunRecord.** Each method holds the run's lock for its whole body and is one
operator on records. Times and errors are kept as "set or not". The type of a
run, `Run(n, names)`, says how many steps it has and whose names they can carry.

**Dispatch.** The two dispatchers are `loop["listener"]` and `loop["pipeline"]`:
receive and look up, create the run, store it in `activeRuns`, call `Submit`,
act on its return. The pool's actions are used as they are: the pipeline
dispatcher is the reader that `Drain` stands for in `Pool`, and a worker leaves
a hook (`HookReturn`) when the tracking callback is over. A callback is broken
where the code can be interleaved: `Load` of the map, one `Scan` per entry of
`run.Steps` read without the lock, `Apply` for the method under the run's lock,
`Delete` from the map. The unlocked read races with the store of the entry's
name; a read that sees the name's length without its bytes panics when it
compares and is recovered, which is the last disjunct of `Scan`. `gen` stands
for the identities of the pipelines: a reload gives each a new ID. The main
goroutine calls `pool.Wait` after the signal (`ServerWait`), leaves it and
returns (`ServerExit`); nothing waits for the dispatchers, which go on beside it
until the process ends.
`touched` and `crowded` are histories: who updated a run, and whose execution
overlapped another of the same pipeline. Job `j` is also the name of its run.

**Store, HotReload.** Each store method holds the lock throughout and is one
step. A pipeline's ID is the number of the load and of the file, so every load
has fresh ones; the run IDs are 1, 2, ... `ReplacePipelines` picks any order of
the map iteration that builds `oldByName` (`OldByName`): with namesakes any of
them may be the one whose history moves. `HotReload` has the goroutine of
`watchPipelineDirectories` as a loop over `at`: list, stat one entry after the
other, compare, list again, read one file after the other, swap. Files are
numbers in the order of their names and `todo` is the rest of a listing, of
which the least is next (`Entry`), as `os.ReadDir` sorts. Files are
written and removed between any two of these steps, listings and reads may fail
although the file is there (`MaxFaults`). A client of the store looks a name up
in one step and uses the ID in a later one, to create a run or to answer
`/api/pipelines/{name}/runs`. `hist` and `doubled` are histories: what the
history of a name should be, and which names have been ambiguous.
Named assumption `FreshTimes`: a file never gets a modification time that any
file had before, as it does where the clock is fine enough; a rewrite within
the resolution of the file system's clock is noticed by no comparison of times.
New times may be earlier ones, as after `mv` or `git checkout`.

**EventChannel, FileWatcher, Webhook, Listeners.** One channel, its context and
two senders. A scan is split like the watcher's above; its send blocks on the
full channel and watches nothing else. `net/http` is external: a goroutine and
a `recover` for each handler, `Serve` returning once `Shutdown` is called,
handlers running on. `Listeners` adds `Manager.Start` with its WaitGroup: it adds
one (`wg`) and starts a goroutine for each listener in turn (`Spawn`), a
goroutine whose listener's `Start` has returned counts down (`Leave`; `gone` are
those that have), and after the signal the listeners are stopped in turn and
the channel is closed once the counter is zero (`Close`). The main goroutine then
goes on to `pool.Wait`, which may return at once, and to the end of the process
(`Exit`), with which the reader `handleListenerEvents` and the handlers end
wherever they are (`Alive`). The reader is busy while it dispatches; how long
that takes is the business of `Dispatch`.

**WSFrame, WSHub.** `WSFrame` encodes and decodes the length of a frame as
bytes. In `WSHub` a connection is upgraded in three steps (response, add to the
clients, start of the pump); a broadcast copies the set in any order and writes
header and data to each under that connection's mutex; the pump answers pings
under the same mutex. A client (`peer`) reads and sends, only sends (`deaf`),
does neither (`still`), or is gone. `last` is the last piece written to a
connection, `sent` the data each broadcast has delivered.

## Runs

Bounds are sizes of constants. The guards that enforce them are those of
`Reload` (`MaxReloads`), `ListenerEvent` (`Triggers`), `Write` and `DirStep`
(unused `Times`), failing listings and reads (`MaxFaults`), `Dispatch` of
`HotReload` (`MaxRuns`), `Copy` (`MaxBroadcasts`), `ReadPing` (`MaxPings`) and
`Client` and the timed-out read of a healthy client (`Unsteady`).

| Run | Instance | Shows |
|---|---|---|
| pool | 3 jobs, 2 slots, sink of 1; two-step `build` that fires 0, 2 and at its end 1 event, two `deploy` whose command only a kill ends | `TypeOK`, `SlotAccounting`, `IInv`, `EventsMatchOutcome`, `WaitOnlyWhenQuiet`, `ImplementsExecutor`, `CancelledJobsDoNothing`, `SubmittedSettles` |
| dispatch_overlap | 2 executions of one 2-step pipeline, 2 slots | `DispatchTypeOK`, `RunMirrorsExecution`, `NoStaleEntry`, `UpdatesStayInCrowd`, `EndedIsFinal` |
| dispatch_server | 3 jobs, 1 slot, sink of 1; `build` fires one known and two unknown names, a listener asks for `deploy` too, one reload, the signal | `RunMirrorsExecution`, `NoCommandOutlivesServer`, `ImplementsPool`, `RunsEnd`, `EventsAreTakenUnlessJammed`, `SignalEnds` |
| hot_reload | 2 files, 3 contents (two pipelines, one without steps), 3 times, 2 runs, 1 fault, 1 client | `TypeOK`, `BackReferences`, `HistoryFollowsName`, `AnswersAreOwn`, `StoreFollowsFiles` |
| listeners | 2 files, 2 times, 1 fault, 1 request, channel of 1 | `TypeOK`, `CloseAfterListeners`, `ReportedOnce`, `NewerFilesAreReported`, `AcceptedIsTaken`, `ManagerReturns` |
| ws_hub | 2 connections (1 unsteady, 1 ping), 2 broadcasts, lengths around each change of form | `TypeOK`, `ClosedIsForgotten`, `EachIsSent`, `LengthsReadBack`, `FramesWhole`, `BroadcastEnds` |

Why these sizes: three jobs over two slots give queueing, full use and release
with another job waiting; one job emits in `pool`, several emitters contending
for the sink are covered by the proofs and, with the reader, by
`dispatch_server`. A sink or channel of one makes every send able to block; the
64 of the server is represented by 1 because the code only tests for room. A
two-step pipeline has a first, a last and a next step; two executions of one
name are enough for all the sharing of `activeRuns`, which is per name. Two
files with three contents can be one pipeline, two, or namesakes; the store is
swapped as often as the files' three times allow, and the time left for a write
is later than that of one file and earlier than that of the other. In
`listeners` the directory starts with one file or with two (`InitialDirs`), and
the time left for a write is later than the time of a file or earlier than
both. A channel of one makes a handler and the watcher wait for each other's
event to be taken; what the watcher reports depends on other files only through
the order of a listing and the blocked send, for which two are enough. In the hub,
a steady and an unsteady connection show what one client can do to another; two
broadcasters meet on one mutex and both remove one connection.

What the properties except, because the code does not achieve it:

* `RunMirrorsExecution`, `EndedIsFinal`, `RunsEnd`: executions of one pipeline that overlapped.
* `RunsEnd`, `EventsAreTakenUnlessJammed`: `Jam`, where every worker waits to
  send to the full sink whose reader waits for a slot. Only the signal ends it.
* `SubmittedSettles`, `RunsEnd`, `EventsAreTakenUnlessJammed`, `AcceptedIsTaken`:
  the end of the process (`~Alive`), which waits for no dispatcher and no event.
* `StoreFollowsFiles`: a file the last load could not read, which nothing tries
  again until another file changes (`misread`), and one that came and went
  between two snapshots yet was read in between (`Ghost`). It promises
  agreement after the first reload: a change between the start-up load and the
  first snapshot stays unnoticed until something else changes.
* `HistoryFollowsName`, in its second half: names that two files claimed at once.
* `AnswersAreOwn` says whose runs an answer shows, not that it shows them all:
  see `hot_reload_lookup`.
* `NewerFilesAreReported`: only a later time counts as a change.
* `BroadcastEnds`: clients that stopped reading and cannot be timed out
  (`Immune`), since no write has a deadline.

### Disagreements with the documentation

Each of these runs checks one statement of the repository's own text, and TLC
finds a behaviour of the code that breaks it.

| Run | Statement | What happens |
|---|---|---|
| pool_lingering | `step.go`: Execute respects cancellation and timeout | a child with the output pipes keeps `cmd.Run` from returning |
| dispatch_orphaned_run | `internal/pipeline/README.md`: pending, running, completed/failed | a run whose execution is over never ends |
| dispatch_fanout_blocked | `README.md`: each emitted event triggers its pipeline | worker and dispatcher wait for each other until the signal |
| dispatch_wait_panics | `pool.go`: Wait blocks until all submitted pipelines have finished | a `Submit` reaches the WaitGroup between its last `Done` and the resumption of `Wait`, which panics with the submission in flight |
| hot_reload_lookup | `README.md`: each event triggers its pipeline by name; `/api/pipelines/{name}/runs` is the execution history | a reload between the lookup and `CreateRun` drops the trigger, one between the lookup and `RunsFor` makes the answer empty |
| listeners_late_handler | `manager.go`: Start stops all listeners | a request handler is at work, and about to send on the closed channel, after `Start` has returned |

The overlap behind `dispatch_orphaned_run` also lets two executions update one
record and an ended run change its status again. `dispatch_fanout_blocked` and
`dispatch_server` bound the jam from both sides: with every slot taken, a step
may fire as many events as the sink holds and one more, which the reader has
already taken. The panic of `dispatch_wait_panics` needs a `Submit` between two
instructions of `Wait`.

Three more disagreements have no run:

* `server.run` waits for the listeners and for what has reached the pool, but for
  neither dispatcher. A request that was answered with "accepted"
  (`webhook.go:104`) is lost when the process ends with its event in the channel,
  although incoming events are said to be routed to their pipeline
  (`README.md:114`). `AcceptedIsTaken` excepts this (`~Alive`), and what holds of
  the pipelines is `NoCommandOutlivesServer`.
* A pipeline-level `emit` (`README.md:79`) is never fired, because the loader
  decodes a name and steps only (`pipelines.go:69`). `Loaded` follows the loader.
* `.example/server.yaml` says that `max_concurrent` defaults to 1, but absent it
  is 0 and no submission is ever started (`Acquire` is never enabled).

### Fairness

`Fairness` in `Pool` and `DispatchFairness` are weak fairness of each
goroutine's own steps, of timers, and of the reader of the sink. Weak fairness
of `Acquire \/ Reject` is enough: Go queues blocked senders first-in first-out,
so a sender waiting for a slot that keeps becoming free is served, and with
finitely many jobs a slot that is free stays free until somebody takes it.
`ExecEnd` is fair only while it is enabled, so a command that hangs ends only
through its context and a lingering one never. That hooks return is assumed
there; `WSHub` looks at the callback that could break it, and `BroadcastEnds`
says exactly when it does not return. In `Dispatch` the main goroutine is fair
after the signal (`ServerWait`, `ServerExit`), so that `SignalEnds` says that the
process ends; in `Pool` nobody has to call `Wait` or to return from it. `HotReload` has weak fairness of the watcher (a goroutine and a ticker).
`Listeners` has weak fairness of every goroutine and strong fairness of `Quit`:
the watcher's select finds the context done each time it comes round and Go
picks among ready cases at random. That dispatches return (`Dispatched`) after
the signal is due to the select of `Submit`, which watches the context, and
before it to the absence of a jam. `Exit` is not fair: the process may live on
for as long as a worker does, or end at once. `WSHub`
has strong fairness of `Lock` (Go's mutex hands itself to a starving waiter) and
weak fairness of what a writer can do by itself; a write to a client that does
not read is not fair. Nothing is assumed of callers: no submission, `Wait`,
reload, file change, request, ping, listener event or signal has to come.

Runs without deadlock checking: `pool_lingering` (a lingering command leaves its
job where it is and everything else may have ended), the two of `MCHotReload`
(the watcher stops with the context), the two of `MCListeners` (everything has
returned, or the process is over), `ws_hub` (all connections
are closed or quiet, all broadcasts done, or a write blocks for ever).

## Proofs

Every theorem holds for all values of the constants that meet the named
assumptions of the modules, which TLC evaluates in the runs:

* `JobsAssumption`, `DefAssumption`, `ConfigAssumption`: finitely many jobs, what
  a pipeline is (at least one step), the limit, the timeout, the sink's capacity;
* `BoundsAssumption`, `FilesAssumption` (its bound `MaxRuns` is a number),
  `BufferAssumption`, `WatchAssumption`: types of bounds, files and times;
* `HubAssumption`: finitely many connections, which are not broadcasters;
  `LengthsAssumption`: lengths below 2^31, as `EightBytes` writes the upper half
  of the eight bytes as zeros. The code would write up to 2^63; a payload of
  2 GiB is not one that the server builds.

The bounds of the model (`MaxReloads`, `MaxRuns`, `MaxFaults`, `MaxBroadcasts`,
`MaxPings`, the lengths of `Triggers`) are constants like the others, so the
theorems hold for any of them.

**PoolProofs.** `Inductive` is `Spec => []IInv`, with `IInv` the conjunction of
`TypeOK`, `SlotAccounting`, `LoopInv` and `EmitInv`. The strengthening is needed
because `EventsMatchOutcome` speaks of runs that are over only: `LoopInv` ties
the loop index and what has passed to every label on the way there, `EmitInv`
the events fired to both loop indices. That `sem` stays within its channel
follows only from `SlotAccounting`, which makes it the number of holders.
`WaitIsABarrier` says that a counter at zero means no job in flight, also none
submitted after the `Done` that woke the waiter. From `IInv`: `Typing`,
`Accounting`, `SlotLimit`, `Events`, `WaitIsABarrier`, and `Refinement`, where
every step of the pool is a step of `Executor` or stutters.
`NothingAfterCancel` goes by a set of labels that is closed once the context is
done (`Doomed`): `ExecStart` can only fail, so the job is on its way out at its
first step.

**DispatchProofs.** `ServerUsesPool` shows that what the server does is, for the
pool's variables, a step of `Pool`; so all of the above holds in the server
(`ServerKeepsLimit`). `NoCommandAfterExit`: `Wait` is called only after the
signal; whether it finds the counter at zero or is woken by the `Done` that
brings it there, by `SlotAccounting` no job is in flight at that moment, though
one may be right after it; and a command is not started under a context that is
done (`ExecStart`).

**TrackingProofs.** `TrackInv` has four parts: a job is created by one dispatcher
at a time (`CreatedInv`); an entry of `activeRuns` is a stored run whose
execution is not past its last hook, and a job in flight finds there its own
run or one it is crowded with (`EntryInv`); a callback under way is inside a
hook and holds such a run (`HeldInv`); who has updated what (`TouchInv`). The
strengthening is needed because a callback uses a run that it loaded earlier,
and because an entry is removed by name and not by run. From it `UpdatesAreOwn`
and `EntriesAreCleared`, for any number of overlapping executions.

**MirrorProofs.** `RecInv`, on top of `IInv` and `TrackInv`. `RunMirrorsExecution`
says nothing while an update is under way, so it cannot be inductive; `Mirrors`
says what the record is at every point of a callback: that of the worker's
position all through it, except that the last hook's method is applied before
its entry is deleted. It has to say, too, that the scan of `run.Steps` is not
past the step under way (it reads "pending" or "running" nowhere before it) and
has stopped at it when the method is applied. The rest keeps the callbacks of
others away: until its last hook a job that was never crowded finds itself under
its name (`OwnEntry`), so that `Load` never finds nothing; two tracked jobs of
one name are crowded (`CrowdInv`), so that nobody else's `Delete` hits its
entry; and whoever waits in `Submit` has a dispatcher that will finish its run
if it is refused (`WaitInv`). From it `RecordsMirror`. `RecordInv` holds of crowded
jobs as well: whichever record a callback has loaded, it has as many steps as
its own pipeline, which gives `DispatchTyping`. `EndedRunsAreFinal` adds
`WaiterInv`, for the dispatcher that may come late to a run: each submission has
one dispatcher that waits for it, and until that one has finished the run of a
refused job nobody has. The rest follows from `RecInv`: apart from
its dispatcher only a job's own callback writes the record, and the method is
never applied to a record which has ended.

**HotReloadProofs.** `ReloadInv` types the loader's and the watcher's variables,
and says that the IDs of a load are fresh (those of the store are older or are
this very load's), that history is a partition of the runs, and what each
pipeline's history is. The heart of it is what `ReplacePipelines` does: for any
iteration order of the map it moves whole histories from old IDs to new ones,
no two of them to the same one (`Moves`, and `SwapMoves` to `SwapHist` from it).
So a run is under one ID, once, before and after (`References`); a name that one
file claims takes over exactly what the name had (`Histories`); and what is
listed under an ID that a client still holds stays of the name it looked up,
because heirs are fresh IDs and runs are created under stored ones (`OwnRuns` in
`FoundInv`, for `OwnAnswers`).

**ListenersProofs.** `ManagerInv` says that the counter is the number of listeners
which have been added and have not called `Done` (`Counted`), that those which
have called it have returned from `Start`, that a listener is added before the
manager goes on to the next one, and that the channel is closed only by a
manager that has found the counter at zero. `ChannelOutlivesListeners` follows:
it rests on the order of `Add`, `go`, `Done` and `Wait`. `NoDoubleReport` rests on
`FreshTimes`: times not used yet are recorded nowhere, so a version that differs
from the last one recorded is new (`WatchInv`), wherever the scan stands.
`Typing` needs the same for the entry a scan is about to send: it was recorded
before the send began.

**WSHubProofs.** `HubInv` says where a writer aims (at a connection that has been
added, a broadcast at the head of its list), that a mutex is held exactly by
the one that writes, that who is about to close a connection has taken it off
the set, and that on a live connection a header without its data is the last
piece, from the broadcast about to send them. From it `HubTyping`,
`ClosedStaysForgotten` and `WholeFrames`. `NobodyIsSkipped` adds `SentInv`: of the
clients a broadcast has copied those not on its list any more were sent one
frame or have failed, those still on it nothing. `HeadersReadBack` is arithmetic:
`Field` is the sum of its bytes by weight, and the bytes of a number below 2^31
add up to it.

**Minimum.** The library's least elements (`Min`) are a `CHOOSE`; that a set of
numbers has one, by well-founded induction, is stated once here.

All invariants and all action properties that the passing runs check are proved.
Only model-checked: liveness (`SubmittedSettles`, `RunsEnd`,
`EventsAreTakenUnlessJammed`, `SignalEnds`, `StoreFollowsFiles`,
`NewerFilesAreReported`, `AcceptedIsTaken`, `ManagerReturns`, `BroadcastEnds`),
which is out of the prover's reach with fairness and `ENABLED`.

## Not modelled, and why

* Ledger, collector, hook commands, CLI, dashboard and embedded files, and the
  REST handlers besides `handlePipelineRuns`: they record, report or start
  something detached, and nothing in the server depends on what they do.
* Outputs, times, log entries and the labels of events: data that is only shown.
* Registration of hooks, which is over before the server starts, and the
  lifecycle hooks of listeners, `event_received` among them, which is never
  fired: they touch no state of the listeners.
* In `Dispatch`, that a reload changes what a definition says: only which names
  there are and their identities change there. `HotReload` has the contents.
* In `WSHub`, the handshake's headers and hash, payloads, and a field of a frame
  that arrives in pieces: `wsReadFrame` asks once and ignores how much it got
  (`ws.go:186`), which matters to the payload that the pump throws away and to
  where it looks for the next frame.
* The torn read of `PipelineID` by the API during a reload (`store.go:90`).
* The construction of the server from its configuration, and the API's five
  seconds of shutdown.

## Plan

Every safety property of the runs has its theorem. What could follow: an
abstract specification of a pipeline's history, one sequence for each name, that
`HotReload` implements while no name is ambiguous; and lengths of more than 31
bits in `WSFrame`.
