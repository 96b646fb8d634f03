----------------------------- MODULE DispatchProofs -----------------------------
(***************************************************************************)
(* The server uses the pool as module Pool describes it, so that what      *)
(* PoolProofs proves of the pool holds inside the server.                  *)
(***************************************************************************)
EXTENDS Dispatch, PoolProofs

\* A callback step is a return from the hook, or the pool does not see it.
LEMMA CallbackIsPoolStep ==
  ASSUME NEW j \in Jobs, Callback(j)
  PROVE  HookReturn(j) \/ UNCHANGED vars
BY DEF Callback, Load, Scan, Apply, Delete, CallbackReturn

\* A dispatcher's step is a call of Submit, or the pool does not see it.
LEMMA DispatcherIsPoolStep ==
  ASSUME LoopTypeOK, NEW l \in Loops, Dispatcher(l)
  PROVE  (\E j \in Jobs : Submit(j)) \/ UNCHANGED vars
<1>1. CASE Create(l) \/ Track(l) \/ Return(l)
  BY <1>1 DEF Create, Track, Return
<1>2. CASE CallSubmit(l)
  <2>1. loop[l].at = "submit" /\ loop[l] \in LoopStates
    BY <1>2 DEF CallSubmit, LoopTypeOK
  <2>2. loop[l].job \in Jobs
    BY <2>1 DEF LoopStates, AtRecv
  <2>3. QED
    BY <1>2, <2>2 DEF CallSubmit
<1>3. QED
  BY <1>1, <1>2 DEF Dispatcher

\* A lookup leaves the dispatcher in a typed state.
LEMMA LookupType ==
  ASSUME LoopTypeOK, NEW l \in Loops, NEW n, Lookup(l, n)
  PROVE  loop' \in [Loops -> LoopStates]
<1>1. AtRecv \in LoopStates
  BY DEF LoopStates
<1>2. n \in present => [at |-> "create", name |-> n, gen |-> gen] \in LoopStates
  BY DEF LoopStates, LoopTypeOK
<1>3. QED
  BY <1>1, <1>2 DEF Lookup, LoopTypeOK

\* So does any other step of a dispatcher.
LEMMA DispatcherType ==
  ASSUME LoopTypeOK, NEW l \in Loops, Dispatcher(l)
  PROVE  loop' \in [Loops -> LoopStates]
<1>1. AtRecv \in LoopStates
  BY DEF LoopStates
<1>2. \A j \in Jobs : \A a \in {"track", "submit", "wait"} :
        [at |-> a, job |-> j] \in LoopStates
  BY DEF LoopStates
<1>3. loop[l] \in LoopStates
  BY DEF LoopTypeOK
<1>4. loop[l].at \in {"track", "submit", "wait"} => loop[l].job \in Jobs
  BY <1>3 DEF LoopStates, AtRecv
<1>5. CASE Create(l)
  BY <1>1, <1>2, <1>5 DEF Create, LoopTypeOK
<1>6. CASE Track(l)
  BY <1>2, <1>4, <1>6 DEF Track, LoopTypeOK
<1>7. CASE CallSubmit(l)
  BY <1>2, <1>4, <1>7 DEF CallSubmit, LoopTypeOK
<1>8. CASE Return(l)
  BY <1>1, <1>8 DEF Return, LoopTypeOK
<1>9. QED
  BY <1>5, <1>6, <1>7, <1>8 DEF Dispatcher

\* The dispatchers and the store stay typed (dispatchPipeline, CreateRun,
\* ReplacePipelines).
THEOREM LoopTyping == DispatchSpec => []LoopTypeOK
<1>1. DispatchInit => LoopTypeOK
  BY BoundsAssumption DEF DispatchInit, LoopTypeOK, LoopStates
<1>2. LoopTypeOK /\ [DispatchNext]_allVars => LoopTypeOK'
  <2> SUFFICES ASSUME LoopTypeOK, [DispatchNext]_allVars PROVE LoopTypeOK'
    OBVIOUS
  <2>1. CASE ListenerEvent
    <3>1. loop' \in [Loops -> LoopStates]
      BY <2>1, LookupType DEF ListenerEvent, Loops
    <3>2. QED
      BY <2>1, <3>1 DEF ListenerEvent, LoopTypeOK
  <2>2. CASE PipelineEvent
    <3>1. loop' \in [Loops -> LoopStates]
      BY <2>2, LookupType DEF PipelineEvent, Loops
    <3>2. QED
      BY <2>2, <3>1 DEF PipelineEvent, LoopTypeOK
  <2>3. ASSUME NEW l \in Loops, Dispatcher(l)
        PROVE  LoopTypeOK'
    <3>1. loop' \in [Loops -> LoopStates]
      BY <2>3, DispatcherType
    <3>2. UNCHANGED <<incoming, present, gen>>
      BY <2>3 DEF Dispatcher, Create, Track, CallSubmit, Return
    <3>3. QED
      BY <3>1, <3>2 DEF LoopTypeOK
  <2>4. ASSUME NEW names \in SUBSET Pipelines, Reload(names)
        PROVE  LoopTypeOK'
    BY <2>4, BoundsAssumption DEF Reload, LoopTypeOK
  <2>5. ASSUME NEW j \in Jobs, Callback(j) \/ PoolStep(j)
        PROVE  LoopTypeOK'
    BY <2>5 DEF Callback, Load, Scan, Apply, Delete, PoolStep, serverVars, LoopTypeOK
  <2>6. CASE Signal \/ ServerWait \/ ServerExit \/ Stopped \/ UNCHANGED allVars
    BY <2>6 DEF Signal, ServerWait, ServerExit, Stopped, allVars, serverVars, LoopTypeOK
  <2>7. QED
    BY <2>1, <2>2, <2>3, <2>4, <2>5, <2>6 DEF DispatchNext
<1>3. QED
  BY <1>1, <1>2, PTL DEF DispatchSpec

\* Every behaviour of the server is, for the pool, one of module Pool.
THEOREM ServerUsesPool == DispatchSpec => ImplementsPool
<1>1. DispatchInit => Init
  BY DEF DispatchInit
<1>2. LoopTypeOK /\ [DispatchNext]_allVars => [Next]_vars
  <2> SUFFICES ASSUME LoopTypeOK, DispatchNext PROVE [Next]_vars
    BY DEF allVars
  <2>1. CASE ListenerEvent
    BY <2>1 DEF ListenerEvent
  <2>2. CASE PipelineEvent
    BY <2>2 DEF PipelineEvent, Next
  <2>3. ASSUME NEW l \in Loops, Dispatcher(l)
        PROVE  [Next]_vars
    BY <2>3, DispatcherIsPoolStep DEF Next, JobNext
  <2>4. ASSUME NEW names \in SUBSET Pipelines, Reload(names)
        PROVE  [Next]_vars
    BY <2>4 DEF Reload
  <2>5. ASSUME NEW j \in Jobs, Callback(j)
        PROVE  [Next]_vars
    BY <2>5, CallbackIsPoolStep DEF Next, JobNext, Worker
  <2>6. ASSUME NEW j \in Jobs, PoolStep(j)
        PROVE  [Next]_vars
    BY <2>6 DEF PoolStep, Next, JobNext, Worker
  <2>7. CASE Signal \/ ServerWait \/ ServerExit \/ Stopped
    BY <2>7 DEF Signal, ServerWait, ServerExit, Stopped, allVars, Next
  <2>8. QED
    BY <2>1, <2>2, <2>3, <2>4, <2>5, <2>6, <2>7 DEF DispatchNext
<1>3. QED
  BY <1>1, <1>2, LoopTyping, PTL DEF DispatchSpec, Spec, ImplementsPool

\* Inside the server no more than max_concurrent pipelines hold a slot, and
\* every slot and every count of the WaitGroup is accounted for, whatever
\* the dispatchers, the callbacks and the reloads do.
THEOREM ServerKeepsLimit == DispatchSpec => [](SlotAccounting /\ ConcurrencyLimit)
BY ServerUsesPool, Accounting, SlotLimit, PTL DEF ImplementsPool

-------------------------------------------------------------------------------
(* Shutdown *)

\* The main goroutine is at pool.Wait only once the context is done.
WaitAfterSignal == waiter # "none" => cancelled

\* Wait is got past, be it by waking up, only when the counter has come to zero.
LEMMA LeavesAtZero ==
  ASSUME [Next]_vars, waiter \in {"none", "parked"}, waiter' \notin {"none", "parked"},
         wg \in Nat
  PROVE  wg' = 0
<1>1. ASSUME NEW j \in Jobs, JobNext(j)
      PROVE  wg' = 0
  BY <1>1 DEF JobNext, Worker, Submit, Acquire, Reject, CountDown, Begin, Expire, HookReturn,
         ExecStart, ExecEnd, EmitSend, EmitDone, Release, WgDone
<1>2. QED
  BY <1>1 DEF Next, WaitCall, WaitReturn, Exit, Drain, Cancel, Terminated, vars

\* In the server Wait is called only once the context is done.
LEMMA WaitAtSignal ==
  ASSUME [DispatchNext]_allVars, LoopTypeOK, waiter = "none", waiter' # waiter
  PROVE  cancelled
<1>1. ASSUME NEW j \in Jobs, Callback(j) \/ PoolStep(j)
      PROVE  waiter' = waiter
  <2>1. CASE Callback(j)
    BY <2>1, CallbackIsPoolStep DEF HookReturn, vars
  <2>2. CASE PoolStep(j)
    BY <2>2 DEF PoolStep, Acquire, Reject, CountDown, Expire, Begin, ExecStart, ExecEnd,
           EmitSend, EmitDone, Release, WgDone
  <2>3. QED
    BY <1>1, <2>1, <2>2
<1>2. ASSUME NEW l \in Loops, Dispatcher(l)
      PROVE  waiter' = waiter
  BY <1>2, DispatcherIsPoolStep DEF Submit, vars
<1>3. QED
  BY <1>1, <1>2 DEF DispatchNext, ListenerEvent, PipelineEvent, Drain, Reload, Signal,
     Cancel, ServerWait, ServerExit, WaitReturn, Exit, Stopped, allVars, vars

\* A command starts only before the cancellation.
LEMMA CommandStart ==
  ASSUME TypeOK, [Next]_vars, NEW j \in Jobs, pc'[j] = "running", pc[j] # "running"
  PROVE  ~cancelled
<1>1. CASE \E i \in Jobs : ExecStart(i)
  BY <1>1 DEF ExecStart, CtxDone, Goto, TypeOK
<1>2. CASE ~\E i \in Jobs : ExecStart(i)
  <2>1. ASSUME NEW i \in Jobs, HookReturn(i) \/ EmitDone(i)
        PROVE  FALSE
    BY <2>1 DEF HookReturn, AfterHook, EmitDone, Goto, TypeOK, HookPoints
  <2>2. QED
    BY <1>2, <2>1 DEF Next, JobNext, Worker, Submit, Acquire, Reject, Begin, Expire,
       ExecEnd, EmitSend, Release, WgDone, WaitCall, WaitReturn, Exit, Drain,
       Cancel, Terminated, vars, Goto, TypeOK
<1>3. QED
  BY <1>1, <1>2

\* Where the counter has come to zero no command is being executed.
LEMMA QuietAtZero ==
  ASSUME SlotAccounting', wg' = 0
  PROVE  \A j \in Jobs : pc'[j] # "running"
<1>1. Cardinality(InFlight') = 0 /\ IsFiniteSet(InFlight')
  BY JobsAssumption, FS_Subset DEF SlotAccounting, InFlight
<1>2. InFlight' = {}
  BY <1>1, FS_EmptySet
<1>3. QED
  BY <1>2 DEF InFlight, Busy, Holding, InRun

\* Once the counter has come to zero under pool.Wait no command is executed any
\* more, until main returns or dies in WaitGroup's panic, whatever the
\* dispatchers that are still running submit (server.go:268-298).
THEOREM NoCommandAfterExit == DispatchSpec => []NoCommandOutlivesServer
<1> DEFINE Inv == WaitAfterSignal /\ NoCommandOutlivesServer
<1>1. DispatchInit => Inv
  BY DEF DispatchInit, Init, WaitAfterSignal, NoCommandOutlivesServer
<1>2. IInv /\ LoopTypeOK /\ [Next]_vars /\ Inv /\ [DispatchNext]_allVars => Inv'
  <2> SUFFICES ASSUME IInv, LoopTypeOK, [Next]_vars, Inv, [DispatchNext]_allVars PROVE Inv'
    OBVIOUS
  <2>1. cancelled => cancelled'
    BY DEF Next, JobNext, Worker, Submit, Acquire, Reject, Begin, Expire, HookReturn,
       ExecStart, ExecEnd, EmitSend, EmitDone, Release, WgDone, WaitCall, WaitReturn,
       Exit, Drain, Cancel, Terminated, vars
  <2>2. WaitAfterSignal'
    BY <2>1, WaitAtSignal DEF WaitAfterSignal
  <2>3. NoCommandOutlivesServer'
    <3> SUFFICES ASSUME waiter' \notin {"none", "parked"}, NEW j \in Jobs,
                        pc'[j] = "running"
                 PROVE  FALSE
      BY DEF NoCommandOutlivesServer
    <3>1. CASE waiter \in {"none", "parked"}
      <4>1. wg' = 0
        BY <3>1, LeavesAtZero DEF IInv, TypeOK
      <4>2. SlotAccounting'
        BY NextIInv DEF IInv
      <4>3. QED
        BY <4>1, <4>2, QuietAtZero
    <3>2. CASE waiter \notin {"none", "parked"}
      BY <3>2, CommandStart DEF IInv, WaitAfterSignal, NoCommandOutlivesServer
    <3>3. QED
      BY <3>1, <3>2
  <2>4. QED
    BY <2>2, <2>3
<1>3. QED
  BY <1>1, <1>2, ServerUsesPool, LoopTyping, Inductive, PTL DEF DispatchSpec, ImplementsPool, Spec

===============================================================================
