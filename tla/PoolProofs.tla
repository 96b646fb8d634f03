------------------------------ MODULE PoolProofs ------------------------------
(***************************************************************************)
(* Proofs about Pool, for every finite set of jobs, every set of           *)
(* definitions and every capacity of the two channels.                     *)
(***************************************************************************)
EXTENDS Pool, FiniteSetTheorems, TLAPS

-------------------------------------------------------------------------------
(* Counting the jobs whose label lies in a set *)

\* The jobs that the labelling f puts into S.
At(f, S) == {i \in Jobs : f[i] \in S}

\* Moving one job from one label to another changes the number of jobs in S
\* by one if it enters or leaves S and by nothing otherwise.
LEMMA CountMove ==
  ASSUME NEW S, NEW f \in [Jobs -> Labels], NEW j \in Jobs, NEW b \in Labels
  PROVE  LET A == At(f, S)
             B == At([f EXCEPT ![j] = b], S)
         IN  /\ Cardinality(A) \in Nat
             /\ f[j] \in S /\ b \in S => Cardinality(B) = Cardinality(A)
             /\ f[j] \notin S /\ b \notin S => Cardinality(B) = Cardinality(A)
             /\ f[j] \notin S /\ b \in S => Cardinality(B) = Cardinality(A) + 1
             /\ f[j] \in S /\ b \notin S => Cardinality(B) = Cardinality(A) - 1
<1> DEFINE A == At(f, S)
           B == At([f EXCEPT ![j] = b], S)
<1>1. IsFiniteSet(A) /\ IsFiniteSet(B)
  BY JobsAssumption, FS_Subset DEF At
<1>2. Cardinality(A) \in Nat
  BY <1>1, FS_CardinalityType
<1>3. (f[j] \in S <=> b \in S) => B = A
  BY DEF At
<1>4. ASSUME f[j] \notin S, b \in S
      PROVE  Cardinality(B) = Cardinality(A) + 1
  <2>1. B = A \cup {j} /\ j \notin A
    BY <1>4 DEF At
  <2>2. QED
    BY <2>1, <1>1, FS_AddElement
<1>5. ASSUME f[j] \in S, b \notin S
      PROVE  Cardinality(B) = Cardinality(A) - 1
  <2>1. B = A \ {j} /\ j \in A
    BY <1>5 DEF At
  <2>2. QED
    BY <2>1, <1>1, FS_RemoveElement
<1>6. QED
  BY <1>2, <1>3, <1>4, <1>5

\* The same for the two sets the counters of the pool are compared with.
LEMMA Counters ==
  ASSUME TypeOK, SlotAccounting, NEW j \in Jobs, NEW b \in Labels,
         pc' = [pc EXCEPT ![j] = b]
  PROVE  /\ Cardinality(Holders') =
              IF pc[j] \in Holding
              THEN IF b \in Holding THEN sem ELSE sem - 1
              ELSE IF b \in Holding THEN sem + 1 ELSE sem
         /\ Cardinality(InFlight') =
              IF pc[j] \in Busy
              THEN IF b \in Busy THEN wg ELSE wg - 1
              ELSE IF b \in Busy THEN wg + 1 ELSE wg
<1> DEFINE next == [pc EXCEPT ![j] = b]
<1>1. pc \in [Jobs -> Labels]
  BY DEF TypeOK
<1>2. sem = Cardinality(At(pc, Holding)) /\ Holders' = At(next, Holding)
  BY DEF SlotAccounting, Holders, At
<1>3. wg = Cardinality(At(pc, Busy)) /\ InFlight' = At(next, Busy)
  BY DEF SlotAccounting, InFlight, At
<1>4. QED
  BY <1>1, <1>2, <1>3, CountMove

\* A counter is positive while somebody has still to lower it.
LEMMA Positive ==
  ASSUME TypeOK, SlotAccounting, NEW j \in Jobs
  PROVE  /\ pc[j] \in Holding => sem >= 1
         /\ pc[j] \in Busy => wg >= 1
<1>1. IsFiniteSet(Holders) /\ IsFiniteSet(InFlight)
  BY JobsAssumption, FS_Subset DEF Holders, InFlight
<1>2. Cardinality(Holders) \in Nat /\ Cardinality(InFlight) \in Nat
  BY <1>1, FS_CardinalityType
<1>3. pc[j] \in Holding => Cardinality(Holders) # 0
  BY <1>1, FS_EmptySet DEF Holders
<1>4. pc[j] \in Busy => Cardinality(InFlight) # 0
  BY <1>1, FS_EmptySet DEF InFlight
<1>5. QED
  BY <1>2, <1>3, <1>4 DEF SlotAccounting

-------------------------------------------------------------------------------
(* The data of a job *)

\* A job has at least one step, and each of its stages has an emit list.
LEMMA JobData ==
  ASSUME NEW j \in Jobs
  PROVE  /\ StepCount(j) \in Nat \ {0}
         /\ PipelineOf[j] \in Pipelines
         /\ \A s \in Stages(j) : /\ Emits(j, s) \in Seq(Targets)
                                /\ Len(Emits(j, s)) \in Nat
<1>1. PipelineOf[j] \in Pipelines
  BY DefAssumption
<1>2. StepCount(j) \in Nat \ {0}
  BY <1>1, DefAssumption DEF StepCount
<1>3. ASSUME NEW s \in Stages(j)
      PROVE  Emits(j, s) \in Seq(Targets)
  <2>1. CASE s <= StepCount(j)
    <3>1. s \in 1..Len(Def[PipelineOf[j]].steps)
      BY <2>1, <1>2 DEF Stages, StepCount
    <3>2. QED
      BY <3>1, <2>1, <1>1, DefAssumption DEF Emits
  <2>2. CASE ~(s <= StepCount(j))
    BY <2>2, <1>1, DefAssumption DEF Emits
  <2>3. QED
    BY <2>1, <2>2
<1>4. QED
  BY <1>1, <1>2, <1>3

-------------------------------------------------------------------------------
(* The inductive invariant holds initially *)

LEMMA InitIInv == Init => IInv
<1> SUFFICES ASSUME Init PROVE IInv
  OBVIOUS
<1>1. TypeOK
  <2>1. fired = [j \in Jobs |-> [s \in Stages(j) |-> 0]]
    BY DEF Init
  <2>2. DOMAIN fired = Jobs /\ \A j \in Jobs : fired[j] \in [Stages(j) -> Nat]
    BY <2>1
  <2>3. sink \in Seq([source : Pipelines, pipeline : Targets]) /\ Len(sink) <= SinkCap
    BY ConfigAssumption DEF Init
  <2>4. /\ pc \in [Jobs -> Labels]
        /\ step \in [Jobs -> Nat \ {0}]
        /\ sent \in [Jobs -> Nat]
        /\ expired \in [Jobs -> BOOLEAN]
        /\ passed \in [Jobs -> Nat]
    BY DEF Init, Labels
  <2>5. cancelled \in BOOLEAN
    BY DEF Init
  <2>6. /\ sem \in 0..MaxConcurrent
        /\ wg \in Nat
        /\ waiter \in {"none", "parked", "woken", "returned", "panicked", "exited"}
    BY ConfigAssumption DEF Init
  <2>7. QED
    BY <2>2, <2>3, <2>4, <2>5, <2>6 DEF TypeOK
<1>2. SlotAccounting
  <2>1. Holders = {} /\ InFlight = {}
    BY DEF Init, Holders, InFlight, Holding, Busy, InRun, HookPoints
  <2>2. QED
    BY <2>1, FS_EmptySet DEF Init, SlotAccounting
<1>3. LoopInv
  BY JobData DEF Init, LoopInv, Stages
<1>4. EmitInv
  BY JobData DEF Init, EmitInv, Stages
<1>5. QED
  BY <1>1, <1>2, <1>3, <1>4 DEF IInv

-------------------------------------------------------------------------------
(* Every action preserves it: one lemma for each action of a job *)

LEMMA SubmitStep ==
  ASSUME IInv, NEW j \in Jobs, Submit(j)
  PROVE  IInv'
<1> USE DEF IInv
<1>1. TypeOK'
  BY Positive, ConfigAssumption DEF Submit, Goto, TypeOK, Labels, Busy, Over, Holding, InRun, HookPoints
<1>2. SlotAccounting'
  <2>1. "acquire" \in Busy \ Holding /\ "acquire" \in Labels
        /\ "idle" \notin Busy /\ "idle" \notin Holding
    BY DEF Labels, Busy, Holding, InRun, HookPoints
  <2>2. pc[j] = "idle" /\ pc' = [pc EXCEPT ![j] = "acquire"]
    BY DEF Submit, Goto
  <2>3. Cardinality(Holders') = sem /\ Cardinality(InFlight') = wg + 1
    BY <2>1, <2>2, Counters
  <2>4. QED
    BY <2>3 DEF Submit, SlotAccounting
<1>3. LoopInv'
  BY JobData DEF Submit, Goto, TypeOK, LoopInv, Succeeded, Stages
<1>4. EmitInv'
  BY DEF Submit, Goto, TypeOK, EmitInv
<1>5. QED
  BY <1>1, <1>2, <1>3, <1>4

LEMMA AcquireStep ==
  ASSUME IInv, NEW j \in Jobs, Acquire(j)
  PROVE  IInv'
<1> USE DEF IInv
<1>1. TypeOK'
  BY Positive, ConfigAssumption DEF Acquire, Goto, TypeOK, Labels, Busy, Over, Holding, InRun, HookPoints
<1>2. SlotAccounting'
  BY Counters DEF Acquire, Goto, TypeOK, SlotAccounting, Labels, Busy, Over, Holding, InRun, HookPoints
<1>3. LoopInv'
  BY JobData DEF Acquire, Goto, TypeOK, LoopInv, Succeeded, Stages
<1>4. EmitInv'
  BY DEF Acquire, Goto, TypeOK, EmitInv
<1>5. QED
  BY <1>1, <1>2, <1>3, <1>4

LEMMA RejectStep ==
  ASSUME IInv, NEW j \in Jobs, Reject(j)
  PROVE  IInv'
<1> USE DEF IInv
<1>1. TypeOK'
  BY Positive, ConfigAssumption DEF Reject, CountDown, Goto, TypeOK, Labels, Busy, Over, Holding, InRun, HookPoints
<1>2. SlotAccounting'
  <2>1. /\ pc[j] = "acquire" /\ pc' = [pc EXCEPT ![j] = "rejected"]
        /\ sem' = sem /\ wg' = wg - 1
    BY DEF Reject, CountDown, Goto
  <2>2. "acquire" \in Busy \ Holding /\ "rejected" \in Labels \ (Busy \cup Holding)
    BY DEF Labels, Busy, Over, Holding, InRun, HookPoints
  <2>3. Cardinality(Holders') = sem /\ Cardinality(InFlight') = wg - 1
    BY <2>1, <2>2, Counters
  <2>4. QED
    BY <2>1, <2>3 DEF SlotAccounting
<1>3. LoopInv'
  BY JobData DEF Reject, Goto, TypeOK, LoopInv, Succeeded, Stages
<1>4. EmitInv'
  BY DEF Reject, Goto, TypeOK, EmitInv
<1>5. QED
  BY <1>1, <1>2, <1>3, <1>4

LEMMA BeginStep ==
  ASSUME IInv, NEW j \in Jobs, Begin(j)
  PROVE  IInv'
<1> USE DEF IInv
<1>1. TypeOK'
  BY Positive, ConfigAssumption DEF Begin, Goto, TypeOK, Labels, Busy, Over, Holding, InRun, HookPoints
<1>2. SlotAccounting'
  BY Counters DEF Begin, Goto, TypeOK, SlotAccounting, Labels, Busy, Over, Holding, InRun, HookPoints
<1>3. LoopInv'
  BY JobData DEF Begin, Goto, TypeOK, LoopInv, Succeeded, Stages
<1>4. EmitInv'
  BY DEF Begin, Goto, TypeOK, EmitInv
<1>5. QED
  BY <1>1, <1>2, <1>3, <1>4

LEMMA HookReturnStep ==
  ASSUME IInv, NEW j \in Jobs, HookReturn(j)
  PROVE  IInv'
<1> USE DEF IInv
<1> DEFINE b == AfterHook(pc[j])
<1>1. /\ pc[j] = "pipelineStarted" => b = "stepStarted"
      /\ pc[j] = "stepStarted" => b = "execute"
      /\ pc[j] \in {"stepCompleted", "pipelineCompleted"} => b = "emit"
      /\ pc[j] = "stepFailed" => b = "pipelineFailed"
      /\ pc[j] = "pipelineFailed" => b = "release"
  BY DEF AfterHook
<1>2. /\ pc[j] \in HookPoints
      /\ pc' = [pc EXCEPT ![j] = b]
      /\ UNCHANGED <<step, sent, expired, sem, wg, sink, cancelled, waiter, fired, passed>>
  BY DEF HookReturn, Goto
<1> HIDE DEF b
<1>3. b \in {"stepStarted", "execute", "emit", "pipelineFailed", "release"}
  BY <1>1, <1>2 DEF HookPoints
<1>4. TypeOK'
  BY <1>2, <1>3 DEF TypeOK, Labels, Busy, Holding, InRun, HookPoints
<1>5. SlotAccounting'
  BY <1>2, <1>3, Counters DEF TypeOK, SlotAccounting, Labels, Busy, Holding, InRun, HookPoints
<1>6. LoopInv'
  <2>1. /\ \A i \in Jobs \ {j} : pc'[i] = pc[i]
        /\ pc'[j] = b /\ step' = step /\ passed' = passed
    BY <1>2 DEF TypeOK
  <2>2. StepCount(j) \in Nat \ {0} /\ step[j] \in Nat
    BY JobData DEF TypeOK
  <2>3. /\ b = "emit" => step[j] \in Stages(j)
        /\ b \in {"stepStarted", "execute", "pipelineFailed"} => step[j] \in 1..StepCount(j)
        /\ b = "release" => step[j] \in 1..StepCount(j)
    BY <1>1, <1>2, <2>2 DEF LoopInv, Stages, HookPoints
  <2>4. passed[j] = IF step[j] > StepCount(j) THEN StepCount(j)
                    ELSE IF b = "emit" THEN step[j] ELSE step[j] - 1
    <3>1. step[j] > StepCount(j) \/ (pc[j] = "stepCompleted" <=> b = "emit")
      BY <1>1, <1>2, <2>2 DEF LoopInv, HookPoints
    <3>2. pc[j] # "emit"
      BY <1>2 DEF HookPoints
    <3>3. QED
      BY <3>1, <3>2 DEF LoopInv
  <2>5. QED
    BY <1>3, <2>1, <2>3, <2>4 DEF LoopInv, Succeeded
<1>7. EmitInv'
  <2>1. pc[j] # "emit" /\ sent[j] = 0
    BY <1>2 DEF EmitInv, HookPoints
  <2>2. b = "emit" => step[j] \in Stages(j)
    BY <1>1, <1>2, JobData DEF LoopInv, Stages, HookPoints
  <2>3. b = "emit" => Len(Emits(j, step[j])) \in Nat
    BY <2>2, JobData
  <2>4. QED
    BY <1>2, <2>1, <2>3 DEF TypeOK, EmitInv
<1>8. QED
  BY <1>4, <1>5, <1>6, <1>7

LEMMA ExecStartStep ==
  ASSUME IInv, NEW j \in Jobs, ExecStart(j)
  PROVE  IInv'
<1> USE DEF IInv
<1>1. TypeOK'
  BY Positive, ConfigAssumption DEF ExecStart, Goto, TypeOK, Labels, Busy, Over, Holding, InRun, HookPoints
<1>2. SlotAccounting'
  BY Counters DEF ExecStart, Goto, TypeOK, SlotAccounting, Labels, Busy, Over, Holding, InRun, HookPoints
<1>3. LoopInv'
  BY JobData DEF ExecStart, Goto, TypeOK, LoopInv, Succeeded, Stages
<1>4. EmitInv'
  BY DEF ExecStart, Goto, TypeOK, EmitInv
<1>5. QED
  BY <1>1, <1>2, <1>3, <1>4

LEMMA ExecEndStep ==
  ASSUME IInv, NEW j \in Jobs, ExecEnd(j)
  PROVE  IInv'
<1> USE DEF IInv
<1>1. TypeOK'
  <2>1. pc' \in [Jobs -> Labels]
    BY DEF ExecEnd, Goto, TypeOK, Labels, Busy, Holding, InRun, HookPoints
  <2>2. passed' \in [Jobs -> Nat]
    <3>1. passed' = passed \/ passed' = [passed EXCEPT ![j] = passed[j] + 1]
      BY DEF ExecEnd
    <3>2. passed[j] + 1 \in Nat
      BY DEF TypeOK
    <3>3. QED
      BY <3>1, <3>2 DEF TypeOK
  <2>3. QED
    BY <2>1, <2>2 DEF ExecEnd, TypeOK
<1>2. SlotAccounting'
  BY Counters DEF ExecEnd, Goto, TypeOK, SlotAccounting, Labels, Busy, Over, Holding, InRun, HookPoints
<1>3. LoopInv'
  <2>1. /\ pc[j] = "running" /\ step' = step
        /\ \A i \in Jobs \ {j} : pc'[i] = pc[i] /\ passed'[i] = passed[i]
        /\ \/ pc'[j] = "stepCompleted" /\ passed'[j] = passed[j] + 1
           \/ pc'[j] = "stepFailed" /\ passed'[j] = passed[j]
    BY DEF ExecEnd, Goto, TypeOK
  <2>2. StepCount(j) \in Nat /\ step[j] \in 1..StepCount(j)
    BY <2>1, JobData DEF LoopInv
  <2>3. ~(step[j] > StepCount(j)) /\ passed[j] = step[j] - 1 /\ passed[j] + 1 = step[j]
    BY <2>1, <2>2 DEF LoopInv
  <2>4. QED
    BY <2>1, <2>2, <2>3 DEF LoopInv, Succeeded
<1>4. EmitInv'
  BY DEF ExecEnd, Goto, TypeOK, EmitInv
<1>5. QED
  BY <1>1, <1>2, <1>3, <1>4

LEMMA ReleaseStep ==
  ASSUME IInv, NEW j \in Jobs, Release(j)
  PROVE  IInv'
<1> USE DEF IInv
<1>1. TypeOK'
  BY Positive, ConfigAssumption DEF Release, Goto, TypeOK, Labels, Busy, Over, Holding, InRun, HookPoints
<1>2. SlotAccounting'
  BY Counters DEF Release, Goto, TypeOK, SlotAccounting, Labels, Busy, Over, Holding, InRun, HookPoints
<1>3. LoopInv'
  BY JobData DEF Release, Goto, TypeOK, LoopInv, Succeeded, Stages
<1>4. EmitInv'
  BY DEF Release, Goto, TypeOK, EmitInv
<1>5. QED
  BY <1>1, <1>2, <1>3, <1>4

LEMMA WgDoneStep ==
  ASSUME IInv, NEW j \in Jobs, WgDone(j)
  PROVE  IInv'
<1> USE DEF IInv
<1>1. TypeOK'
  BY Positive, ConfigAssumption DEF WgDone, CountDown, Goto, TypeOK, Labels, Busy, Over, Holding, InRun, HookPoints
<1>2. SlotAccounting'
  <2>1. /\ pc[j] = "wgDone" /\ pc' = [pc EXCEPT ![j] = "done"]
        /\ sem' = sem /\ wg' = wg - 1
    BY DEF WgDone, CountDown, Goto
  <2>2. "wgDone" \in Busy \ Holding /\ "done" \in Labels \ (Busy \cup Holding)
    BY DEF Labels, Busy, Over, Holding, InRun, HookPoints
  <2>3. Cardinality(Holders') = sem /\ Cardinality(InFlight') = wg - 1
    BY <2>1, <2>2, Counters
  <2>4. QED
    BY <2>1, <2>3 DEF SlotAccounting
<1>3. LoopInv'
  BY JobData DEF WgDone, Goto, TypeOK, LoopInv, Succeeded, Stages
<1>4. EmitInv'
  BY DEF WgDone, Goto, TypeOK, EmitInv
<1>5. QED
  BY <1>1, <1>2, <1>3, <1>4

LEMMA ExpireStep ==
  ASSUME IInv, NEW j \in Jobs, Expire(j)
  PROVE  IInv'
<1> USE DEF IInv
<1>1. TypeOK'
  BY DEF Expire, TypeOK
<1>2. SlotAccounting'
  BY DEF Expire, SlotAccounting, Holders, InFlight
<1>3. LoopInv'
  BY DEF Expire, LoopInv, Succeeded
<1>4. EmitInv'
  BY DEF Expire, EmitInv
<1>5. QED
  BY <1>1, <1>2, <1>3, <1>4

LEMMA EmitSendStep ==
  ASSUME IInv, NEW j \in Jobs, EmitSend(j)
  PROVE  IInv'
<1> USE DEF IInv
<1> DEFINE e == [source |-> PipelineOf[j], pipeline |-> Emits(j, step[j])[sent[j] + 1]]
<1>1. /\ step[j] \in Stages(j)
      /\ Emits(j, step[j]) \in Seq(Targets)
      /\ Len(Emits(j, step[j])) \in Nat
  BY JobData DEF EmitSend, LoopInv
<1>2. e \in [source : Pipelines, pipeline : Targets]
  BY <1>1, JobData DEF EmitSend, TypeOK
<1>3. sink' = Append(sink, e) /\ Len(sink) < SinkCap
  BY DEF EmitSend
<1>4. TypeOK'
  <2>1. /\ sink' \in Seq([source : Pipelines, pipeline : Targets])
        /\ Len(sink') <= SinkCap
    <3> HIDE DEF e
    <3>1. QED
      BY <1>2, <1>3, ConfigAssumption DEF TypeOK
  <2>2. DOMAIN fired' = Jobs /\ \A i \in Jobs : fired'[i] \in [Stages(i) -> Nat]
    <3>1. fired' = [fired EXCEPT ![j][step[j]] = @ + 1]
      BY DEF EmitSend
    <3>2. fired[j] \in [Stages(j) -> Nat] /\ fired[j][step[j]] + 1 \in Nat
      BY <1>1 DEF TypeOK
    <3>3. [fired[j] EXCEPT ![step[j]] = @ + 1] \in [Stages(j) -> Nat]
      BY <3>2
    <3>4. /\ DOMAIN fired' = Jobs
          /\ fired'[j] = [fired[j] EXCEPT ![step[j]] = @ + 1]
          /\ \A i \in Jobs \ {j} : fired'[i] = fired[i]
      BY <3>1 DEF TypeOK
    <3>5. QED
      BY <3>3, <3>4 DEF TypeOK
  <2>3. sent' \in [Jobs -> Nat]
    BY DEF EmitSend, TypeOK
  <2>4. QED
    BY <2>1, <2>2, <2>3 DEF EmitSend, TypeOK
<1>5. SlotAccounting'
  BY DEF EmitSend, SlotAccounting, Holders, InFlight
<1>6. LoopInv'
  BY DEF EmitSend, LoopInv, Succeeded
<1>7. EmitInv'
  <2>1. /\ pc[j] = "emit" /\ sent[j] < Len(Emits(j, step[j]))
        /\ pc' = pc /\ step' = step
        /\ sent' = [sent EXCEPT ![j] = @ + 1]
        /\ fired' = [fired EXCEPT ![j][step[j]] = @ + 1]
    BY DEF EmitSend
  <2>2. sent'[j] = sent[j] + 1 /\ sent[j] \in Nat /\ step[j] \in Nat
    BY <2>1 DEF TypeOK
  <2>3. \A s \in Stages(j) :
          fired'[j][s] = IF s = step[j] THEN fired[j][s] + 1 ELSE fired[j][s]
    BY <1>1, <2>1 DEF TypeOK
  <2>4. \A i \in Jobs \ {j} : sent'[i] = sent[i] /\ fired'[i] = fired[i]
    BY <2>1 DEF TypeOK
  <2>5. /\ sent'[j] <= Len(Emits(j, step[j]))
        /\ \A s \in Stages(j) :
             fired'[j][s] = IF s < step[j] THEN Len(Emits(j, s))
                            ELSE IF s = step[j] THEN sent'[j] ELSE 0
    <3>1. sent'[j] <= Len(Emits(j, step[j]))
      BY <1>1, <2>1, <2>2
    <3>2. ASSUME NEW s \in Stages(j)
          PROVE  fired[j][s] = IF s < step[j] THEN Len(Emits(j, s))
                               ELSE IF s = step[j] THEN sent[j] ELSE 0
      BY <3>2 DEF EmitInv
    <3>3. ~(step[j] < step[j])
      BY <2>2
    <3>4. QED
      BY <2>2, <2>3, <3>1, <3>2, <3>3
  <2>6. QED
    BY <2>1, <2>4, <2>5 DEF EmitInv
<1>8. QED
  BY <1>4, <1>5, <1>6, <1>7

LEMMA EmitDoneStep ==
  ASSUME IInv, NEW j \in Jobs, EmitDone(j)
  PROVE  IInv'
<1> USE DEF IInv
<1>1. /\ step[j] \in Stages(j)
      /\ StepCount(j) \in Nat \ {0}
      /\ sent[j] = Len(Emits(j, step[j]))
  BY JobData DEF EmitDone, LoopInv
<1>2. TypeOK'
  <2>1. pc' \in [Jobs -> Labels]
    BY DEF EmitDone, Goto, TypeOK, Labels, Busy, Holding, InRun, HookPoints
  <2>2. step' \in [Jobs -> Nat \ {0}] /\ sent' \in [Jobs -> Nat]
    BY DEF EmitDone, TypeOK
  <2>3. QED
    BY <2>1, <2>2 DEF EmitDone, TypeOK
<1>3. SlotAccounting'
  BY Counters DEF EmitDone, Goto, TypeOK, SlotAccounting, Labels, Busy, Holding, InRun, HookPoints
<1>4. LoopInv'
  <2>1. /\ step'[j] = step[j] + 1 /\ \A i \in Jobs \ {j} : step'[i] = step[i]
        /\ \A i \in Jobs \ {j} : pc'[i] = pc[i]
        /\ passed' = passed /\ pc[j] = "emit"
    BY DEF EmitDone, Goto, TypeOK
  <2>2. \/ step[j] < StepCount(j) /\ pc'[j] = "stepStarted"
        \/ step[j] = StepCount(j) /\ pc'[j] = "pipelineCompleted"
        \/ step[j] > StepCount(j) /\ pc'[j] = "release"
    BY DEF EmitDone, Goto, TypeOK
  <2>3. step[j] \in Nat \ {0} /\ step[j] <= StepCount(j) + 1
    BY <1>1 DEF Stages
  <2>4. \/ pc'[j] = "stepStarted" /\ step'[j] \in 1..StepCount(j)
        \/ pc'[j] = "pipelineCompleted" /\ step'[j] = StepCount(j) + 1
        \/ pc'[j] = "release" /\ step'[j] = StepCount(j) + 2
    BY <1>1, <2>1, <2>2, <2>3
  <2>5. passed[j] = IF step[j] > StepCount(j) THEN StepCount(j) ELSE step[j]
    BY <2>1 DEF LoopInv
  <2>6. passed'[j] = IF step'[j] > StepCount(j) THEN StepCount(j) ELSE step'[j] - 1
    BY <1>1, <2>1, <2>3, <2>5
  <2>7. QED
    BY <2>1, <2>4, <2>6 DEF LoopInv, Succeeded
<1>5. EmitInv'
  <2>1. /\ pc[j] = "emit" /\ step' = [step EXCEPT ![j] = step[j] + 1]
        /\ sent' = [sent EXCEPT ![j] = 0] /\ fired' = fired
        /\ \E b \in Labels \ {"emit"} : pc' = [pc EXCEPT ![j] = b]
    BY DEF EmitDone, Goto, Labels, Busy, Holding, InRun, HookPoints
  <2>2. ASSUME NEW i \in Jobs, i # j
        PROVE  pc'[i] = pc[i] /\ step'[i] = step[i] /\ sent'[i] = sent[i]
    BY <2>1, <2>2 DEF TypeOK
  <2>3. pc'[j] # "emit" /\ step'[j] = step[j] + 1 /\ sent'[j] = 0
    BY <2>1 DEF TypeOK
  <2>4. ASSUME NEW s \in Stages(j)
        PROVE  fired'[j][s] = IF s < step'[j] THEN Len(Emits(j, s)) ELSE 0
    <3>1. fired'[j][s] = IF s < step[j] THEN Len(Emits(j, s))
                         ELSE IF s = step[j] THEN sent[j] ELSE 0
      BY <2>1 DEF EmitInv
    <3>2. s \in Nat /\ step[j] \in Nat
      BY <1>1 DEF Stages
    <3>3. QED
      BY <1>1, <2>3, <3>1, <3>2
  <2>5. QED
    BY <2>1, <2>2, <2>3, <2>4 DEF EmitInv
<1>6. QED
  BY <1>2, <1>3, <1>4, <1>5

(* The caller's actions touch neither a job nor a counter *)
LEMMA CallerStep ==
  ASSUME IInv, WaitCall \/ WaitReturn \/ Exit \/ Drain \/ Cancel \/ UNCHANGED vars
  PROVE  IInv'
<1> USE DEF IInv
<1>1. UNCHANGED <<pc, step, sent, expired, sem, wg, fired, passed>>
  BY DEF WaitCall, WaitReturn, Exit, Drain, Cancel, vars
<1>2. /\ sink' \in Seq([source : Pipelines, pipeline : Targets])
      /\ Len(sink') <= SinkCap
  <2>1. CASE sink' = sink
    BY <2>1 DEF TypeOK
  <2>2. CASE sink # <<>> /\ sink' = Tail(sink)
    BY <2>2, ConfigAssumption DEF TypeOK
  <2>3. QED
    BY <2>1, <2>2 DEF WaitCall, WaitReturn, Exit, Drain, Cancel, vars
<1>3. cancelled' \in BOOLEAN /\ waiter' \in {"none", "parked", "woken", "returned", "panicked", "exited"}
  BY DEF WaitCall, WaitReturn, Exit, Drain, Cancel, vars, TypeOK
<1>4. TypeOK'
  BY <1>1, <1>2, <1>3 DEF TypeOK
<1>5. SlotAccounting'
  BY <1>1 DEF SlotAccounting, Holders, InFlight
<1>6. LoopInv'
  BY <1>1 DEF LoopInv, Succeeded
<1>7. EmitInv'
  BY <1>1 DEF EmitInv
<1>8. QED
  BY <1>4, <1>5, <1>6, <1>7

LEMMA NextIInv == IInv /\ [Next]_vars => IInv'
<1> SUFFICES ASSUME IInv, [Next]_vars PROVE IInv'
  OBVIOUS
<1>1. ASSUME NEW j \in Jobs, JobNext(j)
      PROVE  IInv'
  BY <1>1, SubmitStep, AcquireStep, RejectStep, BeginStep, ExpireStep, HookReturnStep,
     ExecStartStep, ExecEndStep, EmitSendStep, EmitDoneStep, ReleaseStep, WgDoneStep
     DEF JobNext, Worker
<1>2. CASE WaitCall \/ WaitReturn \/ Exit \/ Drain \/ Cancel \/ Terminated \/ UNCHANGED vars
  BY <1>2, CallerStep DEF Terminated
<1>3. QED
  BY <1>1, <1>2 DEF Next

-------------------------------------------------------------------------------
(* The theorems *)

\* The inductive invariant holds in every reachable state.
THEOREM Inductive == Spec => []IInv
<1>1. IInv /\ [Next]_vars => IInv'
  BY NextIInv
<1>2. QED
  BY InitIInv, <1>1, PTL DEF Spec

\* Type correctness of the pool (Pool.Submit, Pool.run, Pool.Wait).
THEOREM Typing == Spec => []TypeOK
<1>1. IInv => TypeOK
  BY DEF IInv
<1>2. QED
  BY <1>1, Inductive, PTL

\* The tokens in sem and the WaitGroup's counter are exact: no path through
\* Submit and its goroutine leaks or returns twice a slot or a count.
THEOREM Accounting == Spec => []SlotAccounting
<1>1. IInv => SlotAccounting
  BY DEF IInv
<1>2. QED
  BY <1>1, Inductive, PTL

\* Whatever max_concurrent is, no more than that many pipelines hold a slot.
THEOREM SlotLimit == Spec => []ConcurrencyLimit
<1>1. IInv => ConcurrencyLimit
  BY ConfigAssumption DEF IInv, TypeOK, SlotAccounting, ConcurrencyLimit
<1>2. QED
  BY <1>1, Inductive, PTL

\* A run that is over has sent the events of its completed stages, each
\* once, and no other (Pool.run, Pool.emitEvents).
THEOREM Events == Spec => []EventsMatchOutcome
<1>1. IInv => EventsMatchOutcome
  <2> SUFFICES ASSUME IInv, NEW j \in Jobs, pc[j] \in {"release", "wgDone", "done"},
                      NEW s \in Stages(j)
               PROVE  fired[j][s] = IF s <= passed[j] \/ passed[j] = StepCount(j)
                                    THEN Len(Emits(j, s)) ELSE 0
    BY DEF EventsMatchOutcome
  <2>1. sent[j] = 0 /\ (Succeeded(j) \/ step[j] \in 1..StepCount(j))
    BY DEF IInv, EmitInv, LoopInv
  <2>2. fired[j][s] = IF s < step[j] THEN Len(Emits(j, s)) ELSE 0
    BY <2>1 DEF IInv, EmitInv
  <2>3. passed[j] = IF Succeeded(j) THEN StepCount(j) ELSE step[j] - 1
    BY <2>1, JobData DEF IInv, LoopInv, Succeeded
  <2>4. s < step[j] <=> s <= passed[j] \/ passed[j] = StepCount(j)
    BY <2>1, <2>3, JobData DEF Succeeded, Stages
  <2>5. QED
    BY <2>2, <2>4
<1>2. QED
  BY <1>1, Inductive, PTL

\* Pool.Wait returns, whether at once, or woken by the last Done with or
\* without a Submit in between, only when no call of Submit and no goroutine is
\* left: the panic of WaitGroup.Wait is the one other way out of it.
THEOREM WaitIsABarrier == Spec => WaitOnlyWhenQuiet
<1>1. IInv /\ [Next]_vars =>
        [waiter # "returned" /\ waiter' = "returned" => InFlight = {}]_vars
  <2> SUFFICES ASSUME IInv, [Next]_vars, waiter # "returned", waiter' = "returned"
               PROVE  InFlight = {}
    OBVIOUS
  <2>1. ASSUME NEW j \in Jobs, JobNext(j)
        PROVE  FALSE
    BY <2>1 DEF JobNext, Worker, Submit, Acquire, Reject, CountDown, Begin, Expire,
           HookReturn, ExecStart, ExecEnd, EmitSend, EmitDone, Release, WgDone
  <2>2. wg = 0
    BY <2>1 DEF Next, WaitCall, WaitReturn, Exit, Drain, Cancel, Terminated, vars
  <2>3. Cardinality(InFlight) = 0 /\ IsFiniteSet(InFlight)
    BY <2>2, JobsAssumption, FS_Subset DEF IInv, SlotAccounting, InFlight
  <2>4. QED
    BY <2>3, FS_EmptySet
<1>2. QED
  BY <1>1, Inductive, PTL DEF Spec, WaitOnlyWhenQuiet

-------------------------------------------------------------------------------
(* A cancelled context *)

\* What job j is once its context was cancelled before its first command: it
\* can only fail in Submit's select or at Start, and then unwind.
Doomed(j) ==
  /\ cancelled
  /\ step[j] = 1
  /\ pc[j] \in {"idle", "acquire", "rejected", "spawned", "pipelineStarted",
                "stepStarted", "execute", "stepFailed", "pipelineFailed",
                "release", "wgDone", "done"}

LEMMA DoomedStays ==
  ASSUME IInv, [Next]_vars, NEW j \in Jobs, Doomed(j)
  PROVE  Doomed(j)'
<1> USE DEF Doomed
<1>1. pc \in [Jobs -> Labels] /\ step \in [Jobs -> Nat \ {0}] /\ cancelled
  BY DEF IInv, TypeOK
<1>2. ASSUME NEW i \in Jobs, JobNext(i), i # j
      PROVE  pc'[j] = pc[j] /\ step'[j] = step[j] /\ cancelled'
  BY <1>1, <1>2 DEF JobNext, Worker, Submit, Acquire, Reject, Begin, Expire, HookReturn,
         ExecStart, ExecEnd, EmitSend, EmitDone, Release, WgDone, Goto
<1>3. CASE JobNext(j)
  <2>1. CASE HookReturn(j)
    <3>1. pc[j] \in {"pipelineStarted", "stepStarted", "stepFailed", "pipelineFailed"}
      BY <2>1 DEF HookReturn, HookPoints
    <3>2. AfterHook(pc[j]) \in {"stepStarted", "execute", "pipelineFailed", "release"}
      BY <3>1 DEF AfterHook
    <3>3. QED
      BY <1>1, <2>1, <3>2 DEF HookReturn, Goto
  <2>2. CASE ExecStart(j)
    BY <1>1, <2>2 DEF ExecStart, Goto, CtxDone
  <2>3. CASE ~HookReturn(j) /\ ~ExecStart(j)
    BY <1>1, <1>3, <2>3 DEF JobNext, Worker, Submit, Acquire, Reject, Begin, Expire,
           ExecEnd, EmitSend, EmitDone, Release, WgDone, Goto
  <2>4. QED
    BY <2>1, <2>2, <2>3
<1>4. CASE WaitCall \/ WaitReturn \/ Exit \/ Drain \/ Cancel \/ Terminated \/ UNCHANGED vars
  BY <1>4 DEF WaitCall, WaitReturn, Exit, Drain, Cancel, Terminated, vars
<1>5. QED
  BY <1>2, <1>3, <1>4 DEF Next

LEMMA DoomedIsSilent ==
  ASSUME IInv, NEW j \in Jobs, Doomed(j)
  PROVE  ~Succeeded(j) /\ \A s \in Stages(j) : fired[j][s] = 0
<1>1. step[j] = 1 /\ sent[j] = 0
  BY DEF Doomed, IInv, EmitInv
<1>2. ASSUME NEW s \in Stages(j)
      PROVE  fired[j][s] = 0
  BY <1>1, JobData DEF IInv, EmitInv, Stages
<1>3. QED
  BY <1>1, <1>2, JobData DEF Succeeded

\* A pipeline whose context is done before its first command starts runs no
\* command to success and fires no event, even when Submit's select gave it a
\* slot after the cancellation (Pool.Submit, Step.Execute).
THEOREM NothingAfterCancel == Spec => CancelledJobsDoNothing
<1>1. ASSUME NEW j \in Jobs
      PROVE  Spec => [](cancelled /\ pc[j] \in {"idle", "acquire", "spawned"}
                        => [](~Succeeded(j) /\ \A s \in Stages(j) : fired[j][s] = 0))
  <2>1. IInv /\ cancelled /\ pc[j] \in {"idle", "acquire", "spawned"} => Doomed(j)
    BY DEF IInv, LoopInv, Doomed
  <2>2. IInv /\ Doomed(j) /\ [Next]_vars => Doomed(j)'
    BY DoomedStays
  <2>3. IInv /\ Doomed(j) => ~Succeeded(j) /\ \A s \in Stages(j) : fired[j][s] = 0
    BY DoomedIsSilent
  <2>4. QED
    BY <2>1, <2>2, <2>3, Inductive, PTL DEF Spec
<1>2. QED
  BY <1>1 DEF CancelledJobsDoNothing

-------------------------------------------------------------------------------
(* Refinement: the pool implements the abstract executor *)

\* Where no phase and no progress moves, nor does the abstract state.
LEMMA SameAbstraction ==
  ASSUME \A i \in Jobs : Phase(i)' = Phase(i), passed' = passed, cancelled' = cancelled
  PROVE  UNCHANGED Exec!vars
BY DEF Exec!vars

\* A step of j's goroutine leaves the phase of the others where it is.
LEMMA OthersKeep ==
  ASSUME TypeOK, NEW j \in Jobs, JobNext(j), NEW i \in Jobs, i # j
  PROVE  Phase(i)' = Phase(i)
<1>1. pc'[i] = pc[i] /\ step'[i] = step[i]
  BY DEF JobNext, Worker, Submit, Acquire, Reject, Begin, Expire, HookReturn,
         ExecStart, ExecEnd, EmitSend, EmitDone, Release, WgDone, Goto, TypeOK
<1>2. QED
  BY <1>1 DEF Phase, Succeeded

\* The abstract phases after a step in which only job j moves.
LEMMA MovePhase ==
  ASSUME NEW j \in Jobs, \A i \in Jobs : i # j => Phase(i)' = Phase(i)
  PROVE  [i \in Jobs |-> Phase(i)]' =
           [[i \in Jobs |-> Phase(i)] EXCEPT ![j] = Phase(j)']
OBVIOUS

\* The jobs that run in the abstract executor are those that hold a slot.
LEMMA AbstractRunning ==
  ASSUME TypeOK
  PROVE  Exec!Running = Holders
<1>1. ASSUME NEW i \in Jobs
      PROVE  Phase(i) = "running" <=> pc[i] \in Holding
  BY DEF TypeOK, Phase, Labels, Busy, Over, Holding, InRun, HookPoints
<1>2. QED
  BY <1>1 DEF Exec!Running, Holders

\* The steps of a job that the executor does not see.
LEMMA InvisibleStep ==
  ASSUME IInv, NEW j \in Jobs,
         \/ Begin(j) \/ Expire(j) \/ HookReturn(j) \/ ExecStart(j)
         \/ EmitSend(j) \/ EmitDone(j) \/ WgDone(j)
         \/ ExecEnd(j) /\ pc'[j] # "stepCompleted"
  PROVE  UNCHANGED Exec!vars
<1> USE DEF IInv
<1>1. JobNext(j) /\ cancelled' = cancelled
  BY DEF JobNext, Worker, Begin, Expire, HookReturn, ExecStart, EmitSend, EmitDone,
         WgDone, ExecEnd
<1>2. Phase(j)' = Phase(j)
  <2>1. CASE Begin(j) \/ ExecStart(j) \/ ExecEnd(j)
    BY <2>1 DEF Begin, ExecStart, ExecEnd, Goto, TypeOK, Phase, Holding, InRun, HookPoints
  <2>2. CASE Expire(j) \/ EmitSend(j)
    BY <2>2 DEF Expire, EmitSend, Phase, Succeeded
  <2>3. CASE HookReturn(j)
    <3>1. pc[j] \in HookPoints /\ pc' = [pc EXCEPT ![j] = AfterHook(pc[j])]
      BY <2>3 DEF HookReturn, Goto
    <3>2. AfterHook(pc[j]) \in Holding
      BY <3>1 DEF AfterHook, Holding, InRun, HookPoints
    <3>3. pc[j] \in Holding /\ pc'[j] \in Holding
      BY <3>1, <3>2 DEF TypeOK, Holding, InRun
    <3>4. QED
      BY <3>3 DEF Phase, Holding, InRun, HookPoints
  <2>4. CASE EmitDone(j)
    BY <2>4 DEF EmitDone, Goto, TypeOK, Phase, Holding, InRun, HookPoints
  <2>5. CASE WgDone(j)
    BY <2>5 DEF WgDone, Goto, TypeOK, Phase, Holding, InRun, HookPoints, Succeeded
  <2>6. QED
    BY <2>1, <2>2, <2>3, <2>4, <2>5
<1>3. passed' = passed
  BY DEF Begin, Expire, HookReturn, ExecStart, EmitSend, EmitDone, WgDone, ExecEnd,
         Goto, TypeOK
<1>4. \A i \in Jobs : Phase(i)' = Phase(i)
  BY <1>1, <1>2, OthersKeep
<1>5. QED
  BY <1>1, <1>3, <1>4, SameAbstraction

\* Each step the executor sees is one of its actions.
LEMMA VisibleStep ==
  ASSUME IInv, NEW j \in Jobs,
         \/ Submit(j) \/ Acquire(j) \/ Reject(j) \/ Release(j)
         \/ ExecEnd(j) /\ pc'[j] = "stepCompleted"
  PROVE  \/ Exec!Enqueue(j) \/ Exec!Start(j) \/ Exec!Refuse(j)
         \/ Exec!FinishStep(j) \/ Exec!Succeed(j) \/ Exec!Fail(j)
<1> USE JobData DEF IInv
<1>1. JobNext(j) /\ cancelled' = cancelled
  BY DEF JobNext, Worker, Submit, Acquire, Reject, Release, ExecEnd
<1>2. \A i \in Jobs : i # j => Phase(i)' = Phase(i)
  BY <1>1, OthersKeep
<1>3. [i \in Jobs |-> Phase(i)]' = [[i \in Jobs |-> Phase(i)] EXCEPT ![j] = Phase(j)']
  BY <1>2, MovePhase
<1>4. CASE Submit(j)
  <2>1. pc[j] = "idle" /\ pc'[j] = "acquire" /\ passed' = passed
    BY <1>4 DEF Submit, Goto, TypeOK
  <2>2. Phase(j) = "new" /\ Phase(j)' = "queued"
    BY <2>1 DEF Phase, Holding, InRun, HookPoints
  <2>3. QED
    BY <1>1, <1>3, <2>1, <2>2 DEF Exec!Enqueue
<1>5. CASE Acquire(j)
  <2>1. pc[j] = "acquire" /\ pc'[j] = "spawned" /\ passed' = passed /\ sem < MaxConcurrent
    BY <1>5 DEF Acquire, Goto, TypeOK
  <2>2. Phase(j) = "queued" /\ Phase(j)' = "running"
    BY <2>1 DEF Phase, Holding, InRun, HookPoints
  <2>3. Exec!HasRoom
    <3>1. Cardinality(Exec!Running) < MaxConcurrent
      BY <2>1, AbstractRunning DEF SlotAccounting
    <3>2. Exec!Cardinality(Exec!Running) = Cardinality(Exec!Running)
      BY DEF Exec!Cardinality, Cardinality
    <3>3. QED
      BY <3>1, <3>2 DEF Exec!HasRoom
  <2>4. QED
    BY <1>1, <1>3, <2>1, <2>2, <2>3 DEF Exec!Start
<1>6. CASE Reject(j)
  <2>1. pc[j] = "acquire" /\ pc'[j] = "rejected" /\ passed' = passed /\ cancelled
    BY <1>6 DEF Reject, Goto, TypeOK
  <2>2. Phase(j) = "queued" /\ Phase(j)' = "refused"
    BY <2>1 DEF Phase, Holding, InRun, HookPoints
  <2>3. QED
    BY <1>1, <1>3, <2>1, <2>2 DEF Exec!Refuse
<1>7. CASE ExecEnd(j) /\ pc'[j] = "stepCompleted"
  <2>1. /\ pc[j] = "running" /\ pc'[j] = "stepCompleted"
        /\ passed' = [passed EXCEPT ![j] = passed[j] + 1]
    BY <1>7 DEF ExecEnd, Goto, TypeOK
  <2>2. Phase(j) = "running" /\ Phase(j)' = Phase(j)
    BY <2>1 DEF Phase, Holding, InRun, HookPoints
  <2>3. passed[j] < StepCount(j)
    BY <2>1 DEF LoopInv
  <2>4. QED
    BY <1>1, <1>3, <2>1, <2>2, <2>3 DEF Exec!FinishStep
<1>8. CASE Release(j)
  <2>1. /\ pc[j] = "release" /\ pc'[j] = "wgDone"
        /\ step'[j] = step[j] /\ passed' = passed
    BY <1>8 DEF Release, Goto, TypeOK
  <2>2. /\ Phase(j) = "running"
        /\ Phase(j)' = IF Succeeded(j) THEN "succeeded" ELSE "failed"
    BY <2>1 DEF Phase, Succeeded, Holding, InRun, HookPoints
  <2>3. IF Succeeded(j) THEN passed[j] = StepCount(j) ELSE passed[j] < StepCount(j)
    BY <2>1 DEF LoopInv, Succeeded
  <2>4. QED
    BY <1>1, <1>3, <2>1, <2>2, <2>3 DEF Exec!Succeed, Exec!Fail
<1>9. QED
  BY <1>4, <1>5, <1>6, <1>7, <1>8

\* Pool.Submit, Pool.run and its deferred calls implement the abstract
\* executor, whatever the definitions and the capacities.
THEOREM Refinement == Spec => ImplementsExecutor
<1>1. Init => Exec!Init
  <2> SUFFICES ASSUME Init PROVE Exec!Init
    OBVIOUS
  <2>1. ASSUME NEW i \in Jobs
        PROVE  Phase(i) = "new"
    BY DEF Init, Phase, Holding, InRun, HookPoints
  <2>2. QED
    BY <2>1 DEF Init, Exec!Init
<1>2. IInv /\ [Next]_vars => [Exec!Next]_(Exec!vars)
  <2> SUFFICES ASSUME IInv, [Next]_vars PROVE [Exec!Next]_(Exec!vars)
    OBVIOUS
  <2>1. ASSUME NEW j \in Jobs, JobNext(j)
        PROVE  Exec!Next \/ UNCHANGED Exec!vars
    BY <2>1, VisibleStep, InvisibleStep DEF JobNext, Worker, Exec!Next
  <2>2. CASE Cancel
    <3>1. \A i \in Jobs : Phase(i)' = Phase(i)
      BY <2>2 DEF Cancel, Phase, Succeeded
    <3>2. Exec!Close
      BY <2>2, <3>1 DEF Cancel, Exec!Close
    <3>3. QED
      BY <3>2 DEF Exec!Next
  <2>3. CASE WaitCall \/ WaitReturn \/ Exit \/ Drain \/ Terminated \/ UNCHANGED vars
    <3>1. pc' = pc /\ step' = step /\ passed' = passed /\ cancelled' = cancelled
      BY <2>3 DEF WaitCall, WaitReturn, Exit, Drain, Terminated, vars
    <3>2. QED
      BY <3>1, SameAbstraction DEF Phase, Succeeded
  <2>4. QED
    BY <2>1, <2>2, <2>3 DEF Next
<1>3. QED
  BY <1>1, <1>2, Inductive, PTL DEF Spec, ImplementsExecutor, Exec!Spec

===============================================================================
