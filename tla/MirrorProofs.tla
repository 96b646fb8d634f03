------------------------------ MODULE MirrorProofs ------------------------------
(***************************************************************************)
(* The record of a run says what its execution did: theorems about the     *)
(* callbacks of registerRunTracking and the Run records they write, for    *)
(* any pipelines, triggers and reloads.                                    *)
(***************************************************************************)
EXTENDS TrackingProofs

\* Some dispatcher waits for the Submit of j to return.
Waiting(j) == \E l \in Loops : loop[l] = [at |-> "wait", job |-> j]

\* What the record of j should say of step k.
StepRecord(j, k) ==
  [name |-> IF StepStatusOf(j, k) = "pending" THEN "" ELSE Def[Name(j)].steps[k].name,
   status |-> StepStatusOf(j, k)]

\* The records are typed, and a callback that has not loaded a run has no
\* position in one.
RecordInv ==
  /\ DOMAIN runs = Jobs
  /\ \A j \in Jobs : runs[j] \in Run(StepCount(j), StepNames(j))
  /\ idx \in [Jobs -> Nat]
  /\ \A j \in Jobs : idx[j] \in 1..StepCount(j)
  /\ \A j \in Jobs : cb[j] = "load" => held[j] = j /\ idx[j] = 1

\* Two jobs of one name that are tracked at the same time are crowded.
CrowdInv ==
  \A i, j \in Jobs :
    Tracked(i) /\ Tracked(j) /\ Name(i) = Name(j) /\ i # j => i \in crowded

\* Until its last hook a job that was never crowded finds its own run.
OwnEntry ==
  \A j \in Jobs \ crowded : Tracked(j) /\ ~Ended(j) => j \in activeRuns[Name(j)]

\* Whoever waits for a slot has a dispatcher that waits for Submit.
WaitInv == \A j \in Jobs : pc[j] = "acquire" => Waiting(j)

\* The record of j at every point of its callbacks: the steps are those of
\* the worker's position until the hook's method has been applied, the status
\* as well, except that the last hook's method is applied before the entry of
\* activeRuns is deleted, and that a refused run is finished by its
\* dispatcher; and the scan of the steps stops at the step under way.
Mirrors(j) ==
  /\ \A k \in 1..StepCount(j) : runs[j].steps[k] = StepRecord(j, k)
  /\ cb[j] = "delete" =>
       /\ pc[j] \in LastHooks
       /\ runs[j].status = IF pc[j] = "pipelineFailed" THEN "failed" ELSE "completed"
  /\ cb[j] # "delete" /\ ~(pc[j] = "rejected" /\ Waiting(j)) =>
       runs[j].status = RunStatusOf(j)
  /\ cb[j] = "scan" => idx[j] <= step[j]
  /\ cb[j] = "apply" /\ pc[j] \in StepHooks => idx[j] = step[j]

MirrorInv == \A j \in Jobs \ crowded : Mirrors(j)

RecInv == RecordInv /\ CrowdInv /\ OwnEntry /\ WaitInv /\ MirrorInv

\* What the steps are proved from.
KnownMore == Known /\ RecInv

-------------------------------------------------------------------------------
(* The methods of Run *)

LEMMA StartIs ==
  ASSUME NEW n \in Nat, NEW names, NEW r \in Run(n, names)
  PROVE  Start(r) \in Run(n, names) /\ Start(r).status = "running" /\ Start(r).steps = r.steps
BY DEF Start, Run, Status

\* A method that writes one step leaves the rest of the record alone.
OneStep(r, u, n, names, i, s) ==
  /\ u \in Run(n, names) /\ u.status = r.status
  /\ u.steps[i] = s
  /\ \A k \in 1..n : k # i => u.steps[k] = r.steps[k]

LEMMA StatusIs ==
  ASSUME NEW n \in Nat, NEW names, NEW r \in Run(n, names), NEW i \in 1..n, NEW v \in Status
  PROVE  OneStep(r, [r EXCEPT !.steps[i].status = v], n, names, i,
                 [name |-> r.steps[i].name, status |-> v])
BY DEF OneStep, Run, StepResult

LEMMA StartStepIs ==
  ASSUME NEW n \in Nat, NEW names, NEW r \in Run(n, names), NEW i \in 1..n, NEW name \in names
  PROVE  OneStep(r, StartStep(r, i, name), n, names, i, [name |-> name, status |-> "running"])
<1> DEFINE named == [r EXCEPT !.steps[i].name = name]
<1>1. StartStep(r, i, name) = [named EXCEPT !.steps[i].status = "running"]
  BY DEF StartStep
<1>2. named \in Run(n, names)
  BY DEF Run, StepResult
<1>3. /\ named.status = r.status /\ named.steps[i].name = name
      /\ \A k \in 1..n : k # i => named.steps[k] = r.steps[k]
  BY DEF Run, StepResult
<1> HIDE DEF named
<1>4. "running" \in Status
  BY DEF Status
<1>5. OneStep(named, StartStep(r, i, name), n, names, i, [name |-> name, status |-> "running"])
  BY <1>1, <1>2, <1>3, <1>4, StatusIs
<1>6. QED
  BY <1>3, <1>5 DEF OneStep

LEMMA CompleteStepIs ==
  ASSUME NEW n \in Nat, NEW names, NEW r \in Run(n, names), NEW i \in 1..n
  PROVE  OneStep(r, CompleteStep(r, i), n, names, i, [name |-> r.steps[i].name, status |-> "completed"])
BY StatusIs DEF CompleteStep, Status

LEMMA FailStepIs ==
  ASSUME NEW n \in Nat, NEW names, NEW r \in Run(n, names), NEW i \in 1..n
  PROVE  OneStep(r, FailStep(r, i), n, names, i, [name |-> r.steps[i].name, status |-> "failed"])
BY StatusIs DEF FailStep, Status

LEMMA NewRunIs ==
  ASSUME NEW n \in Nat, NEW names
  PROVE  /\ NewRun(n) \in Run(n, names) /\ NewRun(n).status = "pending"
         /\ \A k \in 1..n : NewRun(n).steps[k] = [name |-> "", status |-> "pending"]
BY DEF NewRun, Run, Status, StepResult

-------------------------------------------------------------------------------
(* What does not move a record *)

LEMMA MirrorFrame ==
  ASSUME NEW j \in Jobs, Mirrors(j),
         runs'[j] = runs[j], pc'[j] = pc[j], step'[j] = step[j], cb'[j] = cb[j],
         idx'[j] = idx[j], pc[j] = "rejected" => (Waiting(j)' <=> Waiting(j))
  PROVE  Mirrors(j)'
<1>1. RunStatusOf(j)' = RunStatusOf(j)
  BY DEF RunStatusOf, Succeeded, StepCount
<1>2. ASSUME NEW k \in 1..StepCount(j)
      PROVE  StepRecord(j, k)' = StepRecord(j, k)
  BY DEF StepRecord, StepStatusOf, Name
<1>3. StepCount(j)' = StepCount(j)
  BY DEF StepCount
<1>4. QED
  BY <1>1, <1>2, <1>3 DEF Mirrors, StepCount

\* The worker moves on where the record needs no update.
LEMMA MirrorMove ==
  ASSUME NEW j \in Jobs, Mirrors(j), runs'[j] = runs[j], cb[j] = "load", cb'[j] = "load",
         pc[j] # "rejected",
         \/ RunStatusOf(j)' = RunStatusOf(j)
         \/ pc'[j] = "rejected" /\ Waiting(j)',
         \A k \in 1..StepCount(j) : StepStatusOf(j, k)' = StepStatusOf(j, k)
  PROVE  Mirrors(j)'
<1>1. ASSUME NEW k \in 1..StepCount(j)
      PROVE  StepRecord(j, k)' = StepRecord(j, k)
  BY DEF StepRecord, Name
<1>2. StepCount(j)' = StepCount(j)
  BY DEF StepCount
<1>3. runs[j].status = RunStatusOf(j)
  BY DEF Mirrors
<1>4. \A k \in 1..StepCount(j) : runs[j].steps[k] = StepRecord(j, k)
  BY DEF Mirrors
<1>5. QED
  BY <1>1, <1>2, <1>3, <1>4 DEF Mirrors

-------------------------------------------------------------------------------
(* The steps of the pool *)

\* Between two hooks the record of a job has nothing to learn.
LEMMA PoolMirrors ==
  ASSUME IInv, HeldInv, WaitInv, NEW j \in Jobs, Mirrors(j), PoolStep(j)
  PROVE  Mirrors(j)'
<1>0. UNCHANGED serverVars
  BY DEF PoolStep
<1>1. Waiting(j)' <=> Waiting(j)
  BY <1>0 DEF serverVars, Waiting
<1>2. runs' = runs /\ cb' = cb /\ idx' = idx
  BY <1>0 DEF serverVars
<1>3. CASE UNCHANGED <<pc, step>>
  BY <1>1, <1>2, <1>3, MirrorFrame
<1>4. ASSUME pc[j] \notin HookPoints \cup {"rejected"},
             \/ RunStatusOf(j)' = RunStatusOf(j)
             \/ pc'[j] = "rejected" /\ Waiting(j),
             \A k \in 1..StepCount(j) : StepStatusOf(j, k)' = StepStatusOf(j, k)
      PROVE  Mirrors(j)'
  <2>1. cb[j] = "load"
    BY <1>4 DEF HeldInv
  <2>2. QED
    BY <1>1, <1>2, <1>4, <2>1, MirrorMove
<1> DEFINE n == StepCount(j)
<1>5. n \in Nat \ {0} /\ step[j] \in Nat \ {0}
  BY JobData DEF IInv, TypeOK
<1> USE DEF HookPoints
<1>6. CASE Acquire(j) \/ Begin(j)
  <2>1. /\ step' = step
        /\ \/ pc[j] = "acquire" /\ pc'[j] = "spawned"
           \/ pc[j] = "spawned" /\ pc'[j] = "pipelineStarted"
    BY <1>6 DEF Acquire, Begin, Goto, IInv, TypeOK
  <2>2. QED
    BY <1>4, <2>1 DEF RunStatusOf, StepStatusOf
<1>7. CASE Reject(j)
  <2>1. step' = step /\ pc[j] = "acquire" /\ pc'[j] = "rejected"
    BY <1>7 DEF Reject, Goto, IInv, TypeOK
  <2>2. Waiting(j)
    BY <2>1 DEF WaitInv
  <2>3. QED
    BY <1>4, <2>1, <2>2 DEF StepStatusOf
<1>8. CASE ExecStart(j) \/ ExecEnd(j)
  <2>1. /\ step' = step
        /\ \/ pc[j] = "execute" /\ pc'[j] \in {"running", "stepFailed"}
           \/ pc[j] = "running" /\ pc'[j] \in {"stepCompleted", "stepFailed"}
    BY <1>8 DEF ExecStart, ExecEnd, Goto, IInv, TypeOK
  <2>2. QED
    BY <1>4, <2>1 DEF RunStatusOf, StepStatusOf
<1>9. CASE Release(j) \/ WgDone(j)
  <2>1. /\ step' = step
        /\ \/ pc[j] = "release" /\ pc'[j] = "wgDone"
           \/ pc[j] = "wgDone" /\ pc'[j] = "done"
    BY <1>9 DEF Release, WgDone, Goto, IInv, TypeOK
  <2>2. QED
    BY <1>4, <2>1 DEF RunStatusOf, StepStatusOf, Succeeded, StepCount
<1>10. CASE EmitDone(j)
  <2>1. /\ pc[j] = "emit" /\ step'[j] = step[j] + 1
        /\ \/ step[j] < n /\ pc'[j] = "stepStarted"
           \/ step[j] = n /\ pc'[j] = "pipelineCompleted"
           \/ step[j] > n /\ pc'[j] = "release"
    BY <1>10 DEF EmitDone, Goto, IInv, TypeOK
  <2>2. step[j] <= n + 1
    BY <2>1, <1>5 DEF IInv, LoopInv, Stages
  <2>3. RunStatusOf(j)' = RunStatusOf(j)
    BY <1>5, <2>1, <2>2 DEF RunStatusOf, Succeeded, StepCount
  <2>4. \A k \in 1..n : StepStatusOf(j, k)' = StepStatusOf(j, k)
    BY <1>5, <2>1, <2>2 DEF StepStatusOf
  <2>5. QED
    BY <1>4, <2>1, <2>3, <2>4
<1>11. CASE Expire(j) \/ EmitSend(j)
  BY <1>3, <1>11 DEF Expire, EmitSend
<1>12. QED
  BY <1>6, <1>7, <1>8, <1>9, <1>10, <1>11 DEF PoolStep

\* What is over for the tracking stays so, and nobody starts to wait for a slot.
LEMMA PoolEnds ==
  ASSUME IInv, NEW j \in Jobs, PoolStep(j)
  PROVE  \A i \in Jobs : /\ Ended(i) => Ended(i)'
                         /\ pc[i] \in Over => pc'[i] \in Over
                         /\ pc'[i] = "acquire" => pc[i] = "acquire"
<1> USE DEF IInv, TypeOK, Goto, Ended, Over, StepCount
<1>1. CASE Acquire(j) \/ Reject(j) \/ Begin(j) \/ Release(j) \/ WgDone(j)
  BY <1>1 DEF Acquire, Reject, Begin, Release, WgDone
<1>2. CASE Expire(j) \/ EmitSend(j)
  BY <1>2 DEF Expire, EmitSend
<1>3. CASE ExecStart(j) \/ ExecEnd(j)
  BY <1>3 DEF ExecStart, ExecEnd
<1>4. CASE EmitDone(j)
  BY <1>4 DEF EmitDone
<1>5. QED
  BY <1>1, <1>2, <1>3, <1>4 DEF PoolStep

LEMMA PoolStepRec ==
  ASSUME KnownMore, NEW j \in Jobs, PoolStep(j)
  PROVE  RecInv'
<1> USE DEF KnownMore, Known, TrackInv, RecInv
<1>0. UNCHANGED serverVars
  BY DEF PoolStep
<1>1. RecordInv'
  BY <1>0 DEF RecordInv, serverVars
<1>2. \A i \in Jobs : /\ Ended(i) => Ended(i)'
                      /\ pc[i] \in Over => pc'[i] \in Over
                      /\ pc'[i] = "acquire" => pc[i] = "acquire"
  BY PoolEnds
<1>3. \A i \in Jobs : Tracked(i)' => Tracked(i)
  BY <1>0, <1>2 DEF Tracked, serverVars
<1>4. CrowdInv'
  BY <1>0, <1>3 DEF CrowdInv, serverVars
<1>5. OwnEntry'
  BY <1>0, <1>2, <1>3 DEF OwnEntry, serverVars
<1>6. WaitInv'
  BY <1>0, <1>2 DEF WaitInv, Waiting, serverVars
<1>7. MirrorInv'
  <2>1. \A i \in Jobs \ {j} : pc'[i] = pc[i] /\ step'[i] = step[i]
    BY PoolMoves
  <2>2. ASSUME NEW i \in Jobs \ crowded'
        PROVE  Mirrors(i)'
    <3>1. Mirrors(i)
      BY <1>0 DEF MirrorInv, serverVars
    <3>2. CASE i = j
      BY <3>1, <3>2, PoolMirrors
    <3>3. CASE i # j
      <4>1. Waiting(i)' <=> Waiting(i)
        BY <1>0 DEF Waiting, serverVars
      <4>2. QED
        BY <1>0, <2>1, <3>1, <3>3, <4>1, MirrorFrame DEF serverVars
    <3>4. QED
      BY <3>2, <3>3
  <2>3. QED
    BY <2>2 DEF MirrorInv
<1>8. QED
  BY <1>1, <1>4, <1>5, <1>6, <1>7

-------------------------------------------------------------------------------
(* The steps of the dispatchers *)

\* A step that only moves dispatchers, none of them past Store or Submit.
LEMMA LoopRec ==
  ASSUME KnownMore, UNCHANGED <<pc, step, runs, activeRuns, cb, held, idx, crowded>>,
         \A i \in Jobs : Tracked(i)' => Tracked(i),
         \A i \in Jobs : Waiting(i)' <=> Waiting(i)
  PROVE  RecInv'
<1> USE DEF KnownMore, RecInv
<1>1. RecordInv'
  BY DEF RecordInv
<1>2. CrowdInv'
  BY DEF CrowdInv
<1>3. OwnEntry'
  BY DEF OwnEntry, Ended
<1>4. WaitInv'
  BY DEF WaitInv
<1>5. ASSUME NEW i \in Jobs \ crowded'
      PROVE  Mirrors(i)'
  BY MirrorFrame DEF MirrorInv
<1>6. MirrorInv'
  BY <1>5 DEF MirrorInv
<1>7. QED
  BY <1>1, <1>2, <1>3, <1>4, <1>6

LEMMA CreateRec ==
  ASSUME KnownMore, NEW l \in Loops, Create(l)
  PROVE  RecInv'
<1>1. /\ UNCHANGED <<pc, step, runs, activeRuns, cb, held, idx, crowded>>
      /\ loop[l].at = "create"
  BY DEF Create, vars
<1>2. PICK s : /\ loop' = [loop EXCEPT ![l] = s]
               /\ \/ s = AtRecv /\ created' = created
                  \/ \E j \in Jobs : s = [at |-> "track", job |-> j] /\ created' = created \cup {j}
  BY DEF Create
<1>3. /\ loop'[l] = s /\ \A m \in Loops \ {l} : loop'[m] = loop[m]
      /\ s.at # "wait"
  BY <1>2 DEF KnownMore, Known, LoopTypeOK, AtRecv
<1>4. \A i \in Jobs : Tracked(i)' => Tracked(i)
  BY <1>1, <1>2, <1>3 DEF Tracked
<1>5. \A i \in Jobs : Waiting(i)' <=> Waiting(i)
  BY <1>1, <1>3 DEF Waiting
<1>6. QED
  BY <1>1, <1>4, <1>5, LoopRec

LEMMA TrackRec ==
  ASSUME KnownMore, NEW l \in Loops, Track(l)
  PROVE  RecInv'
<1> USE DEF KnownMore, RecInv
<1>1. PICK j : j = loop[l].job
  OBVIOUS
<1>2. PICK others : others = {i \in Jobs : Tracked(i) /\ Name(i) = Name(j)}
  OBVIOUS
<1>3. /\ UNCHANGED <<pc, step, created, runs, cb, held, idx>>
      /\ loop[l].at = "track"
      /\ activeRuns' = [activeRuns EXCEPT ![Name(j)] = {j}]
      /\ crowded' = IF others = {} THEN crowded ELSE crowded \cup others \cup {j}
  BY <1>1, <1>2 DEF Track, vars
<1>4. /\ loop'[l] = [at |-> "submit", job |-> j]
      /\ \A m \in Loops \ {l} : loop'[m] = loop[m]
  BY <1>1 DEF Track, Known, LoopTypeOK
<1>5. j \in Jobs /\ loop[l] = [at |-> "track", job |-> j]
  BY <1>1, <1>3 DEF Known, LoopTypeOK, LoopStates, AtRecv
<1>6. \A i \in Jobs : Tracked(i)' => Tracked(i) \/ i = j
  BY <1>3, <1>4, <1>5 DEF Tracked
<1>7. \A i \in Jobs : Waiting(i)' <=> Waiting(i)
  BY <1>3, <1>4 DEF Waiting
<1>8. RecordInv'
  BY <1>3 DEF RecordInv
<1>9. CrowdInv'
  BY <1>2, <1>3, <1>5, <1>6 DEF CrowdInv
<1>10. OwnEntry'
  <2>1. SUFFICES ASSUME NEW i \in Jobs \ crowded', Tracked(i)', ~Ended(i)'
                 PROVE  i \in activeRuns'[Name(i)]
    BY DEF OwnEntry, Name
  <2>2. Name(i) \in Pipelines /\ activeRuns \in [Pipelines -> SUBSET created]
    BY JobData DEF Name, Known, TrackInv, EntryInv
  <2>3. CASE i = j
    BY <1>3, <2>2, <2>3
  <2>4. CASE i # j
    <3>1. Tracked(i) /\ i \notin crowded
      BY <1>3, <1>6, <2>1, <2>4
    <3>2. Name(i) # Name(j)
      BY <1>2, <1>3, <2>1, <3>1
    <3>3. i \in activeRuns[Name(i)]
      BY <1>3, <2>1, <3>1 DEF OwnEntry, Ended
    <3>4. QED
      BY <1>3, <2>2, <3>2, <3>3
  <2>5. QED
    BY <2>3, <2>4
<1>11. WaitInv'
  BY <1>3, <1>7 DEF WaitInv
<1>12. ASSUME NEW i \in Jobs \ crowded'
       PROVE  Mirrors(i)'
  BY <1>3, <1>7, MirrorFrame DEF MirrorInv
<1>13. MirrorInv'
  BY <1>12 DEF MirrorInv
<1>14. QED
  BY <1>8, <1>9, <1>10, <1>11, <1>13

LEMMA SubmitRec ==
  ASSUME KnownMore, NEW l \in Loops, CallSubmit(l)
  PROVE  RecInv'
<1> USE DEF KnownMore, RecInv
<1>1. PICK j : j = loop[l].job
  OBVIOUS
<1>2. /\ UNCHANGED <<step, created, runs, activeRuns, cb, held, idx, crowded>>
      /\ loop[l].at = "submit"
      /\ pc[j] = "idle" /\ pc' = [pc EXCEPT ![j] = "acquire"]
  BY <1>1 DEF CallSubmit, Submit, Goto
<1>3. /\ loop'[l] = [at |-> "wait", job |-> j]
      /\ \A m \in Loops \ {l} : loop'[m] = loop[m]
  BY <1>1 DEF CallSubmit, Known, LoopTypeOK
<1>4. j \in Jobs /\ pc \in [Jobs -> Labels]
  <2>1. pc \in [Jobs -> Labels]
    BY DEF Known, IInv, TypeOK
  <2>2. j \in Jobs
    BY <1>1, <1>2 DEF Known, LoopTypeOK, LoopStates, AtRecv
  <2>3. QED
    BY <2>1, <2>2
<1>5. \A i \in Jobs : Tracked(i)' => Tracked(i)
  BY <1>2, <1>3, <1>4 DEF Tracked, Over
<1>6. \A i \in Jobs : Waiting(i)' <=> Waiting(i) \/ i = j
  BY <1>2, <1>3 DEF Waiting
<1>7. RecordInv'
  BY <1>2 DEF RecordInv
<1>8. CrowdInv'
  BY <1>2, <1>5 DEF CrowdInv
<1>9. OwnEntry'
  BY <1>2, <1>4, <1>5 DEF OwnEntry, Ended
<1>10. WaitInv'
  BY <1>2, <1>4, <1>6 DEF WaitInv
<1>11. ASSUME NEW i \in Jobs \ crowded'
       PROVE  Mirrors(i)'
  <2>1. Mirrors(i)
    BY <1>2, <1>11 DEF MirrorInv
  <2>2. CASE i = j
    <3>1. cb[i] = "load" /\ pc'[i] = "acquire"
      BY <1>2, <1>4, <2>2 DEF Known, TrackInv, HeldInv, HookPoints
    <3>2. RunStatusOf(i)' = RunStatusOf(i)
      BY <1>2, <2>2, <3>1 DEF RunStatusOf
    <3>3. \A k \in 1..StepCount(i) : StepStatusOf(i, k)' = StepStatusOf(i, k)
      BY <1>2, <2>2, <3>1 DEF StepStatusOf
    <3>4. QED
      BY <1>2, <2>1, <2>2, <3>1, <3>2, <3>3, MirrorMove
  <2>3. CASE i # j
    BY <1>2, <1>4, <1>6, <2>1, <2>3, MirrorFrame
  <2>4. QED
    BY <2>2, <2>3
<1>12. MirrorInv'
  BY <1>11 DEF MirrorInv
<1>13. QED
  BY <1>7, <1>8, <1>9, <1>10, <1>12

\* Submit's error finishes the record it was created with.
LEMMA ReturnRec ==
  ASSUME KnownMore, NEW l \in Loops, Return(l)
  PROVE  RecInv'
<1> USE DEF KnownMore, RecInv
<1>1. PICK j : j = loop[l].job
  OBVIOUS
<1>2. /\ UNCHANGED <<pc, step, created, activeRuns, cb, held, idx, crowded>>
      /\ loop[l].at = "wait" /\ pc[j] # "acquire"
      /\ IF pc[j] = "rejected" THEN runs' = [runs EXCEPT ![j] = Finish(@, TRUE)]
                               ELSE runs' = runs
  BY <1>1 DEF Return, vars
<1>3. /\ loop'[l] = AtRecv
      /\ \A m \in Loops \ {l} : loop'[m] = loop[m]
  BY <1>1 DEF Return, Known, LoopTypeOK
<1>4. j \in Jobs
  BY <1>1, <1>2 DEF Known, LoopTypeOK, LoopStates, AtRecv
<1>5. \A i \in Jobs : Tracked(i)' => Tracked(i)
  BY <1>2, <1>3 DEF Tracked
<1>6. \A i \in Jobs \ {j} : Waiting(i)' <=> Waiting(i)
  BY <1>1, <1>2, <1>3 DEF Waiting, AtRecv
<1>7. StepCount(j) \in Nat /\ runs[j] \in Run(StepCount(j), StepNames(j))
  BY <1>4, JobData DEF RecordInv
<1>8. PICK u : u = Finish(runs[j], TRUE)
  OBVIOUS
<1>9. u \in Run(StepCount(j), StepNames(j)) /\ u.status = "failed" /\ u.steps = runs[j].steps
  BY <1>7, <1>8 DEF Finish, Run, Status
<1>10. /\ DOMAIN runs' = Jobs
       /\ runs'[j] = IF pc[j] = "rejected" THEN u ELSE runs[j]
       /\ \A i \in Jobs \ {j} : runs'[i] = runs[i]
  BY <1>2, <1>4, <1>8 DEF RecordInv
<1>11. RecordInv'
  <2>1. \A i \in Jobs : runs'[i] \in Run(StepCount(i), StepNames(i))
    BY <1>4, <1>9, <1>10 DEF RecordInv
  <2>2. QED
    BY <1>2, <1>10, <2>1 DEF RecordInv
<1>12. CrowdInv'
  BY <1>2, <1>5 DEF CrowdInv
<1>13. OwnEntry'
  BY <1>2, <1>5 DEF OwnEntry, Ended
<1>14. WaitInv'
  BY <1>2, <1>6 DEF WaitInv
<1>15. ASSUME NEW i \in Jobs \ crowded'
       PROVE  Mirrors(i)'
  <2>1. Mirrors(i)
    BY <1>2, <1>15 DEF MirrorInv
  <2>2. CASE i = j /\ pc[j] = "rejected"
    <3>1. cb'[i] = "load"
      BY <1>2, <1>4, <2>2 DEF Known, TrackInv, HeldInv, HookPoints
    <3>2. \A k \in 1..StepCount(i) : StepRecord(i, k)' = StepRecord(i, k)
      BY <1>2 DEF StepRecord, StepStatusOf, StepCount, Name
    <3>3. RunStatusOf(i)' = "failed"
      BY <1>2, <2>2 DEF RunStatusOf
    <3>4. runs'[i].steps = runs[i].steps /\ runs'[i].status = "failed"
      BY <1>9, <1>10, <2>2
    <3>5. StepCount(i)' = StepCount(i)
      BY DEF StepCount
    <3>6. QED
      BY <2>1, <3>1, <3>2, <3>3, <3>4, <3>5 DEF Mirrors
  <2>3. CASE i # j
    BY <1>2, <1>6, <1>10, <2>1, <2>3, MirrorFrame
  <2>4. CASE pc[i] # "rejected"
    BY <1>2, <1>10, <2>1, <2>4, MirrorFrame
  <2>5. QED
    BY <2>2, <2>3, <2>4
<1>16. MirrorInv'
  BY <1>15 DEF MirrorInv
<1>17. QED
  BY <1>11, <1>12, <1>13, <1>14, <1>16

-------------------------------------------------------------------------------
(* The steps of the callbacks *)

\* A job in a hook is tracked and has not ended.
LEMMA HookTracked ==
  ASSUME KnownMore, NEW j \in Jobs, pc[j] \in HookPoints
  PROVE  Tracked(j) /\ ~Ended(j)
<1>1. j \in created /\ pc[j] \notin Over /\ ~Ended(j) /\ pc[j] # "idle"
  BY DEF KnownMore, Known, TrackInv, CreatedInv, HookPoints, Over, Ended
<1>2. \A l \in Loops : loop[l] # [at |-> "track", job |-> j]
  BY <1>1 DEF KnownMore, Known, TrackInv, CreatedInv, Holds
<1>3. QED
  BY <1>1, <1>2 DEF Tracked

\* A job that was never crowded holds its own run, and nobody else holds it.
LEMMA HeldIsOwn ==
  ASSUME KnownMore, NEW j \in Jobs \ crowded
  PROVE  /\ cb[j] # "load" => held[j] = j
         /\ \A i \in Jobs \ {j} : cb[i] # "load" => held[i] # j
BY DEF KnownMore, Known, TrackInv, HeldInv, Crowd

\* Jobs of one name have as many steps, with the same names.
LEMMA SameSteps ==
  ASSUME NEW i, NEW j, Name(i) = Name(j)
  PROVE  StepCount(i) = StepCount(j) /\ StepNames(i) = StepNames(j)
BY DEF StepCount, StepNames, Name

\* The step a step hook is about is one of the pipeline's.
LEMMA StepOfHook ==
  ASSUME IInv, NEW j \in Jobs, pc[j] \in StepHooks \cup {"pipelineFailed"}
  PROVE  step[j] \in 1..StepCount(j) /\ StepName(j) \in StepNames(j)
<1>1. step[j] \in 1..StepCount(j)
  BY DEF StepHooks, IInv, LoopInv
<1>2. QED
  BY <1>1 DEF StepName, StepNames

\* The return of a callback, variable by variable.
LEMMA ReturnMoves ==
  ASSUME KnownMore, NEW j \in Jobs, CallbackReturn(j)
  PROVE  /\ pc[j] \in HookPoints /\ pc'[j] = AfterHook(pc[j])
         /\ cb'[j] = "load" /\ held'[j] = j /\ idx'[j] = 1
         /\ idx' \in [Jobs -> Nat]
         /\ step' = step
         /\ \A i \in Jobs \ {j} : /\ pc'[i] = pc[i] /\ cb'[i] = cb[i]
                                  /\ held'[i] = held[i] /\ idx'[i] = idx[i]
<1>1. /\ pc \in [Jobs -> Labels] /\ cb \in [Jobs -> {"load", "scan", "apply", "delete"}]
      /\ held \in [Jobs -> Jobs] /\ idx \in [Jobs -> Nat]
  BY DEF KnownMore, Known, TrackInv, HeldInv, RecInv, RecordInv, IInv, TypeOK
<1>2. QED
  BY <1>1 DEF CallbackReturn, HookReturn, Goto

\* A callback that ends has to account for its own record and its entry.
LEMMA ReturnRecs ==
  ASSUME KnownMore, NEW j \in Jobs, CallbackReturn(j), UNCHANGED <<loop, created, crowded>>,
         DOMAIN runs' = Jobs,
         \A i \in Jobs : runs'[i] \in Run(StepCount(i), StepNames(i)),
         \A i \in Jobs \ crowded : i # j => runs'[i] = runs[i],
         \A i \in Jobs \ crowded : i # j /\ Tracked(i) /\ i \in activeRuns[Name(i)] =>
                                     i \in activeRuns'[Name(i)],
         j \notin crowded => Ended(j)' \/ activeRuns' = activeRuns,
         j \notin crowded => Mirrors(j)'
  PROVE  RecInv'
<1> USE DEF KnownMore, RecInv
<1>1. /\ pc[j] \in HookPoints /\ pc'[j] = AfterHook(pc[j])
      /\ cb'[j] = "load" /\ held'[j] = j /\ idx'[j] = 1
      /\ idx' \in [Jobs -> Nat]
      /\ step' = step
      /\ \A i \in Jobs \ {j} : /\ pc'[i] = pc[i] /\ cb'[i] = cb[i]
                               /\ held'[i] = held[i] /\ idx'[i] = idx[i]
  BY ReturnMoves
<1>2. pc'[j] \notin Over \cup {"idle", "acquire"} /\ Tracked(j) /\ ~Ended(j)
  BY <1>1, HookTracked DEF AfterHook, HookPoints, Over
<1>3. RecordInv'
  <2>1. StepCount(j) \in Nat \ {0}
    BY JobData
  <2>2. \A i \in Jobs : idx'[i] \in 1..StepCount(i)
    BY <1>1, <2>1 DEF RecordInv
  <2>3. \A i \in Jobs : cb'[i] = "load" => held'[i] = i /\ idx'[i] = 1
    BY <1>1 DEF RecordInv
  <2>4. QED
    BY <1>1, <2>2, <2>3 DEF RecordInv
<1>4. \A i \in Jobs : Tracked(i)' => Tracked(i)
  BY <1>1, <1>2 DEF Tracked
<1>5. CrowdInv'
  BY <1>4 DEF CrowdInv
<1>6. OwnEntry'
  <2>1. SUFFICES ASSUME NEW i \in Jobs \ crowded, Tracked(i)', ~Ended(i)'
                 PROVE  i \in activeRuns'[Name(i)]
    BY DEF OwnEntry, Name
  <2>2. CASE i = j
    BY <1>2, <2>1, <2>2 DEF OwnEntry
  <2>3. CASE i # j
    <3>1. Tracked(i) /\ ~Ended(i)
      BY <1>1, <1>4, <2>1, <2>3 DEF Ended
    <3>2. QED
      BY <2>1, <2>3, <3>1 DEF OwnEntry
  <2>4. QED
    BY <2>2, <2>3
<1>7. WaitInv'
  <2>1. \A i \in Jobs : Waiting(i)' <=> Waiting(i)
    BY <1>1 DEF Waiting
  <2>2. \A i \in Jobs : pc'[i] = "acquire" => pc[i] = "acquire"
    BY <1>1, <1>2
  <2>3. QED
    BY <2>1, <2>2 DEF WaitInv
<1>8. ASSUME NEW i \in Jobs \ crowded'
      PROVE  Mirrors(i)'
  <2>1. CASE i = j
    BY <1>8, <2>1
  <2>2. CASE i # j
    <3>1. Waiting(i)' <=> Waiting(i)
      BY DEF Waiting
    <3>2. Mirrors(i)
      BY <1>8 DEF MirrorInv
    <3>3. QED
      BY <1>1, <1>8, <2>2, <3>1, <3>2, MirrorFrame
  <2>3. QED
    BY <2>1, <2>2
<1>9. MirrorInv'
  BY <1>8 DEF MirrorInv
<1>10. QED
  BY <1>3, <1>5, <1>6, <1>7, <1>9

\* A callback that goes on moves neither the worker nor the map.
LEMMA GoesOnRecs ==
  ASSUME KnownMore, NEW j \in Jobs, UNCHANGED <<pc, step, loop, created, activeRuns, crowded>>,
         RecordInv', \A i \in Jobs \ crowded : i # j =>
                       runs'[i] = runs[i] /\ cb'[i] = cb[i] /\ idx'[i] = idx[i],
         j \notin crowded => Mirrors(j)'
  PROVE  RecInv'
<1> USE DEF KnownMore, RecInv
<1>1. \A i \in Jobs : (Tracked(i)' <=> Tracked(i)) /\ (Waiting(i)' <=> Waiting(i))
  BY DEF Tracked, Waiting
<1>2. CrowdInv'
  BY <1>1 DEF CrowdInv
<1>3. OwnEntry'
  BY <1>1 DEF OwnEntry, Ended
<1>4. WaitInv'
  BY <1>1 DEF WaitInv
<1>5. ASSUME NEW i \in Jobs \ crowded'
      PROVE  Mirrors(i)'
  <2>1. CASE i = j
    BY <1>5, <2>1
  <2>2. CASE i # j
    BY <1>1, <1>5, <2>2, MirrorFrame DEF MirrorInv
  <2>3. QED
    BY <2>1, <2>2
<1>6. MirrorInv'
  BY <1>5 DEF MirrorInv
<1>7. QED
  BY <1>2, <1>3, <1>4, <1>6

\* activeRuns.Load finds the run of the job that asks, if it was not crowded.
LEMMA LoadRec ==
  ASSUME KnownMore, NEW j \in Jobs, Load(j)
  PROVE  RecInv'
<1> USE DEF KnownMore, RecInv
<1>0. /\ UNCHANGED <<loop, created, activeRuns, crowded, runs>>
      /\ pc[j] \in HookPoints /\ cb[j] = "load"
  BY DEF Load
<1>1. CASE activeRuns[Name(j)] = {} /\ CallbackReturn(j)
  <2>1. j \in crowded
    BY <1>0, <1>1, HookTracked DEF OwnEntry
  <2>2. DOMAIN runs' = Jobs /\ \A i \in Jobs : runs'[i] \in Run(StepCount(i), StepNames(i))
    BY <1>0 DEF RecordInv
  <2>3. QED
    BY <1>0, <1>1, <2>1, <2>2, ReturnRecs
<1>2. ASSUME NEW r \in activeRuns[Name(j)],
             held' = [held EXCEPT ![j] = r],
             cb' = [cb EXCEPT ![j] = IF pc[j] \in StepHooks THEN "scan" ELSE "apply"],
             UNCHANGED <<vars, idx>>
      PROVE  RecInv'
  <2>1. pc' = pc /\ step' = step /\ idx' = idx
    BY <1>2 DEF vars
  <2>2. /\ cb'[j] = (IF pc[j] \in StepHooks THEN "scan" ELSE "apply")
        /\ \A i \in Jobs \ {j} : cb'[i] = cb[i] /\ held'[i] = held[i]
    BY <1>2 DEF Known, TrackInv, HeldInv
  <2>3. RecordInv'
    BY <1>0, <2>1, <2>2 DEF RecordInv
  <2>4. ASSUME j \notin crowded
        PROVE  Mirrors(j)'
    <3>1. Mirrors(j) /\ idx[j] = 1 /\ step[j] \in Nat \ {0}
      BY <1>0, <2>4 DEF MirrorInv, RecordInv, Known, IInv, TypeOK
    <3>2. RunStatusOf(j)' = RunStatusOf(j)
      BY <2>1 DEF RunStatusOf, Succeeded, StepCount
    <3>3. \A k \in 1..StepCount(j) : StepRecord(j, k)' = StepRecord(j, k)
      BY <2>1 DEF StepRecord, StepStatusOf, Name
    <3>4. StepCount(j)' = StepCount(j) /\ pc[j] # "rejected"
      BY <1>0 DEF StepCount, HookPoints
    <3>5. QED
      BY <1>0, <2>1, <2>2, <3>1, <3>2, <3>3, <3>4 DEF Mirrors
  <2>5. QED
    BY <1>0, <2>1, <2>2, <2>3, <2>4, GoesOnRecs
<1>3. QED
  BY <1>1, <1>2 DEF Load

\* The scan stops at the step under way, and nowhere before it.
LEMMA MatchesStep ==
  ASSUME IInv, NEW j \in Jobs, Mirrors(j), pc[j] \in StepHooks,
         NEW k \in 1..StepCount(j), k <= step[j]
  PROVE  Matches(j, runs[j].steps[k]) <=> k = step[j]
<1>1. runs[j].steps[k] = StepRecord(j, k)
  BY DEF Mirrors
<1>2. k \in Nat /\ step[j] \in Nat
  BY JobData DEF IInv, TypeOK
<1>3. CASE k < step[j]
  <2>1. StepRecord(j, k).status = "completed"
    BY <1>3 DEF StepRecord, StepStatusOf
  <2>2. QED
    BY <1>1, <1>2, <1>3, <2>1 DEF Matches
<1>4. CASE k = step[j] /\ pc[j] = "stepStarted"
  <2>1. StepRecord(j, k).status = "pending"
    BY <1>2, <1>4 DEF StepRecord, StepStatusOf
  <2>2. QED
    BY <1>1, <1>4, <2>1 DEF Matches
<1>5. CASE k = step[j] /\ pc[j] # "stepStarted"
  <2>1. StepStatusOf(j, k) = "running"
    BY <1>2, <1>5 DEF StepStatusOf, StepHooks
  <2>2. StepRecord(j, k).status = "running" /\ StepRecord(j, k).name = StepName(j)
    BY <1>5, <2>1 DEF StepRecord, StepName
  <2>3. QED
    BY <1>1, <1>5, <2>2 DEF Matches
<1>6. QED
  BY <1>2, <1>3, <1>4, <1>5

LEMMA ScanRec ==
  ASSUME KnownMore, NEW j \in Jobs, Scan(j)
  PROVE  RecInv'
<1> USE DEF KnownMore, RecInv
<1>0. /\ UNCHANGED <<loop, created, activeRuns, crowded, runs>>
      /\ cb[j] = "scan"
  BY DEF Scan
<1>1. /\ pc[j] \in StepHooks /\ held[j] \in Jobs /\ Name(held[j]) = Name(j)
  BY <1>0 DEF Known, TrackInv, HeldInv
<1>2. StepCount(held[j]) = StepCount(j) /\ StepCount(j) \in Nat
  BY <1>1, SameSteps, JobData
<1>3. Len(runs[held[j]].steps) = StepCount(j)
  <2>1. runs[held[j]] \in Run(StepCount(held[j]), StepNames(held[j]))
    BY <1>1 DEF RecordInv
  <2>2. PICK S : runs[held[j]].steps \in [1..StepCount(j) -> S]
    BY <1>2, <2>1 DEF Run
  <2>3. QED
    BY <1>2, <2>2
<1>4. step[j] \in 1..StepCount(j) /\ idx[j] \in 1..StepCount(j)
  BY <1>1, StepOfHook DEF Known, RecordInv
<1>5. ASSUME j \notin crowded
      PROVE  /\ held[j] = j /\ Mirrors(j) /\ idx[j] <= step[j]
             /\ Matches(j, runs[j].steps[idx[j]]) <=> idx[j] = step[j]
             /\ ~NameIsStored(j)
  <2>1. held[j] = j /\ Mirrors(j)
    BY <1>0, <1>5, HeldIsOwn DEF MirrorInv
  <2>2. idx[j] <= step[j]
    BY <1>0, <2>1 DEF Mirrors
  <2>3. ~NameIsStored(j)
    BY <1>5, <2>1, HeldIsOwn DEF NameIsStored
  <2>4. QED
    BY <1>1, <1>4, <2>1, <2>2, <2>3, MatchesStep DEF Known
<1>6. CASE /\ Matches(j, runs[held[j]].steps[idx[j]])
           /\ cb' = [cb EXCEPT ![j] = "apply"]
           /\ UNCHANGED <<vars, held, idx>>
  <2>1. pc' = pc /\ step' = step /\ idx' = idx
    BY <1>6 DEF vars
  <2>2. cb'[j] = "apply" /\ \A i \in Jobs \ {j} : cb'[i] = cb[i]
    BY <1>6 DEF Known, TrackInv, HeldInv
  <2>3. RecordInv'
    BY <1>0, <1>6, <2>1, <2>2 DEF RecordInv
  <2>4. ASSUME j \notin crowded
        PROVE  Mirrors(j)'
    <3>1. Mirrors(j) /\ idx[j] = step[j]
      BY <1>5, <1>6, <2>4
    <3>2. RunStatusOf(j)' = RunStatusOf(j)
      BY <2>1 DEF RunStatusOf, Succeeded, StepCount
    <3>3. \A k \in 1..StepCount(j) : StepRecord(j, k)' = StepRecord(j, k)
      BY <2>1 DEF StepRecord, StepStatusOf, Name
    <3>4. StepCount(j)' = StepCount(j) /\ pc[j] # "rejected"
      BY <1>1 DEF StepCount, StepHooks
    <3>5. QED
      BY <1>0, <2>1, <2>2, <3>1, <3>2, <3>3, <3>4 DEF Mirrors
  <2>5. QED
    BY <1>0, <2>1, <2>2, <2>3, <2>4, GoesOnRecs
<1>7. CASE /\ ~Matches(j, runs[held[j]].steps[idx[j]])
           /\ idx[j] < Len(runs[held[j]].steps)
           /\ idx' = [idx EXCEPT ![j] = @ + 1]
           /\ UNCHANGED <<vars, cb, held>>
  <2>1. pc' = pc /\ step' = step /\ cb' = cb /\ held' = held
    BY <1>7 DEF vars
  <2>2. /\ idx' \in [Jobs -> Nat] /\ idx'[j] = idx[j] + 1
        /\ \A i \in Jobs \ {j} : idx'[i] = idx[i]
    BY <1>7 DEF RecordInv
  <2>3. RecordInv'
    <3>1. \A i \in Jobs : idx'[i] \in 1..StepCount(i)
      BY <1>2, <1>3, <1>4, <1>7, <2>2 DEF RecordInv
    <3>2. QED
      BY <1>0, <2>1, <2>2, <3>1 DEF RecordInv
  <2>4. ASSUME j \notin crowded
        PROVE  Mirrors(j)'
    <3>1. Mirrors(j) /\ idx[j] + 1 <= step[j]
      BY <1>4, <1>5, <1>7, <2>4
    <3>2. RunStatusOf(j)' = RunStatusOf(j)
      BY <2>1 DEF RunStatusOf, Succeeded, StepCount
    <3>3. \A k \in 1..StepCount(j) : StepRecord(j, k)' = StepRecord(j, k)
      BY <2>1 DEF StepRecord, StepStatusOf, Name
    <3>4. StepCount(j)' = StepCount(j) /\ pc[j] # "rejected"
      BY <1>1 DEF StepCount, StepHooks
    <3>5. QED
      BY <1>0, <2>1, <2>2, <3>1, <3>2, <3>3, <3>4 DEF Mirrors
  <2>5. QED
    BY <1>0, <2>1, <2>2, <2>3, <2>4, GoesOnRecs
<1>8. CASE /\ CallbackReturn(j)
           /\ \/ ~Matches(j, runs[held[j]].steps[idx[j]]) /\ idx[j] = Len(runs[held[j]].steps)
              \/ NameIsStored(j)
  <2>1. j \in crowded
    BY <1>3, <1>4, <1>5, <1>8
  <2>2. DOMAIN runs' = Jobs /\ \A i \in Jobs : runs'[i] \in Run(StepCount(i), StepNames(i))
    BY <1>0 DEF RecordInv
  <2>3. QED
    BY <1>0, <1>8, <2>1, <2>2, ReturnRecs
<1>9. QED
  BY <1>6, <1>7, <1>8 DEF Scan

\* What the method that a hook calls does to a record.
LEMMA UpdateIs ==
  ASSUME IInv, RecordInv, NEW j \in Jobs, pc[j] \in HookPoints,
         NEW r \in Run(StepCount(j), StepNames(j)), NEW u, u = Update(j, r)
  PROVE  LET n == StepCount(j)
             names == StepNames(j)
             name == r.steps[idx[j]].name
         IN  /\ u \in Run(n, names)
             /\ pc[j] = "pipelineStarted" => u.status = "running" /\ u.steps = r.steps
             /\ pc[j] = "stepStarted" =>
                  OneStep(r, u, n, names, idx[j], [name |-> StepName(j), status |-> "running"])
             /\ pc[j] = "stepCompleted" =>
                  OneStep(r, u, n, names, idx[j], [name |-> name, status |-> "completed"])
             /\ pc[j] = "stepFailed" =>
                  OneStep(r, u, n, names, idx[j], [name |-> name, status |-> "failed"])
             /\ pc[j] = "pipelineCompleted" => u.status = "completed" /\ u.steps = r.steps
             /\ pc[j] = "pipelineFailed" => u.status = "failed" /\ u.steps = r.steps
<1>1. StepCount(j) \in Nat /\ idx[j] \in 1..StepCount(j)
  BY JobData DEF RecordInv
<1>2. CASE pc[j] = "pipelineStarted"
  <2>1. u = Start(r)
    BY <1>2 DEF Update
  <2>2. QED
    BY <1>1, <1>2, <2>1, StartIs
<1>3. CASE pc[j] = "stepStarted"
  <2>1. u = StartStep(r, idx[j], StepName(j))
    BY <1>3 DEF Update
  <2>2. StepName(j) \in StepNames(j)
    BY <1>3, StepOfHook DEF StepHooks
  <2>3. OneStep(r, u, StepCount(j), StepNames(j), idx[j],
                [name |-> StepName(j), status |-> "running"])
    BY <1>1, <2>1, <2>2, StartStepIs
  <2>4. u \in Run(StepCount(j), StepNames(j))
    BY <2>3 DEF OneStep
  <2>5. QED
    BY <1>3, <2>3, <2>4
<1>4. CASE pc[j] = "stepCompleted"
  <2>1. u = CompleteStep(r, idx[j])
    BY <1>4 DEF Update
  <2>2. OneStep(r, u, StepCount(j), StepNames(j), idx[j],
                [name |-> r.steps[idx[j]].name, status |-> "completed"])
    BY <1>1, <2>1, CompleteStepIs
  <2>3. u \in Run(StepCount(j), StepNames(j))
    BY <2>2 DEF OneStep
  <2>4. QED
    BY <1>4, <2>2, <2>3
<1>5. CASE pc[j] = "stepFailed"
  <2>1. u = FailStep(r, idx[j])
    BY <1>5 DEF Update
  <2>2. OneStep(r, u, StepCount(j), StepNames(j), idx[j],
                [name |-> r.steps[idx[j]].name, status |-> "failed"])
    BY <1>1, <2>1, FailStepIs
  <2>3. u \in Run(StepCount(j), StepNames(j))
    BY <2>2 DEF OneStep
  <2>4. QED
    BY <1>5, <2>2, <2>3
<1>6. CASE pc[j] = "pipelineCompleted"
  <2>1. u = Finish(r, FALSE)
    BY <1>6 DEF Update
  <2>2. u \in Run(StepCount(j), StepNames(j)) /\ u.status = "completed" /\ u.steps = r.steps
    BY <1>1, <2>1 DEF Finish, Run, Status
  <2>3. QED
    BY <1>6, <2>2
<1>7. CASE pc[j] = "pipelineFailed"
  <2>1. u = Finish(r, TRUE)
    BY <1>7 DEF Update
  <2>2. u \in Run(StepCount(j), StepNames(j)) /\ u.status = "failed" /\ u.steps = r.steps
    BY <1>1, <2>1 DEF Finish, Run, Status
  <2>3. QED
    BY <1>7, <2>2
<1>8. QED
  BY <1>2, <1>3, <1>4, <1>5, <1>6, <1>7 DEF HookPoints

\* The update of a step hook, in the record of a job that was never crowded,
\* is the one that the worker's next position asks for.
LEMMA UpdateMirrors ==
  ASSUME KnownMore, NEW j \in Jobs \ crowded, cb[j] = "apply", pc[j] \notin LastHooks,
         CallbackReturn(j), runs'[j] = Update(j, runs[j])
  PROVE  Mirrors(j)'
<1> USE DEF KnownMore, RecInv
<1> DEFINE n == StepCount(j)
<1>1. PICK r : r = runs[j]
  OBVIOUS
<1>2. PICK u : u = Update(j, r)
  OBVIOUS
<1>0. PICK p : p = step[j]
  OBVIOUS
<1>3. /\ pc[j] \in HookPoints /\ pc'[j] = AfterHook(pc[j])
      /\ cb'[j] = "load" /\ step' = step
  BY ReturnMoves
<1>4. n \in Nat \ {0} /\ step[j] \in Nat \ {0}
  BY JobData DEF Known, IInv, TypeOK
<1>5. /\ r \in Run(n, StepNames(j))
      /\ \A k \in 1..n : r.steps[k] = StepRecord(j, k)
      /\ pc[j] \in StepHooks => idx[j] = step[j]
      /\ r.status = RunStatusOf(j)
  BY <1>1, <1>3 DEF RecordInv, MirrorInv, Mirrors, HookPoints
<1>6. SUFFICES /\ \A k \in 1..n : u.steps[k] = StepRecord(j, k)'
               /\ u.status = RunStatusOf(j)'
               /\ pc'[j] # "rejected"
  BY <1>1, <1>2, <1>3 DEF Mirrors, StepCount
<1>7. CASE pc[j] = "pipelineStarted"
  <2>1. u.status = "running" /\ u.steps = r.steps
    BY <1>2, <1>3, <1>5, <1>7, UpdateIs DEF Known
  <2>2. pc'[j] = "stepStarted"
    BY <1>3, <1>7 DEF AfterHook
  <2>3. \A k \in 1..n : StepRecord(j, k)' = StepRecord(j, k)
    BY <1>3, <1>7, <2>2 DEF StepRecord, StepStatusOf, Name
  <2>4. RunStatusOf(j)' = "running"
    BY <2>2 DEF RunStatusOf
  <2>5. QED
    BY <1>5, <2>1, <2>2, <2>3, <2>4
<1>8. ASSUME NEW s, pc[j] \in StepHooks, step[j] \in 1..n,
             OneStep(r, u, n, StepNames(j), step[j], s),
             s = StepRecord(j, p)',
             RunStatusOf(j) = "running", RunStatusOf(j)' = "running", pc'[j] # "rejected"
      PROVE  /\ \A k \in 1..n : u.steps[k] = StepRecord(j, k)'
             /\ u.status = RunStatusOf(j)'
             /\ pc'[j] # "rejected"
  <2>1. u.status = "running"
    BY <1>5, <1>8 DEF OneStep
  <2>2. ASSUME NEW k \in 1..n, k # p
        PROVE  u.steps[k] = StepRecord(j, k)'
    <3>1. u.steps[k] = StepRecord(j, k)
      BY <1>0, <1>5, <1>8, <2>2 DEF OneStep
    <3>2. k < step[j] \/ k > step[j]
      BY <1>0, <1>4, <2>2
    <3>3. StepRecord(j, k)' = StepRecord(j, k)
      BY <1>3, <1>4, <3>2 DEF StepRecord, StepStatusOf, Name
    <3>4. QED
      BY <3>1, <3>3
  <2>3. u.steps[p] = StepRecord(j, p)'
    BY <1>0, <1>8 DEF OneStep
  <2>4. QED
    BY <1>8, <2>1, <2>2, <2>3
<1>9. CASE pc[j] = "stepStarted"
  <2>1. step[j] \in 1..n /\ idx[j] = step[j]
    BY <1>5, <1>9, StepOfHook DEF Known, StepHooks
  <2>2. OneStep(r, u, n, StepNames(j), step[j], [name |-> StepName(j), status |-> "running"])
    BY <1>2, <1>3, <1>5, <1>9, <2>1, UpdateIs DEF Known
  <2>3. pc'[j] = "execute"
    BY <1>3, <1>9 DEF AfterHook
  <2>4. StepRecord(j, p)' = [name |-> StepName(j), status |-> "running"]
    BY <1>0, <1>3, <1>4, <2>3 DEF StepRecord, StepStatusOf, StepName, Name
  <2>5. RunStatusOf(j) = "running" /\ RunStatusOf(j)' = "running"
    BY <1>9, <2>3 DEF RunStatusOf
  <2>6. PICK s : s = [name |-> StepName(j), status |-> "running"]
    OBVIOUS
  <2>7. OneStep(r, u, n, StepNames(j), step[j], s) /\ s = StepRecord(j, p)'
    BY <2>2, <2>4, <2>6
  <2>8. pc[j] \in StepHooks /\ pc'[j] # "rejected"
    BY <1>9, <2>3 DEF StepHooks
  <2>9. QED
    BY <1>8, <2>1, <2>5, <2>7, <2>8
<1>10. CASE pc[j] \in {"stepCompleted", "stepFailed"}
  <2>1. step[j] \in 1..n /\ idx[j] = step[j]
    BY <1>5, <1>10, StepOfHook DEF Known, StepHooks
  <2>2. r.steps[step[j]].name = StepName(j)
    <3>1. StepStatusOf(j, step[j]) = "running"
      BY <1>4, <1>10 DEF StepStatusOf
    <3>2. StepRecord(j, step[j]).name = StepName(j)
      BY <3>1 DEF StepRecord, StepName
    <3>3. QED
      BY <1>5, <2>1, <3>2
  <2>3. PICK t : t = IF pc[j] = "stepCompleted" THEN "completed" ELSE "failed"
    OBVIOUS
  <2>4. OneStep(r, u, n, StepNames(j), step[j], [name |-> StepName(j), status |-> t])
    BY <1>2, <1>3, <1>5, <1>10, <2>1, <2>2, <2>3, UpdateIs DEF Known
  <2>5. pc'[j] = IF pc[j] = "stepCompleted" THEN "emit" ELSE "pipelineFailed"
    BY <1>3, <1>10 DEF AfterHook
  <2>6. StepRecord(j, p)' = [name |-> StepName(j), status |-> t]
    <3>1. StepStatusOf(j, p)' = t
      BY <1>0, <1>3, <1>4, <1>10, <2>3, <2>5 DEF StepStatusOf
    <3>2. t # "pending"
      BY <2>3
    <3>3. QED
      BY <1>0, <1>3, <3>1, <3>2 DEF StepRecord, StepName, Name
  <2>7. RunStatusOf(j) = "running" /\ RunStatusOf(j)' = "running"
    BY <1>3, <1>4, <1>10, <2>1, <2>5 DEF RunStatusOf, StepCount
  <2>8. PICK s : s = [name |-> StepName(j), status |-> t]
    OBVIOUS
  <2>9. OneStep(r, u, n, StepNames(j), step[j], s) /\ s = StepRecord(j, p)'
    BY <2>4, <2>6, <2>8
  <2>10. pc[j] \in StepHooks /\ pc'[j] # "rejected"
    BY <1>10, <2>5 DEF StepHooks
  <2>11. QED
    BY <1>8, <2>1, <2>7, <2>9, <2>10
<1>11. QED
  BY <1>3, <1>7, <1>9, <1>10 DEF HookPoints, LastHooks

\* The method of Run: its record is j's own, or that of a job j is crowded with.
LEMMA ApplyRec ==
  ASSUME KnownMore, NEW j \in Jobs, Apply(j)
  PROVE  RecInv'
<1> USE DEF KnownMore, RecInv
<1>0. /\ UNCHANGED <<loop, created, activeRuns, crowded>>
      /\ cb[j] = "apply"
      /\ runs' = [runs EXCEPT ![held[j]] = Update(j, @)]
  BY DEF Apply
<1>1. PICK h : h = held[j]
  OBVIOUS
<1>2. PICK r : r = runs[h]
  OBVIOUS
<1>3. PICK u : u = Update(j, r)
  OBVIOUS
<1>4. h \in Jobs /\ Name(h) = Name(j) /\ pc[j] \in HookPoints
  BY <1>0, <1>1 DEF Known, TrackInv, HeldInv
<1>5. StepCount(h) = StepCount(j) /\ StepNames(h) = StepNames(j)
  BY <1>4, SameSteps
<1>6. r \in Run(StepCount(j), StepNames(j))
  BY <1>2, <1>4, <1>5 DEF RecordInv
<1>7. u \in Run(StepCount(h), StepNames(h))
  BY <1>3, <1>4, <1>5, <1>6, UpdateIs DEF Known
<1>8. /\ DOMAIN runs' = Jobs /\ runs'[h] = u
      /\ \A i \in Jobs \ {h} : runs'[i] = runs[i]
  BY <1>0, <1>1, <1>2, <1>3, <1>4 DEF RecordInv
<1>9. \A i \in Jobs : runs'[i] \in Run(StepCount(i), StepNames(i))
  BY <1>7, <1>8 DEF RecordInv
<1>10. \A i \in Jobs \ crowded : i # j => runs'[i] = runs[i]
  BY <1>0, <1>1, <1>8, HeldIsOwn
<1>11. j \notin crowded => h = j
  BY <1>0, <1>1, HeldIsOwn
<1>12. CASE pc[j] \notin LastHooks /\ CallbackReturn(j)
  <2>1. j \notin crowded => Mirrors(j)'
    BY <1>0, <1>2, <1>3, <1>8, <1>11, <1>12, UpdateMirrors
  <2>2. QED
    BY <1>0, <1>8, <1>9, <1>10, <1>12, <2>1, ReturnRecs
<1>13. CASE /\ pc[j] \in LastHooks
            /\ cb' = [cb EXCEPT ![j] = "delete"] /\ UNCHANGED <<vars, held, idx>>
  <2>1. pc' = pc /\ step' = step /\ idx' = idx /\ held' = held
    BY <1>13 DEF vars
  <2>2. cb'[j] = "delete" /\ \A i \in Jobs \ {j} : cb'[i] = cb[i]
    BY <1>13 DEF Known, TrackInv, HeldInv
  <2>3. RecordInv'
    BY <1>8, <1>9, <2>1, <2>2 DEF RecordInv, StepCount, StepNames
  <2>4. ASSUME j \notin crowded
        PROVE  Mirrors(j)'
    <3>1. Mirrors(j) /\ runs'[j] = u /\ r = runs[j]
      BY <1>2, <1>8, <1>11, <2>4 DEF MirrorInv
    <3>2. \A k \in 1..StepCount(j) : StepRecord(j, k)' = StepRecord(j, k)
      BY <2>1 DEF StepRecord, StepStatusOf, Name
    <3>3. pc[j] = "pipelineCompleted" => u.status = "completed" /\ u.steps = r.steps
      BY <1>3, <1>4, <1>6, UpdateIs DEF Known
    <3>4. pc[j] = "pipelineFailed" => u.status = "failed" /\ u.steps = r.steps
      BY <1>3, <1>4, <1>6, UpdateIs DEF Known
    <3>5. /\ u.steps = r.steps
          /\ u.status = IF pc[j] = "pipelineFailed" THEN "failed" ELSE "completed"
      BY <1>13, <3>3, <3>4 DEF LastHooks
    <3>6. StepCount(j)' = StepCount(j)
      BY DEF StepCount
    <3>7. QED
      BY <1>13, <2>1, <2>2, <3>1, <3>2, <3>5, <3>6 DEF Mirrors
  <2>5. QED
    BY <1>0, <1>10, <2>1, <2>2, <2>3, <2>4, GoesOnRecs
<1>14. QED
  BY <1>12, <1>13 DEF Apply

\* The entry of activeRuns goes when its job has ended, and takes with it no
\* entry of a job that was never crowded.
LEMMA DeleteRec ==
  ASSUME KnownMore, NEW j \in Jobs, Delete(j)
  PROVE  RecInv'
<1> USE DEF KnownMore, RecInv
<1> DEFINE n == StepCount(j)
<1>0. /\ UNCHANGED <<loop, created, crowded, runs>>
      /\ cb[j] = "delete" /\ CallbackReturn(j)
      /\ activeRuns' = [activeRuns EXCEPT ![Name(j)] = {}]
  BY DEF Delete
<1>1. /\ pc[j] \in HookPoints /\ pc'[j] = AfterHook(pc[j])
      /\ cb'[j] = "load" /\ step' = step
  BY <1>0, ReturnMoves
<1>2. ASSUME NEW i \in Jobs \ crowded, i # j, Tracked(i), i \in activeRuns[Name(i)]
      PROVE  i \in activeRuns'[Name(i)]
  <2>1. Name(i) # Name(j)
    BY <1>1, <1>2, HookTracked DEF CrowdInv
  <2>2. Name(i) \in Pipelines /\ activeRuns \in [Pipelines -> SUBSET created]
    BY JobData DEF Name, Known, TrackInv, EntryInv
  <2>3. QED
    BY <1>0, <1>2, <2>1, <2>2
<1>3. ASSUME j \notin crowded
      PROVE  Ended(j)' /\ Mirrors(j)'
  <2>1. /\ Mirrors(j) /\ pc[j] \in LastHooks
        /\ runs[j].status = IF pc[j] = "pipelineFailed" THEN "failed" ELSE "completed"
    BY <1>0, <1>3 DEF MirrorInv, Mirrors
  <2>2. n \in Nat \ {0} /\ step[j] \in Nat \ {0} /\ n' = n
    BY JobData DEF Known, IInv, TypeOK, StepCount
  <2>3. \/ pc[j] = "pipelineCompleted" /\ pc'[j] = "emit" /\ step[j] = n + 1
        \/ pc[j] = "pipelineFailed" /\ pc'[j] = "release" /\ step[j] \in 1..n
    BY <1>1, <2>1 DEF LastHooks, AfterHook, Known, IInv, LoopInv
  <2>4. Ended(j)'
    BY <1>1, <2>2, <2>3 DEF Ended
  <2>5. RunStatusOf(j)' = IF pc[j] = "pipelineFailed" THEN "failed" ELSE "completed"
    BY <1>1, <2>2, <2>3 DEF RunStatusOf, Succeeded
  <2>6. \A k \in 1..n : StepStatusOf(j, k)' = StepStatusOf(j, k)
    BY <1>1, <2>2, <2>3 DEF StepStatusOf
  <2>7. \A k \in 1..n : StepRecord(j, k)' = StepRecord(j, k)
    BY <2>6 DEF StepRecord, Name
  <2>8. QED
    BY <1>0, <1>1, <2>1, <2>2, <2>3, <2>4, <2>5, <2>7 DEF Mirrors
<1>4. DOMAIN runs' = Jobs /\ \A i \in Jobs : runs'[i] \in Run(StepCount(i), StepNames(i))
  BY <1>0 DEF RecordInv
<1>5. QED
  BY <1>0, <1>2, <1>3, <1>4, ReturnRecs

\* Events, reloads, the signal and the main goroutine.
LEMMA OtherRec ==
  ASSUME KnownMore,
         \/ ListenerEvent \/ PipelineEvent \/ Signal \/ ServerWait \/ ServerExit
         \/ Stopped \/ (\E names \in SUBSET Pipelines : Reload(names)) \/ UNCHANGED allVars
  PROVE  RecInv'
<1>1. CASE ListenerEvent \/ PipelineEvent
  <2>1. PICK l \in Loops : loop[l] = AtRecv /\ \E m : Lookup(l, m)
    BY <1>1 DEF ListenerEvent, PipelineEvent, Loops
  <2>2. /\ \A m \in Loops \ {l} : loop'[m] = loop[m]
        /\ loop'[l].at \in {"recv", "create"}
    BY <2>1 DEF Lookup, KnownMore, Known, LoopTypeOK, AtRecv
  <2>3. UNCHANGED <<pc, step, created, runs, activeRuns, cb, held, idx, crowded>>
    BY <1>1 DEF ListenerEvent, PipelineEvent, Drain, vars
  <2>4. loop[l].at = "recv"
    BY <2>1 DEF AtRecv
  <2>5. \A i \in Jobs : Tracked(i)' => Tracked(i)
    BY <2>2, <2>3, <2>4 DEF Tracked
  <2>6. \A i \in Jobs : Waiting(i)' <=> Waiting(i)
    BY <2>2, <2>4 DEF Waiting
  <2>7. QED
    BY <2>3, <2>5, <2>6, LoopRec
<1>2. CASE ~(ListenerEvent \/ PipelineEvent)
  <2>1. UNCHANGED <<pc, step, loop, created, runs, activeRuns, cb, held, idx, crowded>>
    BY <1>2 DEF Signal, Cancel, ServerWait, WaitCall, ServerExit, WaitReturn, Exit, Stopped,
       Reload, vars, allVars, serverVars
  <2>2. \A i \in Jobs : (Tracked(i)' <=> Tracked(i)) /\ (Waiting(i)' <=> Waiting(i))
    BY <2>1 DEF Tracked, Waiting
  <2>3. QED
    BY <2>1, <2>2, LoopRec
<1>3. QED
  BY <1>1, <1>2

LEMMA InitRec ==
  ASSUME DispatchInit
  PROVE  RecInv
<1>1. /\ pc = [j \in Jobs |-> "idle"] /\ step = [j \in Jobs |-> 1]
      /\ created = {} /\ cb = [j \in Jobs |-> "load"]
      /\ held = [j \in Jobs |-> j] /\ idx = [j \in Jobs |-> 1]
      /\ runs = [j \in Jobs |-> NewRun(StepCount(j))]
  BY DEF DispatchInit, Init
<1>2. \A j \in Jobs : StepCount(j) \in Nat \ {0}
  BY JobData
<1>3. ASSUME NEW j \in Jobs
      PROVE  /\ runs[j] \in Run(StepCount(j), StepNames(j)) /\ runs[j].status = "pending"
             /\ \A k \in 1..StepCount(j) : runs[j].steps[k] = [name |-> "", status |-> "pending"]
  <2>1. PICK n, names : n = StepCount(j) /\ names = StepNames(j)
    OBVIOUS
  <2>2. n \in Nat /\ runs[j] = NewRun(n)
    BY <1>1, <1>2, <2>1
  <2>3. QED
    BY <2>1, <2>2, NewRunIs
<1>4. RecordInv
  <2>1. DOMAIN runs = Jobs /\ idx \in [Jobs -> Nat]
    BY <1>1
  <2>2. \A j \in Jobs : idx[j] \in 1..StepCount(j) /\ held[j] = j /\ idx[j] = 1
    BY <1>1, <1>2
  <2>3. QED
    BY <1>3, <2>1, <2>2 DEF RecordInv
<1>5. CrowdInv /\ OwnEntry /\ WaitInv
  BY <1>1 DEF CrowdInv, OwnEntry, WaitInv, Tracked
<1>6. ASSUME NEW j \in Jobs
      PROVE  Mirrors(j)
  <2>1. pc[j] = "idle" /\ cb[j] = "load" /\ step[j] = 1
    BY <1>1
  <2>2. RunStatusOf(j) = "pending"
    BY <2>1 DEF RunStatusOf
  <2>3. ASSUME NEW k \in 1..StepCount(j)
        PROVE  StepStatusOf(j, k) = "pending"
    BY <1>2, <2>1 DEF StepStatusOf
  <2>4. \A k \in 1..StepCount(j) : StepRecord(j, k) = [name |-> "", status |-> "pending"]
    BY <2>3 DEF StepRecord
  <2>5. QED
    BY <1>3, <2>1, <2>2, <2>4 DEF Mirrors
<1>7. QED
  BY <1>4, <1>5, <1>6 DEF RecInv, MirrorInv

-------------------------------------------------------------------------------
(* The theorems *)

\* The invariant holds of every behaviour of the server.
LEMMA RecInductive == DispatchSpec => []RecInv
<1>1. DispatchInit => RecInv
  BY InitRec
<1>2. IInv /\ LoopTypeOK /\ TrackInv /\ RecInv /\ [DispatchNext]_allVars => RecInv'
  <2> SUFFICES ASSUME KnownMore, [DispatchNext]_allVars PROVE RecInv'
    BY DEF KnownMore, Known
  <2>1. ASSUME NEW l \in Loops, Dispatcher(l) PROVE RecInv'
    BY <2>1, CreateRec, TrackRec, SubmitRec, ReturnRec DEF Dispatcher
  <2>2. ASSUME NEW j \in Jobs, Callback(j) PROVE RecInv'
    BY <2>2, LoadRec, ScanRec, ApplyRec, DeleteRec DEF Callback
  <2>3. ASSUME NEW j \in Jobs, PoolStep(j) PROVE RecInv'
    BY <2>3, PoolStepRec
  <2>4. QED
    BY <2>1, <2>2, <2>3, OtherRec DEF DispatchNext
<1>3. QED
  BY <1>1, <1>2, TrackInductive, ServerUsesPool, Inductive, LoopTyping, PTL
     DEF DispatchSpec, ImplementsPool

\* A run whose execution never overlapped another one of its pipeline says
\* what that execution did, whenever no update of it is under way: what the
\* callbacks of registerRunTracking (server.go:135-192) and the error path of
\* dispatchPipeline write is right for any pipelines, reloads and triggers.
THEOREM RecordsMirror == DispatchSpec => []RunMirrorsExecution
<1>1. RecInv /\ TrackInv => RunMirrorsExecution
  <2> SUFFICES ASSUME RecInv, TrackInv, NEW j \in created \ crowded, UpToDate(j)
               PROVE  /\ runs[j].status = RunStatusOf(j)
                      /\ \A k \in 1..StepCount(j) : runs[j].steps[k] = StepRecord(j, k)
    BY DEF RunMirrorsExecution, StepRecord
  <2>1. Mirrors(j)
    BY DEF RecInv, MirrorInv, TrackInv, CreatedInv
  <2>2. cb[j] = "load" /\ ~(pc[j] = "rejected" /\ Waiting(j))
    BY DEF UpToDate, Waiting
  <2>3. QED
    BY <2>1, <2>2 DEF Mirrors
<1>2. QED
  BY <1>1, RecInductive, TrackInductive, PTL

\* Types of the server's variables: a callback's scan stays inside the run it
\* has loaded (server.go:143-177), though the run may be another job's, and
\* only names of the pipeline's steps get into a record.
THEOREM DispatchTyping == DispatchSpec => []DispatchTypeOK
<1>1. IInv /\ LoopTypeOK /\ TrackInv /\ RecInv => DispatchTypeOK
  <2> SUFFICES ASSUME IInv, LoopTypeOK, TrackInv, RecInv PROVE DispatchTypeOK
    OBVIOUS
  <2>1. created \subseteq Jobs /\ activeRuns \in [Pipelines -> SUBSET Jobs]
    BY DEF TrackInv, CreatedInv, EntryInv
  <2>2. ASSUME NEW j \in Jobs
        PROVE  idx[j] \in 1..StepCount(held[j])
    <3>1. Name(held[j]) = Name(j)
      BY DEF TrackInv, HeldInv, RecInv, RecordInv
    <3>2. QED
      BY <3>1, SameSteps DEF RecInv, RecordInv
  <2>3. QED
    BY <2>1, <2>2 DEF DispatchTypeOK, IInv, TrackInv, HeldInv, TouchInv, RecInv, RecordInv
<1>2. QED
  BY <1>1, RecInductive, TrackInductive, ServerUsesPool, Inductive, LoopTyping, PTL
     DEF ImplementsPool
-------------------------------------------------------------------------------
(* A record that has ended *)

Waits(l, j) == loop[l] = [at |-> "wait", job |-> j]

\* Each submission has one dispatcher that waits for it, and until that one
\* has finished the run of a refused job nobody has.
WaiterInv ==
  /\ \A l \in Loops, j \in Jobs : Waits(l, j) => pc[j] # "idle"
  /\ \A l, m \in Loops, j \in Jobs : Waits(l, j) /\ Waits(m, j) => l = m
  /\ \A j \in Jobs \ crowded :
       pc[j] = "rejected" /\ Waiting(j) => runs[j].status \notin Terminal

KnownAll == KnownMore /\ WaiterInv

\* A step that lets nobody begin to wait.
LEMMA WaiterKeeps ==
  ASSUME WaiterInv, crowded \subseteq crowded',
         \A l \in Loops, j \in Jobs : Waits(l, j)' => Waits(l, j),
         \A j \in Jobs : pc'[j] = "idle" => pc[j] = "idle",
         \A j \in Jobs \ crowded : pc'[j] = "rejected" /\ Waiting(j)' =>
           \/ pc[j] = "rejected" /\ runs'[j] = runs[j]
           \/ runs'[j].status \notin Terminal
  PROVE  WaiterInv'
<1>1. \A j \in Jobs : Waiting(j)' => Waiting(j)
  BY DEF Waiting, Waits
<1>2. ASSUME NEW j \in Jobs \ crowded', pc'[j] = "rejected", Waiting(j)'
      PROVE  runs'[j].status \notin Terminal
  BY <1>1, <1>2 DEF WaiterInv
<1>3. QED
  BY <1>2 DEF WaiterInv

\* What an update of a record cannot be: one of a refused job that was never
\* crowded.
LEMMA RefusedIsAlone ==
  ASSUME KnownMore, NEW j \in Jobs, Callback(j), NEW i \in Jobs \ crowded
  PROVE  /\ pc[i] = "rejected" => runs'[i] = runs[i]
         /\ runs[i].status \in Terminal => runs'[i] = runs[i]
<1> USE DEF KnownMore, RecInv
<1>1. CASE runs' = runs
  BY <1>1
<1>2. CASE Apply(j)
  <2>1. cb[j] = "apply" /\ runs' = [runs EXCEPT ![held[j]] = Update(j, @)]
    BY <1>2 DEF Apply
  <2>2. CASE held[j] # i
    BY <2>1, <2>2 DEF RecordInv
  <2>3. CASE held[j] = i
    <3>1. i = j
      BY <2>1, <2>3, HeldIsOwn
    <3>2. pc[j] \in HookPoints
      BY <2>1 DEF Known, TrackInv, HeldInv
    <3>3. runs[j].status = RunStatusOf(j)
      BY <2>1, <3>1, <3>2 DEF MirrorInv, Mirrors, HookPoints
    <3>4. RunStatusOf(j) \in {"pending", "running"}
      BY <3>2 DEF RunStatusOf, HookPoints
    <3>5. QED
      BY <3>1, <3>2, <3>3, <3>4 DEF HookPoints, Terminal
  <2>4. QED
    BY <2>2, <2>3
<1>3. QED
  BY <1>1, <1>2 DEF Callback, Load, Scan, Delete

\* The record that a dispatcher finishes is that of the job it waits for.
LEMMA ReturnFinishes ==
  ASSUME Known, RecordInv, NEW l \in Loops, Return(l)
  PROVE  \E j \in Jobs :
           /\ Waits(l, j) /\ loop'[l] = AtRecv
           /\ pc[j] # "rejected" => runs' = runs
           /\ \A i \in Jobs \ {j} : runs'[i] = runs[i]
<1>1. PICK j : j = loop[l].job
  OBVIOUS
<1>2. j \in Jobs /\ loop[l] = [at |-> "wait", job |-> j]
  BY <1>1 DEF Return, Known, LoopTypeOK, LoopStates, AtRecv
<1>3. loop'[l] = AtRecv
  BY DEF Return, Known, LoopTypeOK
<1>4. IF pc[j] = "rejected" THEN runs' = [runs EXCEPT ![j] = Finish(@, TRUE)]
                            ELSE runs' = runs
  BY <1>1 DEF Return
<1>5. \A i \in Jobs \ {j} : runs'[i] = runs[i]
  BY <1>4 DEF RecordInv
<1>6. QED
  BY <1>2, <1>3, <1>4, <1>5 DEF Waits

LEMMA PoolRefuses ==
  ASSUME IInv, NEW j \in Jobs, PoolStep(j), NEW i \in Jobs, pc'[i] = "rejected"
  PROVE  pc[i] = "rejected" \/ pc[i] = "acquire"
<1> USE DEF IInv, TypeOK, Goto
<1>1. CASE Acquire(j) \/ Reject(j) \/ Begin(j) \/ Release(j) \/ WgDone(j)
  BY <1>1 DEF Acquire, Reject, Begin, Release, WgDone
<1>2. CASE Expire(j) \/ EmitSend(j)
  BY <1>2 DEF Expire, EmitSend
<1>3. CASE ExecStart(j) \/ ExecEnd(j)
  BY <1>3 DEF ExecStart, ExecEnd
<1>4. CASE EmitDone(j)
  BY <1>4 DEF EmitDone
<1>5. QED
  BY <1>1, <1>2, <1>3, <1>4 DEF PoolStep

LEMMA WaiterStep ==
  ASSUME KnownAll, [DispatchNext]_allVars
  PROVE  WaiterInv'
<1> USE DEF KnownAll, KnownMore, RecInv
<1>1. ASSUME NEW l \in Loops, Create(l) \/ Track(l)
      PROVE  WaiterInv'
  <2>1. /\ UNCHANGED <<pc, runs>> /\ crowded \subseteq crowded'
        /\ \A m \in Loops \ {l} : loop'[m] = loop[m]
        /\ loop'[l].at # "wait"
    BY <1>1 DEF Create, Track, vars, Known, LoopTypeOK, AtRecv
  <2>2. \A m \in Loops, j \in Jobs : Waits(m, j)' => Waits(m, j)
    BY <2>1 DEF Waits
  <2>3. QED
    BY <2>1, <2>2, WaiterKeeps
<1>2. ASSUME NEW l \in Loops, CallSubmit(l)
      PROVE  WaiterInv'
  <2>1. PICK j : j = loop[l].job
    OBVIOUS
  <2>2. /\ UNCHANGED <<runs, crowded>> /\ loop[l].at = "submit"
        /\ pc[j] = "idle" /\ pc' = [pc EXCEPT ![j] = "acquire"]
    BY <1>2, <2>1 DEF CallSubmit, Submit, Goto
  <2>3. /\ loop'[l] = [at |-> "wait", job |-> j]
        /\ \A m \in Loops \ {l} : loop'[m] = loop[m]
    BY <1>2, <2>1 DEF CallSubmit, Known, LoopTypeOK
  <2>4. j \in Jobs
    BY <2>1, <2>2 DEF Known, LoopTypeOK, LoopStates, AtRecv
  <2>5. /\ pc'[j] = "acquire"
        /\ \A i \in Jobs \ {j} : pc'[i] = pc[i]
    BY <2>2, <2>4 DEF Known, IInv, TypeOK
  <2>6. \A m \in Loops, i \in Jobs :
          Waits(m, i)' <=> (m = l /\ i = j) \/ (m # l /\ Waits(m, i))
    BY <2>3, <2>4 DEF Waits
  <2>7. \A m \in Loops : ~Waits(m, j)
    BY <2>2, <2>4 DEF WaiterInv
  <2>8. \A i \in Jobs \ {j} : Waiting(i)' => Waiting(i)
    BY <2>6 DEF Waiting, Waits
  <2>9. QED
    BY <2>2, <2>5, <2>6, <2>7, <2>8 DEF WaiterInv
<1>3. ASSUME NEW l \in Loops, Return(l)
      PROVE  WaiterInv'
  <2>1. PICK j \in Jobs : /\ Waits(l, j) /\ loop'[l] = AtRecv
                          /\ pc[j] # "rejected" => runs' = runs
                          /\ \A i \in Jobs \ {j} : runs'[i] = runs[i]
    BY <1>3, ReturnFinishes
  <2>2. UNCHANGED <<pc, crowded>> /\ \A m \in Loops \ {l} : loop'[m] = loop[m]
    BY <1>3 DEF Return, vars, Known, LoopTypeOK
  <2>3. \A m \in Loops, i \in Jobs : Waits(m, i)' => Waits(m, i) /\ m # l
    BY <2>1, <2>2 DEF Waits, AtRecv
  <2>4. ~Waiting(j)'
    BY <2>1, <2>3 DEF Waiting, Waits, WaiterInv
  <2>5. QED
    BY <2>1, <2>2, <2>3, <2>4, WaiterKeeps
<1>4. ASSUME NEW j \in Jobs, PoolStep(j)
      PROVE  WaiterInv'
  <2>1. UNCHANGED <<loop, runs, crowded>>
    BY <1>4 DEF PoolStep, serverVars
  <2>2. \A m \in Loops, i \in Jobs : Waits(m, i)' => Waits(m, i)
    BY <2>1 DEF Waits
  <2>3. \A i \in Jobs : pc'[i] = "idle" => pc[i] = "idle"
    BY <1>4, PoolMoves DEF Known
  <2>4. ASSUME NEW i \in Jobs \ crowded, pc'[i] = "rejected"
        PROVE  \/ pc[i] = "rejected" /\ runs'[i] = runs[i]
               \/ runs'[i].status \notin Terminal
    <3>1. CASE pc[i] = "acquire"
      <4>1. cb[i] = "load" /\ RunStatusOf(i) = "pending"
        BY <3>1 DEF Known, TrackInv, HeldInv, HookPoints, RunStatusOf
      <4>2. runs[i].status = "pending"
        BY <3>1, <4>1 DEF MirrorInv, Mirrors
      <4>3. QED
        BY <2>1, <4>2 DEF Terminal
    <3>2. QED
      BY <1>4, <2>1, <2>4, <3>1, PoolRefuses DEF Known
  <2>5. QED
    BY <2>1, <2>2, <2>3, <2>4, WaiterKeeps
<1>5. ASSUME NEW j \in Jobs, Callback(j)
      PROVE  WaiterInv'
  <2>1. UNCHANGED <<loop, crowded>>
    BY <1>5 DEF Callback, Load, Scan, Apply, Delete
  <2>2. \A m \in Loops, i \in Jobs : Waits(m, i)' => Waits(m, i)
    BY <2>1 DEF Waits
  <2>3. HookReturn(j) \/ UNCHANGED vars
    BY <1>5, CallbackIsPoolStep
  <2>4. \A i \in Jobs : pc'[i] \in {"idle", "rejected"} => pc[i] = pc'[i]
    BY <2>3, HookMoves DEF Known, vars, Over
  <2>5. ASSUME NEW i \in Jobs \ crowded, pc'[i] = "rejected"
        PROVE  pc[i] = "rejected" /\ runs'[i] = runs[i]
    BY <1>5, <2>4, <2>5, RefusedIsAlone
  <2>6. QED
    BY <2>1, <2>2, <2>4, <2>5, WaiterKeeps
<1>6. CASE ListenerEvent \/ PipelineEvent
  <2>1. PICK l \in Loops : loop[l] = AtRecv /\ \E m : Lookup(l, m)
    BY <1>6 DEF ListenerEvent, PipelineEvent, Loops
  <2>2. /\ \A m \in Loops \ {l} : loop'[m] = loop[m]
        /\ loop'[l].at \in {"recv", "create"}
    BY <2>1 DEF Lookup, Known, LoopTypeOK, AtRecv
  <2>3. UNCHANGED <<pc, runs, crowded>>
    BY <1>6 DEF ListenerEvent, PipelineEvent, Drain, vars
  <2>4. \A m \in Loops, i \in Jobs : Waits(m, i)' => Waits(m, i)
    BY <2>2 DEF Waits
  <2>5. QED
    BY <2>3, <2>4, WaiterKeeps
<1>7. CASE Signal \/ ServerWait \/ ServerExit \/ Stopped \/ UNCHANGED allVars
           \/ (\E names \in SUBSET Pipelines : Reload(names))
  <2>1. UNCHANGED <<pc, loop, runs, crowded>>
    BY <1>7 DEF Signal, Cancel, ServerWait, WaitCall, ServerExit, WaitReturn, Exit, Stopped,
       Reload, vars, allVars, serverVars
  <2>2. \A m \in Loops, i \in Jobs : Waits(m, i)' => Waits(m, i)
    BY <2>1 DEF Waits
  <2>3. QED
    BY <2>1, <2>2, WaiterKeeps
<1>8. QED
  BY <1>1, <1>2, <1>3, <1>4, <1>5, <1>6, <1>7 DEF DispatchNext, Dispatcher

\* A run that has ended is never written again, unless its execution has
\* overlapped another one of its pipeline: not by the hooks that are still to
\* come, nor by its dispatcher, which may be late (server.go:258-265), nor by a
\* later execution under the same name.
THEOREM EndedRunsAreFinal == DispatchSpec => EndedIsFinal
<1>1. DispatchInit => WaiterInv
  BY DEF DispatchInit, WaiterInv, Waits, Waiting, AtRecv
<1>2. IInv /\ LoopTypeOK /\ TrackInv /\ RecInv /\ WaiterInv /\ [DispatchNext]_allVars
        => WaiterInv'
  BY WaiterStep DEF KnownAll, KnownMore, Known
<1>3. IInv /\ LoopTypeOK /\ TrackInv /\ RecInv /\ WaiterInv /\ [DispatchNext]_allVars
        => [\A j \in Jobs \ crowded :
              runs[j].status \in Terminal => runs'[j] = runs[j]]_allVars
  <2> SUFFICES ASSUME KnownAll, DispatchNext, NEW j \in Jobs \ crowded,
                      runs[j].status \in Terminal
               PROVE  runs'[j] = runs[j]
    BY DEF KnownAll, KnownMore, Known, allVars, serverVars
  <2>1. ASSUME NEW i \in Jobs, Callback(i) PROVE runs'[j] = runs[j]
    BY <2>1, RefusedIsAlone DEF KnownAll
  <2>2. ASSUME NEW l \in Loops, Return(l) PROVE runs'[j] = runs[j]
    <3>1. PICK i \in Jobs : /\ Waits(l, i)
                            /\ pc[i] # "rejected" => runs' = runs
                            /\ \A k \in Jobs \ {i} : runs'[k] = runs[k]
      BY <2>2, ReturnFinishes DEF KnownAll, KnownMore, RecInv
    <3>2. CASE i = j /\ pc[j] = "rejected"
      <4>1. Waiting(j)
        BY <3>1, <3>2 DEF Waiting, Waits
      <4>2. QED
        BY <3>2, <4>1 DEF KnownAll, WaiterInv
    <3>3. QED
      BY <3>1, <3>2
  <2>3. CASE /\ ~\E i \in Jobs : Callback(i)
             /\ ~\E l \in Loops : Return(l)
    BY <2>3 DEF DispatchNext, Dispatcher, Create, Track, CallSubmit, PoolStep, serverVars,
       ListenerEvent, PipelineEvent, Signal, ServerWait, ServerExit, Stopped, allVars, Reload
  <2>4. QED
    BY <2>1, <2>2, <2>3
<1>4. QED
  BY <1>1, <1>2, <1>3, RecInductive, TrackInductive, ServerUsesPool, Inductive, LoopTyping, PTL
     DEF DispatchSpec, ImplementsPool, EndedIsFinal
===============================================================================
