----------------------------- MODULE TrackingProofs -----------------------------
(***************************************************************************)
(* Who writes into a run record, and what activeRuns holds when nothing is *)
(* in flight: theorems about the run tracking of Dispatch, for any         *)
(* pipelines, triggers and reloads.                                        *)
(***************************************************************************)
EXTENDS DispatchProofs

\* The job that some dispatcher has created a run for and not stored yet.
AtTrack(j) == \E l \in Loops : loop[l].at = "track" /\ loop[l].job = j

\* The last hook of j has returned: its callback has deleted the entry.
Ended(j) == \/ pc[j] \in {"release", "wgDone", "done"}
            \/ pc[j] = "emit" /\ step[j] > StepCount(j)

\* The same run, or two whose executions overlapped.
Crowd(j, r) == j = r \/ {j, r} \subseteq crowded

Holds(l) == loop[l].at \in {"track", "submit"}

\* A job is submitted after its run was created, by the one dispatcher that
\* created it.
CreatedInv ==
  /\ created \subseteq Jobs
  /\ \A j \in Jobs : pc[j] # "idle" => j \in created
  /\ \A l \in Loops : Holds(l) => loop[l].job \in created /\ pc[loop[l].job] = "idle"
  /\ \A l, m \in Loops : Holds(l) /\ Holds(m) /\ l # m => loop[l].job # loop[m].job

\* An entry of activeRuns is a run of that name that has been stored and whose
\* execution has not got past its last hook; and a job in flight finds there
\* its own run, or one that it has been crowded with.
EntryInv ==
  /\ activeRuns \in [Pipelines -> SUBSET created]
  /\ \A n \in Pipelines : \A r \in activeRuns[n] :
       Name(r) = n /\ ~Ended(r) /\ ~AtTrack(r)
  /\ \A j \in created : pc[j] \notin Over /\ ~AtTrack(j) =>
       \A r \in activeRuns[Name(j)] : Crowd(j, r)

\* A callback under way belongs to a hook that j is in, and has loaded such a
\* run.
HeldInv ==
  /\ cb \in [Jobs -> {"load", "scan", "apply", "delete"}]
  /\ held \in [Jobs -> Jobs]
  /\ crowded \subseteq Jobs
  /\ \A j \in Jobs : cb[j] # "load" =>
       pc[j] \in HookPoints /\ Name(held[j]) = Name(j) /\ Crowd(j, held[j])
  /\ \A j \in Jobs : cb[j] = "scan" => pc[j] \in StepHooks

TouchInv == touched \in [Jobs -> SUBSET Jobs] /\ UpdatesStayInCrowd

TrackInv == CreatedInv /\ EntryInv /\ HeldInv /\ TouchInv

\* What the steps are proved from.
Known == IInv /\ LoopTypeOK /\ TrackInv

-------------------------------------------------------------------------------
(* How the pool moves *)

\* A step of the pool that is no hook's return moves one job that is no longer
\* idle, not through a hook and not past its last one.
LEMMA PoolMoves ==
  ASSUME IInv, NEW j \in Jobs, PoolStep(j)
  PROVE  \/ UNCHANGED <<pc, step>>
         \/ /\ pc[j] \notin HookPoints \cup Over \cup {"idle"}
            /\ pc'[j] # "idle"
            /\ \A i \in Jobs \ {j} : pc'[i] = pc[i] /\ step'[i] = step[i]
            /\ Ended(j)' => Ended(j)
<1> USE DEF IInv, TypeOK, Goto, Ended, HookPoints, Over, StepCount
<1>1. CASE Acquire(j) \/ Reject(j) \/ Begin(j) \/ Release(j) \/ WgDone(j)
  BY <1>1 DEF Acquire, Reject, Begin, Release, WgDone
<1>2. CASE Expire(j) \/ EmitSend(j)
  BY <1>2 DEF Expire, EmitSend
<1>3. CASE ExecStart(j) \/ ExecEnd(j)
  BY <1>3 DEF ExecStart, ExecEnd
<1>4. CASE EmitDone(j)
  BY <1>4 DEF EmitDone
<1>5. QED
  BY <1>1, <1>2, <1>3, <1>4 DEF PoolStep

\* The return of a hook; only that of the last hook ends j.
LEMMA HookMoves ==
  ASSUME IInv, NEW j \in Jobs, HookReturn(j)
  PROVE  /\ pc[j] \in HookPoints
         /\ pc'[j] \notin Over \cup {"idle"}
         /\ \A i \in Jobs \ {j} : pc'[i] = pc[i]
         /\ step' = step
         /\ Ended(j)' => pc[j] \in LastHooks
<1>1. pc[j] = "stepCompleted" => ~(step[j] > StepCount(j))
  BY JobData DEF IInv, LoopInv, TypeOK
<1>2. QED
  BY <1>1 DEF HookReturn, AfterHook, IInv, TypeOK, Goto, Ended, HookPoints, Over,
     LastHooks, StepCount

\* The record a dispatcher stands with, as the two ways of writing it.
LEMMA TrackRecord ==
  ASSUME LoopTypeOK, NEW j
  PROVE  AtTrack(j) <=> \E l \in Loops : loop[l] = [at |-> "track", job |-> j]
<1>1. \A l \in Loops : loop[l] \in LoopStates
  BY DEF LoopTypeOK
<1>2. \A l \in Loops : loop[l].at = "track" =>
        loop[l] = [at |-> "track", job |-> loop[l].job]
  BY <1>1 DEF LoopStates, AtRecv
<1>3. QED
  BY <1>2 DEF AtTrack

-------------------------------------------------------------------------------
(* The steps *)

\* Where neither pc nor step change, the server's part decides alone.
LEMMA PoolStepKeeps ==
  ASSUME Known, NEW j \in Jobs, PoolStep(j)
  PROVE  TrackInv'
<1>0. UNCHANGED serverVars
  BY DEF PoolStep
<1>1. CASE UNCHANGED <<pc, step>>
  BY <1>0, <1>1 DEF Known, TrackInv, CreatedInv, EntryInv, HeldInv, TouchInv,
     UpdatesStayInCrowd, serverVars, Holds, AtTrack, Ended, Crowd
<1>2. CASE /\ pc[j] \notin HookPoints \cup Over \cup {"idle"}
           /\ pc'[j] # "idle"
           /\ \A i \in Jobs \ {j} : pc'[i] = pc[i] /\ step'[i] = step[i]
           /\ Ended(j)' => Ended(j)
  <2>1. CreatedInv'
    BY <1>0, <1>2 DEF Known, TrackInv, CreatedInv, serverVars, Holds
  <2>2. EntryInv'
    <3>1. \A i \in Jobs : Ended(i)' => Ended(i)
      BY <1>2 DEF Ended
    <3>2. \A i : AtTrack(i)' <=> AtTrack(i)
      BY <1>0 DEF serverVars, AtTrack
    <3>3. \A i \in Jobs : pc'[i] \notin Over => pc[i] \notin Over
      BY <1>2
    <3>4. QED
      BY <1>0, <3>1, <3>2, <3>3
         DEF Known, TrackInv, CreatedInv, EntryInv, serverVars, Crowd
  <2>3. HeldInv'
    BY <1>0, <1>2 DEF Known, TrackInv, HeldInv, serverVars, Crowd, StepHooks, HookPoints
  <2>4. TouchInv'
    BY <1>0 DEF Known, TrackInv, TouchInv, UpdatesStayInCrowd, serverVars
  <2>5. QED
    BY <2>1, <2>2, <2>3, <2>4 DEF TrackInv
<1>3. QED
  BY <1>1, <1>2, PoolMoves DEF Known

\* A dispatcher that neither is at "track" or "submit" afterwards, nor was,
\* changes nothing that matters here.
LEMMA LoopKeeps ==
  ASSUME Known, NEW l \in Loops, ~Holds(l), Holds(l)' = FALSE,
         \A m \in Loops \ {l} : loop'[m] = loop[m],
         UNCHANGED <<pc, step, created, activeRuns, cb, held, touched, crowded>>
  PROVE  TrackInv'
<1>1. \A m \in Loops : Holds(m)' => Holds(m) /\ loop'[m] = loop[m]
  BY DEF Holds
<1>2. \A i : AtTrack(i)' => AtTrack(i)
  BY <1>1 DEF AtTrack, Holds
<1>3. \A i : AtTrack(i) => AtTrack(i)'
  BY DEF AtTrack, Holds
<1>4. CreatedInv'
  BY <1>1 DEF Known, TrackInv, CreatedInv
<1>5. EntryInv'
  BY <1>2, <1>3 DEF Known, TrackInv, EntryInv, Ended, Crowd
<1>6. HeldInv' /\ TouchInv'
  BY DEF Known, TrackInv, HeldInv, TouchInv, UpdatesStayInCrowd, Crowd
<1>7. QED
  BY <1>4, <1>5, <1>6 DEF TrackInv

\* CreateRun.
LEMMA CreateKeeps ==
  ASSUME Known, NEW l \in Loops, Create(l)
  PROVE  TrackInv'
<1>0. UNCHANGED <<pc, step, activeRuns, cb, held, touched, crowded>>
  BY DEF Create, vars
<1>1. CASE loop[l].gen # gen /\ loop' = [loop EXCEPT ![l] = AtRecv] /\ created' = created
  <2>1. loop'[l] = AtRecv /\ \A m \in Loops \ {l} : loop'[m] = loop[m]
    BY <1>1 DEF Known, LoopTypeOK
  <2>2. ~Holds(l) /\ Holds(l)' = FALSE
    BY <2>1 DEF Create, Holds, AtRecv
  <2>3. QED
    BY <1>0, <1>1, <2>1, <2>2, LoopKeeps
<1>2. ASSUME NEW j \in Jobs \ created,
             created' = created \cup {j},
             loop' = [loop EXCEPT ![l] = [at |-> "track", job |-> j]]
      PROVE  TrackInv'
  <2>1. /\ loop'[l] = [at |-> "track", job |-> j]
        /\ \A m \in Loops \ {l} : loop'[m] = loop[m]
    BY <1>2 DEF Known, LoopTypeOK
  <2>2. pc[j] = "idle" /\ ~Holds(l)
    BY DEF Known, TrackInv, CreatedInv, Create, Holds
  <2>3. CreatedInv'
    BY <1>0, <1>2, <2>1, <2>2 DEF Known, TrackInv, CreatedInv, Holds
  <2>4. \A i : AtTrack(i)' <=> AtTrack(i) \/ i = j
    <3>1. loop[l].at # "track"
      BY DEF Create
    <3>2. QED
      BY <2>1, <3>1 DEF AtTrack
  <2>5. EntryInv'
    BY <1>0, <1>2, <2>4 DEF Known, TrackInv, EntryInv, Ended, Crowd
  <2>6. HeldInv' /\ TouchInv'
    BY <1>0 DEF Known, TrackInv, HeldInv, TouchInv, UpdatesStayInCrowd, Crowd
  <2>7. QED
    BY <2>3, <2>5, <2>6 DEF TrackInv
<1>3. QED
  BY <1>1, <1>2 DEF Create

\* activeRuns.Store: whoever is tracked under the name is crowded from now on.
LEMMA TrackKeeps ==
  ASSUME Known, NEW l \in Loops, Track(l)
  PROVE  TrackInv'
<1> DEFINE j == loop[l].job
           others == {i \in Jobs : Tracked(i) /\ Name(i) = Name(j)}
<1>0. UNCHANGED <<pc, step, created, cb, held, touched>>
  BY DEF Track, vars
<1>1. /\ loop'[l] = [at |-> "submit", job |-> j]
      /\ \A m \in Loops \ {l} : loop'[m] = loop[m]
  BY DEF Track, Known, LoopTypeOK
<1>2. /\ Holds(l) /\ Holds(l)' /\ loop[l].at = "track" /\ loop'[l].job = j
      /\ j \in created /\ j \in Jobs /\ pc[j] = "idle"
  BY <1>1 DEF Track, Holds, Known, TrackInv, CreatedInv
<1>3. Name(j) \in Pipelines
  BY <1>2, JobData DEF Name
<1>4. /\ crowded' = IF others = {} THEN crowded ELSE crowded \cup others \cup {j}
      /\ activeRuns' = [activeRuns EXCEPT ![Name(j)] = {j}]
  BY DEF Track
<1>5. CreatedInv'
  BY <1>0, <1>1, <1>2 DEF Known, TrackInv, CreatedInv, Holds
<1>6. \A i : AtTrack(i)' <=> AtTrack(i) /\ i # j
  <2>1. \A m \in Loops \ {l} : loop[m].at = "track" => loop[m].job # j
    BY <1>2 DEF Known, TrackInv, CreatedInv, Holds
  <2>2. QED
    BY <1>1, <1>2, <2>1 DEF AtTrack
<1>7. crowded \subseteq crowded' /\ crowded' \subseteq Jobs
  BY <1>2, <1>4 DEF Known, TrackInv, HeldInv
<1>8. EntryInv'
  <2>1. activeRuns' \in [Pipelines -> SUBSET created']
    BY <1>0, <1>2, <1>3, <1>4 DEF Known, TrackInv, EntryInv
  <2>2. ASSUME NEW n \in Pipelines, NEW r \in activeRuns'[n]
        PROVE  Name(r) = n /\ ~Ended(r)' /\ ~AtTrack(r)'
    <3>1. CASE n = Name(j)
      <4>1. r = j
        BY <2>2, <3>1, <1>3, <1>4 DEF Known, TrackInv, EntryInv
      <4>2. QED
        BY <4>1, <3>1, <1>0, <1>2, <1>6 DEF Ended
    <3>2. CASE n # Name(j)
      <4>1. r \in activeRuns[n]
        BY <2>2, <3>2, <1>4 DEF Known, TrackInv, EntryInv
      <4>2. QED
        BY <4>1, <1>0, <1>6 DEF Known, TrackInv, EntryInv, Ended
    <3>3. QED
      BY <3>1, <3>2
  <2>3. ASSUME NEW i \in created, pc[i] \notin Over, ~AtTrack(i)',
               NEW r \in activeRuns'[Name(i)]
        PROVE  Crowd(i, r)'
    <3>0. i \in Jobs /\ Name(i) \in Pipelines
      BY JobData DEF Name, Known, TrackInv, CreatedInv
    <3>1. CASE Name(i) = Name(j) /\ i # j
      <4>1. i \in others
        <5>1. ~AtTrack(i)
          BY <2>3, <3>1, <1>6
        <5>2. QED
          BY <2>3, <3>0, <3>1, <5>1, TrackRecord DEF Tracked, Known
      <4>2. r = j
        BY <2>3, <3>1, <1>3, <1>4 DEF Known, TrackInv, EntryInv
      <4>3. QED
        BY <4>1, <4>2, <1>4 DEF Crowd
    <3>2. CASE i = j
      BY <2>3, <3>2, <1>3, <1>4 DEF Known, TrackInv, EntryInv, Crowd
    <3>3. CASE Name(i) # Name(j)
      <4>1. r \in activeRuns[Name(i)] /\ ~AtTrack(i)
        BY <2>3, <3>0, <3>3, <1>4, <1>6 DEF Known, TrackInv, EntryInv
      <4>2. Crowd(i, r)
        BY <4>1, <2>3 DEF Known, TrackInv, EntryInv
      <4>3. QED
        BY <4>2, <1>7 DEF Crowd
    <3>4. QED
      BY <3>1, <3>2, <3>3
  <2>4. QED
    BY <2>1, <2>2, <2>3, <1>0 DEF EntryInv
<1>9. HeldInv' /\ TouchInv'
  BY <1>0, <1>7 DEF Known, TrackInv, HeldInv, TouchInv, UpdatesStayInCrowd, Crowd
<1>10. QED
  BY <1>5, <1>8, <1>9 DEF TrackInv

\* The call of Submit.
LEMMA SubmitKeeps ==
  ASSUME Known, NEW l \in Loops, CallSubmit(l)
  PROVE  TrackInv'
<1> DEFINE j == loop[l].job
<1>0. UNCHANGED <<step, created, activeRuns, cb, held, touched, crowded>>
  BY DEF CallSubmit, Submit
<1>1. /\ loop'[l] = [at |-> "wait", job |-> j]
      /\ \A m \in Loops \ {l} : loop'[m] = loop[m]
      /\ loop[l].at = "submit" /\ Holds(l) /\ Holds(l)' = FALSE
  BY DEF CallSubmit, Known, LoopTypeOK, Holds
<1>2. j \in created /\ j \in Jobs /\ pc[j] = "idle"
  BY <1>1 DEF Known, TrackInv, CreatedInv
<1>3. pc' = [pc EXCEPT ![j] = "acquire"]
  BY DEF CallSubmit, Submit, Goto
<1>4. pc'[j] = "acquire" /\ \A i \in Jobs \ {j} : pc'[i] = pc[i]
  BY <1>2, <1>3 DEF Known, IInv, TypeOK
<1>5. \A i : AtTrack(i)' <=> AtTrack(i)
  BY <1>1 DEF AtTrack
<1>6. CreatedInv'
  BY <1>0, <1>1, <1>2, <1>4 DEF Known, TrackInv, CreatedInv, Holds
<1>7. \A i \in Jobs : (Ended(i)' => Ended(i)) /\ (pc'[i] \notin Over => pc[i] \notin Over)
  BY <1>0, <1>2, <1>4 DEF Ended, Over
<1>8. EntryInv'
  BY <1>0, <1>5, <1>7 DEF Known, TrackInv, CreatedInv, EntryInv, Crowd
<1>9. HeldInv' /\ TouchInv'
  BY <1>0, <1>2, <1>4 DEF Known, TrackInv, HeldInv, TouchInv, UpdatesStayInCrowd, Crowd,
     HookPoints
<1>10. QED
  BY <1>6, <1>8, <1>9 DEF TrackInv

\* Submit returns; with an error the dispatcher finishes its own run.
LEMMA ReturnKeeps ==
  ASSUME Known, NEW l \in Loops, Return(l)
  PROVE  TrackInv'
<1> DEFINE j == loop[l].job
<1>1. /\ loop'[l] = AtRecv
      /\ \A m \in Loops \ {l} : loop'[m] = loop[m]
      /\ loop[l].at = "wait" /\ loop[l] \in LoopStates
  BY DEF Return, Known, LoopTypeOK
<1>2. ~Holds(l) /\ Holds(l)' = FALSE /\ j \in Jobs
  BY <1>1 DEF Holds, AtRecv, LoopStates
<1>3. UNCHANGED <<pc, step, created, activeRuns, cb, held, crowded>>
  BY DEF Return, vars
<1>4. touched' = touched \/ touched' = [touched EXCEPT ![j] = @ \cup {j}]
  BY DEF Return
<1>5. TouchInv'
  BY <1>2, <1>3, <1>4 DEF Known, TrackInv, TouchInv, UpdatesStayInCrowd
<1>6. \A m \in Loops : Holds(m)' => Holds(m) /\ loop'[m] = loop[m]
  BY <1>1, <1>2 DEF Holds
<1>7. \A i : AtTrack(i)' <=> AtTrack(i)
  BY <1>1 DEF AtTrack, AtRecv
<1>8. CreatedInv' /\ HeldInv'
  BY <1>3, <1>6 DEF Known, TrackInv, CreatedInv, HeldInv, Crowd
<1>9. EntryInv'
  BY <1>3, <1>7 DEF Known, TrackInv, EntryInv, Ended, Crowd
<1>10. QED
  BY <1>5, <1>8, <1>9 DEF TrackInv

\* The part of a callback's step that lets the worker go on.
LEMMA CallbackReturnKeeps ==
  ASSUME Known, NEW j \in Jobs, CallbackReturn(j),
         pc[j] \in LastHooks => \A n \in Pipelines : j \notin activeRuns'[n],
         \A n \in Pipelines : activeRuns'[n] \subseteq activeRuns[n],
         activeRuns' \in [Pipelines -> SUBSET created],
         TouchInv', UNCHANGED <<loop, created, crowded>>
  PROVE  TrackInv'
<1>1. /\ pc[j] \in HookPoints
      /\ pc'[j] \notin Over \cup {"idle"}
      /\ \A i \in Jobs \ {j} : pc'[i] = pc[i]
      /\ step' = step
      /\ Ended(j)' => pc[j] \in LastHooks
  BY HookMoves DEF Known, CallbackReturn
<1>2. \A i : AtTrack(i)' <=> AtTrack(i)
  BY DEF AtTrack
<1>3. pc[j] \notin Over \cup {"idle"}
  BY <1>1 DEF HookPoints, Over
<1>4. CreatedInv'
  BY <1>1, <1>3 DEF Known, TrackInv, CreatedInv, Holds
<1>5. ASSUME NEW n \in Pipelines, NEW r \in activeRuns'[n]
      PROVE  Name(r) = n /\ ~Ended(r)' /\ ~AtTrack(r)'
  <2>1. r \in activeRuns[n] /\ r \in Jobs
    BY <1>5 DEF Known, TrackInv, EntryInv, CreatedInv
  <2>2. Name(r) = n /\ ~Ended(r) /\ ~AtTrack(r)
    BY <2>1 DEF Known, TrackInv, EntryInv
  <2>3. ~Ended(r)'
    <3>1. CASE r = j
      BY <3>1, <1>1, <1>5
    <3>2. CASE r # j
      BY <3>2, <2>1, <2>2, <1>1 DEF Ended
    <3>3. QED
      BY <3>1, <3>2
  <2>4. QED
    BY <2>2, <2>3, <1>2
<1>6. ASSUME NEW i \in created, pc'[i] \notin Over, ~AtTrack(i)',
             NEW r \in activeRuns'[Name(i)]
      PROVE  Crowd(i, r)'
  <2>1. i \in Jobs /\ Name(i) \in Pipelines
    BY JobData DEF Name, Known, TrackInv, CreatedInv
  <2>2. r \in activeRuns[Name(i)] /\ pc[i] \notin Over /\ ~AtTrack(i)
    BY <2>1, <1>1, <1>2, <1>3, <1>6
  <2>3. QED
    BY <2>2 DEF Known, TrackInv, EntryInv, Crowd
<1>7. EntryInv'
  BY <1>5, <1>6 DEF EntryInv
<1>8. HeldInv'
  <2>1. /\ cb' = [cb EXCEPT ![j] = "load"]
        /\ held' = [held EXCEPT ![j] = j]
    BY DEF CallbackReturn
  <2>2. /\ cb'[j] = "load"
        /\ \A i \in Jobs \ {j} : cb'[i] = cb[i] /\ held'[i] = held[i]
    BY <2>1 DEF Known, TrackInv, HeldInv
  <2>3. QED
    BY <2>1, <2>2, <1>1 DEF Known, TrackInv, HeldInv, Crowd
<1>9. QED
  BY <1>4, <1>7, <1>8 DEF TrackInv

\* Load: what j finds under its name it may write into.
LEMMA LoadKeeps ==
  ASSUME Known, NEW j \in Jobs, Load(j)
  PROVE  TrackInv'
<1>0. UNCHANGED <<loop, created, activeRuns, touched, crowded>> /\ pc[j] \in HookPoints
  BY DEF Load
<1>1. Name(j) \in Pipelines
  BY JobData DEF Name
<1>2. CASE activeRuns[Name(j)] = {} /\ CallbackReturn(j)
  <2>1. \A n \in Pipelines : j \notin activeRuns'[n]
    BY <1>0, <1>2 DEF Known, TrackInv, EntryInv
  <2>2. TouchInv'
    BY <1>0 DEF Known, TrackInv, TouchInv, UpdatesStayInCrowd
  <2>3. activeRuns' \in [Pipelines -> SUBSET created]
    BY <1>0 DEF Known, TrackInv, EntryInv
  <2>4. QED
    BY <1>0, <1>2, <2>1, <2>2, <2>3, CallbackReturnKeeps
<1>3. ASSUME NEW r \in activeRuns[Name(j)],
             held' = [held EXCEPT ![j] = r],
             cb' = [cb EXCEPT ![j] = IF pc[j] \in StepHooks THEN "scan" ELSE "apply"],
             UNCHANGED vars
      PROVE  TrackInv'
  <2>0. pc' = pc /\ step' = step
    BY <1>3 DEF vars
  <2>1. r \in Jobs /\ Name(r) = Name(j)
    BY <1>1 DEF Known, TrackInv, EntryInv, CreatedInv
  <2>2. j \in created /\ pc[j] \notin Over
    BY <1>0 DEF Known, TrackInv, CreatedInv, HookPoints, Over
  <2>3. ~AtTrack(j)
    BY <1>0 DEF AtTrack, Known, TrackInv, CreatedInv, Holds, HookPoints
  <2>4. Crowd(j, r)
    BY <2>2, <2>3 DEF Known, TrackInv, EntryInv
  <2>5. HeldInv'
    <3>1. /\ held'[j] = r /\ cb'[j] = IF pc[j] \in StepHooks THEN "scan" ELSE "apply"
          /\ \A i \in Jobs \ {j} : cb'[i] = cb[i] /\ held'[i] = held[i]
      BY <1>3 DEF Known, TrackInv, HeldInv
    <3>2. cb' \in [Jobs -> {"load", "scan", "apply", "delete"}] /\ held' \in [Jobs -> Jobs]
      BY <1>3, <2>1 DEF Known, TrackInv, HeldInv
    <3>3. QED
      BY <1>0, <2>0, <2>1, <2>4, <3>1, <3>2 DEF Known, TrackInv, HeldInv, Crowd
  <2>6. CreatedInv' /\ EntryInv' /\ TouchInv'
    BY <1>0, <2>0 DEF Known, TrackInv, CreatedInv, EntryInv, TouchInv,
       UpdatesStayInCrowd, Holds, AtTrack, Ended, Crowd
  <2>7. QED
    BY <2>5, <2>6 DEF TrackInv
<1>4. QED
  BY <1>2, <1>3 DEF Load

\* Scan: it moves on in the run it holds, or the hook is over.
LEMMA ScanKeeps ==
  ASSUME Known, NEW j \in Jobs, Scan(j)
  PROVE  TrackInv'
<1>0. UNCHANGED <<loop, created, activeRuns, touched, crowded>> /\ cb[j] = "scan"
  BY DEF Scan
<1>1. TouchInv'
  BY <1>0 DEF Known, TrackInv, TouchInv, UpdatesStayInCrowd
<1>2. CASE CallbackReturn(j)
  <2>1. pc[j] \notin LastHooks
    BY <1>0 DEF Known, TrackInv, HeldInv, StepHooks, LastHooks
  <2>2. activeRuns' \in [Pipelines -> SUBSET created]
    BY <1>0 DEF Known, TrackInv, EntryInv
  <2>3. QED
    BY <1>0, <1>1, <1>2, <2>1, <2>2, CallbackReturnKeeps
<1>3. CASE (cb' = cb \/ cb' = [cb EXCEPT ![j] = "apply"]) /\ UNCHANGED <<vars, held>>
  <2>0. pc' = pc /\ step' = step
    BY <1>3 DEF vars
  <2>1. HeldInv'
    BY <1>0, <1>3, <2>0 DEF Known, TrackInv, HeldInv, Crowd
  <2>2. CreatedInv' /\ EntryInv'
    BY <1>0, <2>0 DEF Known, TrackInv, CreatedInv, EntryInv, Holds, AtTrack, Ended, Crowd
  <2>3. QED
    BY <1>1, <2>1, <2>2 DEF TrackInv
<1>4. QED
  BY <1>2, <1>3 DEF Scan

\* Apply: the method of the run that is held.
LEMMA ApplyKeeps ==
  ASSUME Known, NEW j \in Jobs, Apply(j)
  PROVE  TrackInv'
<1>0. /\ UNCHANGED <<loop, created, activeRuns, crowded>>
      /\ cb[j] = "apply"
      /\ touched' = [touched EXCEPT ![held[j]] = @ \cup {j}]
  BY DEF Apply
<1>1. TouchInv'
  <2>1. held[j] \in Jobs /\ Name(held[j]) = Name(j) /\ Crowd(j, held[j])
    BY <1>0 DEF Known, TrackInv, HeldInv
  <2>2. touched' \in [Jobs -> SUBSET Jobs]
    BY <1>0, <2>1 DEF Known, TrackInv, TouchInv
  <2>3. ASSUME NEW r \in Jobs, NEW i \in touched'[r]
        PROVE  Name(i) = Name(r) /\ (i = r \/ (i \in crowded /\ r \in crowded))
    <3>1. i \in touched[r] \/ (r = held[j] /\ i = j)
      BY <1>0, <2>1, <2>3 DEF Known, TrackInv, TouchInv
    <3>2. QED
      BY <3>1, <2>1 DEF Known, TrackInv, TouchInv, UpdatesStayInCrowd, Crowd
  <2>4. QED
    BY <1>0, <2>2, <2>3 DEF TouchInv, UpdatesStayInCrowd
<1>2. CASE pc[j] \notin LastHooks /\ CallbackReturn(j)
  <2>1. activeRuns' \in [Pipelines -> SUBSET created]
    BY <1>0 DEF Known, TrackInv, EntryInv
  <2>2. QED
    BY <1>0, <1>1, <1>2, <2>1, CallbackReturnKeeps
<1>3. CASE cb' = [cb EXCEPT ![j] = "delete"] /\ UNCHANGED <<vars, held>>
  <2>0. pc' = pc /\ step' = step
    BY <1>3 DEF vars
  <2>1. HeldInv'
    BY <1>0, <1>3, <2>0 DEF Known, TrackInv, HeldInv, Crowd
  <2>2. CreatedInv' /\ EntryInv'
    BY <1>0, <2>0 DEF Known, TrackInv, CreatedInv, EntryInv, Holds, AtTrack, Ended, Crowd
  <2>3. QED
    BY <1>1, <2>1, <2>2 DEF TrackInv
<1>4. QED
  BY <1>2, <1>3 DEF Apply

\* Delete: the name holds nothing any more, so nothing of j.
LEMMA DeleteKeeps ==
  ASSUME Known, NEW j \in Jobs, Delete(j)
  PROVE  TrackInv'
<1>0. /\ UNCHANGED <<loop, created, touched, crowded>>
      /\ activeRuns' = [activeRuns EXCEPT ![Name(j)] = {}]
      /\ CallbackReturn(j)
  BY DEF Delete
<1>1. activeRuns \in [Pipelines -> SUBSET created]
  BY DEF Known, TrackInv, EntryInv
<1>2. /\ activeRuns' \in [Pipelines -> SUBSET created]
      /\ \A n \in Pipelines : activeRuns'[n] \subseteq activeRuns[n]
  BY <1>0, <1>1
<1>3. ASSUME NEW n \in Pipelines PROVE j \notin activeRuns'[n]
  BY <1>0, <1>1 DEF Known, TrackInv, EntryInv
<1>4. TouchInv'
  BY <1>0 DEF Known, TrackInv, TouchInv, UpdatesStayInCrowd
<1>5. QED
  BY <1>0, <1>2, <1>3, <1>4, CallbackReturnKeeps

\* Events, reloads, the signal and the main goroutine.
LEMMA OtherKeeps ==
  ASSUME Known,
         \/ ListenerEvent \/ PipelineEvent \/ Signal \/ ServerWait \/ ServerExit
         \/ Stopped \/ (\E names \in SUBSET Pipelines : Reload(names)) \/ UNCHANGED allVars
  PROVE  TrackInv'
<1>1. CASE ListenerEvent \/ PipelineEvent
  <2>1. PICK l \in Loops : loop[l] = AtRecv /\ \E n : Lookup(l, n)
    BY <1>1 DEF ListenerEvent, PipelineEvent, Loops
  <2>2. /\ \A m \in Loops \ {l} : loop'[m] = loop[m]
        /\ loop'[l].at \in {"recv", "create"}
    BY <2>1 DEF Lookup, Known, LoopTypeOK, AtRecv
  <2>3. UNCHANGED <<pc, step, created, activeRuns, cb, held, touched, crowded>>
    BY <1>1 DEF ListenerEvent, PipelineEvent, Drain, vars
  <2>4. ~Holds(l) /\ Holds(l)' = FALSE
    BY <2>1, <2>2 DEF Holds, AtRecv
  <2>5. QED
    BY <2>2, <2>3, <2>4, LoopKeeps
<1>2. CASE ~(ListenerEvent \/ PipelineEvent)
  <2>1. UNCHANGED <<pc, step, loop, created, activeRuns, cb, held, touched, crowded>>
    BY <1>2 DEF Signal, Cancel, ServerWait, WaitCall, ServerExit, WaitReturn, Exit, Stopped,
       Reload, vars, allVars, serverVars
  <2>2. QED
    BY <2>1 DEF Known, TrackInv, CreatedInv, EntryInv, HeldInv, TouchInv,
       UpdatesStayInCrowd, Holds, AtTrack, Ended, Crowd
<1>3. QED
  BY <1>1, <1>2

-------------------------------------------------------------------------------
(* The theorems *)

\* The invariant holds of every behaviour of the server.
LEMMA TrackInductive == DispatchSpec => []TrackInv
<1>1. DispatchInit => TrackInv
  <2> SUFFICES ASSUME DispatchInit PROVE TrackInv
    OBVIOUS
  <2>1. CreatedInv
    BY DEF DispatchInit, Init, CreatedInv, Holds, AtRecv
  <2>2. EntryInv
    BY DEF DispatchInit, EntryInv
  <2>3. HeldInv /\ TouchInv
    BY DEF DispatchInit, HeldInv, TouchInv, UpdatesStayInCrowd
  <2>4. QED
    BY <2>1, <2>2, <2>3 DEF TrackInv
<1>2. IInv /\ LoopTypeOK /\ TrackInv /\ [DispatchNext]_allVars => TrackInv'
  <2> SUFFICES ASSUME Known, [DispatchNext]_allVars PROVE TrackInv'
    BY DEF Known
  <2>1. ASSUME NEW l \in Loops, Dispatcher(l) PROVE TrackInv'
    BY <2>1, CreateKeeps, TrackKeeps, SubmitKeeps, ReturnKeeps DEF Dispatcher
  <2>2. ASSUME NEW j \in Jobs, Callback(j) PROVE TrackInv'
    BY <2>2, LoadKeeps, ScanKeeps, ApplyKeeps, DeleteKeeps DEF Callback
  <2>3. ASSUME NEW j \in Jobs, PoolStep(j) PROVE TrackInv'
    BY <2>3, PoolStepKeeps
  <2>4. QED
    BY <2>1, <2>2, <2>3, OtherKeeps DEF DispatchNext
<1>3. QED
  BY <1>1, <1>2, ServerUsesPool, Inductive, LoopTyping, PTL DEF DispatchSpec, ImplementsPool

\* A run record is updated by executions of its own pipeline only, and by its
\* own execution alone unless the two were in flight together: the map from
\* names to runs (server.go:188, 256-264) mixes up nothing else.
THEOREM UpdatesAreOwn == DispatchSpec => []UpdatesStayInCrowd
<1>1. TrackInv => UpdatesStayInCrowd
  BY DEF TrackInv, TouchInv
<1>2. QED
  BY <1>1, TrackInductive, PTL

\* When no execution of a pipeline is in flight, activeRuns holds under its
\* name nothing, or a run that was refused by Submit (server.go:188, 258).
THEOREM EntriesAreCleared == DispatchSpec => []NoStaleEntry
<1>1. TrackInv /\ LoopTypeOK => NoStaleEntry
  <2> SUFFICES ASSUME TrackInv, LoopTypeOK, NEW n \in Pipelines,
                      \A j \in Jobs : Name(j) = n => ~Tracked(j),
                      NEW r \in activeRuns[n]
               PROVE  pc[r] = "rejected"
    BY DEF NoStaleEntry
  <2>1. r \in created /\ r \in Jobs /\ Name(r) = n /\ ~Ended(r) /\ ~AtTrack(r)
    BY DEF TrackInv, EntryInv, CreatedInv
  <2>2. pc[r] \in Over
    BY <2>1, TrackRecord DEF Tracked
  <2>3. QED
    BY <2>1, <2>2 DEF Over, Ended
<1>2. QED
  BY <1>1, TrackInductive, LoopTyping, PTL
===============================================================================
