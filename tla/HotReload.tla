------------------------------- MODULE HotReload -------------------------------
(***************************************************************************)
(* Pipeline files, their loader and the goroutine that watches them        *)
(* (cmd/server: loadPipelines, watchPipelineDirectories,                   *)
(* snapshotPipelineFiles, pipelineFilesChanged, ReloadPipelines...), with  *)
(* the two users of the store that look a name up under one lock and use   *)
(* the ID they found under another: dispatchPipeline and the API's         *)
(* handlePipelineRuns.                                                     *)
(*                                                                         *)
(* Each directory listing, stat and file read is a step of its own: files  *)
(* change between them.  The files stand for those of one directory, in    *)
(* the order os.ReadDir lists them.                                        *)
(***************************************************************************)
EXTENDS Store

CONSTANTS
  FileCount,     \* bound: the files are 1..FileCount
  Contents,      \* what a file can hold: records [name, steps]; one
                 \* that is no YAML reads as one without a name
  Times,         \* bound: the modification times there are
  InitialFiles,  \* the directories the server may be started on
  MaxRuns,       \* bound: how many runs are created, the runs being 1, 2, ...
  MaxFaults,     \* bound: listings and reads that fail although the files are there
  Clients        \* goroutines that dispatch a pipeline or answer the API

Files == 1..FileCount
Absent == [time |-> 0]
Held(fs) == {fs[f].time : f \in Files} \ {0}

ASSUME FilesAssumption ==
  /\ FileCount \in Nat /\ MaxRuns \in Nat
  /\ Times \subseteq Nat \ {0}
  /\ InitialFiles \subseteq
       [Files -> {Absent} \cup [time : Times, content : Contents]]

VARIABLES
  files,     \* files[f]: modification time and content, or Absent
  unused,    \* modification times no file has had yet
  at,        \* where the loader, then the watcher, stands
  todo,      \* entries of the current listing still to visit
  seen,      \* the snapshot being taken: times by file
  modTimes,  \* the snapshot of the last reload
  batch,     \* pipelines read by the reload under way
  loads,     \* loads so far, which makes the IDs of each load fresh
  found,     \* found[c]: the pipeline client c has looked up, as a set
  faults,    \* listings and reads that have failed
  misread,   \* history: the last load could not list or read what was there
  owner,     \* history: owner[r], the name run r was created for
  hist,      \* history: hist[n], runs of n since the name has been in the store
  doubled    \* history: names that two pipelines of the store have shared

watcherVars == <<at, todo, seen, modTimes, batch, loads, misread, faults>>
fileVars == <<files, unused>>
clientVars == <<found, owner>>
historyVars == <<hist, doubled>>
allVars == <<storeVars, watcherVars, fileVars, clientVars, historyVars>>

Running == at \notin {"start", "adding"}

Init ==
  /\ StoreInit
  /\ files \in InitialFiles
  /\ unused = Times \ Held(files)
  /\ at = "start"
  /\ todo = {} /\ seen = <<>> /\ modTimes = <<>> /\ batch = <<>>
  /\ loads = 0 /\ faults = 0
  /\ found = [c \in Clients |-> {}]
  /\ misread = FALSE
  /\ owner = <<>>
  /\ hist = [n \in {c.name : c \in Contents} |-> <<>>]
  /\ doubled = {}

-------------------------------------------------------------------------------
(* The world: files are written, with a time no file had before but not    *)
(* necessarily a later one (FreshTimes in the README), and removed.        *)

Write(f) ==
  /\ \E t \in unused, c \in Contents :
       /\ files' = [files EXCEPT ![f] = [time |-> t, content |-> c]]
       /\ unused' = unused \ {t}
  /\ UNCHANGED <<storeVars, watcherVars, clientVars, historyVars>>

Delete(f) ==
  /\ files[f] # Absent
  /\ files' = [files EXCEPT ![f] = Absent]
  /\ UNCHANGED <<unused, storeVars, watcherVars, clientVars, historyVars>>

-------------------------------------------------------------------------------
(* Loading *)

Listing == {f \in Files : files[f] # Absent}

\* The entries of a listing are visited in the order of their names.
Entry == Min(todo)
Rest == todo \ {Entry}

\* os.ReadDir, which may fail: nothing is visited then.
ReadDir(fails) ==
  /\ todo' = IF fails THEN {} ELSE Listing
  /\ fails => faults < MaxFaults
  /\ faults' = IF fails THEN faults + 1 ELSE faults

\* The listings that start a load, at start-up and in a reload.
List ==
  /\ at \in {"start", "reload"}
  /\ at' = IF at = "start" THEN "adding" ELSE "reading"
  /\ \E fails \in BOOLEAN : ReadDir(fails) /\ misread' = fails
  /\ UNCHANGED <<batch, seen, modTimes, loads, storeVars, fileVars, clientVars, historyVars>>

\* Faulty variant: the ID is made from the path of the file.
Loaded_PathID(f) == [id |-> <<0, f>>, name |-> files[f].content.name,
                     steps |-> files[f].content.steps]

\* loadPipelineFile: a name and at least one step are required; NewPipeline
\* is given the name and the steps; a pipeline-level emit is not decoded.
Loads(f) == /\ files[f] # Absent
            /\ files[f].content.name # "" /\ files[f].content.steps # <<>>
Loaded(f) == [id |-> <<loads, f>>, name |-> files[f].content.name,
              steps |-> files[f].content.steps]

\* How the store's names look after a step, and the histories with them.
TrackNames ==
  /\ hist' = [n \in DOMAIN hist |-> IF n \in Names /\ n \in Names' THEN hist[n] ELSE <<>>]
  /\ doubled' = {n \in Names' : n \in doubled \/ \E i, k \in Named(n)' : i # k}

\* The next file is read: it loads, or is skipped with an error.
Read ==
  /\ at \in {"adding", "reading"} /\ todo # {}
  /\ todo' = Rest
  /\ LET f == Entry IN
     \/ /\ Loads(f)
        /\ IF at = "adding"
           THEN AddPipeline(Loaded(f)) /\ TrackNames /\ UNCHANGED batch
           ELSE /\ batch' = Append(batch, Loaded(f))
                /\ UNCHANGED <<storeVars, historyVars>>
        /\ UNCHANGED <<misread, faults>>
     \/ /\ ~Loads(f)
        /\ UNCHANGED <<batch, misread, faults, storeVars, historyVars>>
     \/ /\ files[f] # Absent /\ faults < MaxFaults
        /\ faults' = faults + 1 /\ misread' = TRUE
        /\ UNCHANGED <<batch, storeVars, historyVars>>
  /\ UNCHANGED <<at, seen, modTimes, loads, fileVars, clientVars>>

\* Every file has been visited: the server starts, or the store is swapped.
Finish ==
  /\ at \in {"adding", "reading"} /\ todo = {}
  /\ loads' = loads + 1
  /\ \/ /\ at = "adding" /\ at' = "unwatched"
        /\ UNCHANGED <<storeVars, historyVars>>
     \/ /\ at = "reading" /\ at' = "idle"
        /\ ReplacePipelines(batch)
        /\ TrackNames
  /\ batch' = <<>>
  /\ UNCHANGED <<todo, seen, modTimes, misread, faults, fileVars, clientVars>>

-------------------------------------------------------------------------------
(* Watching *)

\* snapshotPipelineFiles, when the watcher starts and at every tick.
BeginSnapshot ==
  /\ at \in {"unwatched", "idle"}
  /\ at' = IF at = "unwatched" THEN "first" ELSE "stat"
  /\ \E fails \in BOOLEAN : ReadDir(fails)
  /\ seen' = <<>>
  /\ UNCHANGED <<modTimes, batch, loads, misread, storeVars, fileVars,
                 clientVars, historyVars>>

\* entry.Info fails for a file that has been removed since the listing.
Stat ==
  /\ at \in {"first", "stat"} /\ todo # {}
  /\ todo' = Rest
  /\ LET f == Entry IN
     seen' = IF files[f] = Absent THEN seen ELSE Put(seen, f, files[f].time)
  /\ UNCHANGED <<at, modTimes, batch, loads, misread, faults, storeVars, fileVars,
                 clientVars, historyVars>>

\* Faulty variant: only a later time is a change, as in the file watcher.
Changed_Later(old, current) ==
  \/ Cardinality(DOMAIN old) # Cardinality(DOMAIN current)
  \/ \E f \in DOMAIN current : f \notin DOMAIN old \/ current[f] > old[f]

\* pipelineFilesChanged
Changed(old, current) ==
  \/ Cardinality(DOMAIN old) # Cardinality(DOMAIN current)
  \/ \E f \in DOMAIN current : f \notin DOMAIN old \/ old[f] # current[f]

EndSnapshot ==
  /\ at \in {"first", "stat"} /\ todo = {}
  /\ IF at = "stat" /\ ~Changed(modTimes, seen)
     THEN at' = "idle" /\ UNCHANGED modTimes
     ELSE at' = (IF at = "first" THEN "idle" ELSE "reload") /\ modTimes' = seen
  /\ seen' = <<>>
  /\ UNCHANGED <<todo, batch, loads, misread, faults, storeVars, fileVars,
                 clientVars, historyVars>>

\* The context is cancelled: the select between two ticks sees it.
Stop ==
  /\ at = "idle"
  /\ at' = "stopped"
  /\ UNCHANGED <<todo, seen, modTimes, batch, loads, misread, faults, storeVars,
                 fileVars, clientVars, historyVars>>

-------------------------------------------------------------------------------
(* The users of the store *)

\* GetPipelineByName; an unknown name ends the request.
Find(c) ==
  /\ Running /\ found[c] = {}
  /\ \E n \in Names : \E id \in Named(n) :
       found' = [found EXCEPT ![c] = {[id |-> id, name |-> n]}]
  /\ UNCHANGED <<owner, storeVars, watcherVars, fileVars, historyVars>>

\* dispatchPipeline goes on with CreateRun(p.ID), which a reload since then
\* makes fail.
Dispatch(c) ==
  \E p \in found[c] :
    /\ found' = [found EXCEPT ![c] = {}]
    /\ \/ /\ p.id \notin DOMAIN pipelines
          /\ UNCHANGED <<storeVars, owner, hist>>
       \/ LET r == Cardinality(DOMAIN runs) + 1 IN
          /\ r <= MaxRuns
          /\ CreateRun(p.id, r)
          /\ owner' = Put(owner, r, p.name)
          /\ hist' = [hist EXCEPT ![p.name] = Append(@, r)]
    /\ UNCHANGED <<watcherVars, fileVars, doubled>>

\* handlePipelineRuns answers with RunsFor(p.ID).
Answer(c) ==
  /\ found[c] # {}
  /\ found' = [found EXCEPT ![c] = {}]
  /\ UNCHANGED <<owner, storeVars, watcherVars, fileVars, historyVars>>

Watcher == List \/ Read \/ Finish \/ BeginSnapshot \/ Stat \/ EndSnapshot

Next ==
  \/ Watcher \/ Stop
  \/ \E c \in Clients : Find(c) \/ Dispatch(c) \/ Answer(c)
  \/ \E f \in Files : Write(f) \/ Delete(f)

\* The watcher's goroutine is scheduled and its ticker fires.
Spec == Init /\ [][Next]_allVars /\ WF_allVars(Watcher)

-------------------------------------------------------------------------------
(* Safety *)

\* Types of the variables that are not histories.
TypeOK ==
  /\ files \in [Files -> {Absent} \cup [time : Times, content : Contents]]
  /\ Held(files) \cap unused = {}
  /\ at \in {"start", "adding", "unwatched", "first", "idle", "stat", "reload",
             "reading", "stopped"}
  /\ todo \subseteq Files
  /\ DOMAIN seen \cup DOMAIN modTimes \subseteq Files
  /\ DOMAIN runs \subseteq 1..MaxRuns
  /\ \A id \in DOMAIN pipelines : pipelines[id].id = id

\* The history and the back references of ReplacePipelines and CreateRun
\* agree: every run is listed under exactly one pipeline ID, once, and its
\* PipelineID is that ID, through any number of reloads and namesakes.
BackReferences ==
  \A r \in DOMAIN runs :
    /\ \A id \in DOMAIN byPipeline : r \in Range(byPipeline[id]) <=> id = runs[r]
    /\ runs[r] \in DOMAIN byPipeline
    /\ Cardinality({k \in DOMAIN byPipeline[runs[r]] : byPipeline[runs[r]][k] = r}) = 1

\* The history shown for a pipeline holds only runs of its name; and it is
\* the whole of them, in order, since the name came into the store, unless
\* two files have claimed the name meanwhile.
HistoryFollowsName ==
  \A id \in DOMAIN pipelines :
    LET n == pipelines[id].name IN
    /\ \A r \in Range(RunsFor(id)) : owner[r] = n
    /\ n \notin doubled => RunsFor(id) = hist[n]

\* An API answer never shows runs of another name: not even when reloads since
\* the lookup have taken the pipeline away and given its history to others.
AnswersAreOwn ==
  \A c \in Clients : \A p \in found[c] : \A r \in Range(RunsFor(p.id)) :
    owner[r] = p.name

(* Liveness *)

\* What the store would hold if the files were loaded now.
Wanted == {[name |-> files[f].content.name, steps |-> files[f].content.steps] :
             f \in {g \in Files : Loads(g)}}
Offered == {[name |-> p.name, steps |-> p.steps] : p \in Range(pipelines)}

FileTimes == [f \in {g \in Files : files[g] # Absent} |-> files[f].time]
Differs == /\ at \notin {"start", "adding", "unwatched", "first"}
           /\ FileTimes # modTimes

\* A file that was there when it was read, and at no snapshot around that.
Ghost == \E id \in DOMAIN pipelines :
           files[id[2]] = Absent /\ id[2] \notin DOMAIN modTimes

\* Whatever the files do between listing, stat and read: a difference from the
\* last snapshot is noticed or undone, and once the watcher has reloaded the
\* store comes back, again and again, to hold what the files say.  Excepted
\* are a file that the last load could not read, which nothing tries again,
\* and one that has come and gone between two snapshots.
StoreFollowsFiles ==
  /\ Differs ~> (~Differs \/ at = "stopped")
  /\ loads > 1 ~> (Offered = Wanted \/ misread \/ Ghost \/ at = "stopped")

(* What the documentation says *)

\* README: "each emitted event triggers a target pipeline by name", and the API
\* has the "execution history (runs) for a specific pipeline".  A client that is
\* done with a name which is in the store, has runs and is claimed by one file
\* has used the ID of that name: with another one its trigger is dropped, and
\* its answer is empty.
LookupsAreHonoured ==
  [][\A c \in Clients : \A p \in found[c] :
       p \notin found'[c] /\ p.name \in Names \ doubled /\ hist[p.name] # <<>>
         => p.id \in DOMAIN pipelines]_allVars
===============================================================================
