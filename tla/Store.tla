--------------------------------- MODULE Store ---------------------------------
(***************************************************************************)
(* The Store of internal/pipeline: pipelines by ID, runs, and the run      *)
(* history of each pipeline.  Every method holds the store's lock for its  *)
(* whole body and is one step.  A run is kept as the PipelineID it points  *)
(* back to.  IDs are fresh for every pipeline that is built.               *)
(***************************************************************************)
EXTENDS Naturals, Sequences, FiniteSets, SequencesExt

VARIABLES
  pipelines,   \* pipelines[id]: the Pipeline [id, name, steps]
  runs,        \* runs[r]: PipelineID of run r
  byPipeline   \* byPipeline[id]: the runs of id, in creation order

storeVars == <<pipelines, runs, byPipeline>>

Names == {p.name : p \in Range(pipelines)}

\* m[k] = v for a Go map: the key is added or overwritten.
Put(m, k, v) == [x \in DOMAIN m \cup {k} |-> IF x = k THEN v ELSE m[x]]

StoreInit ==
  /\ pipelines = <<>>
  /\ runs = <<>>
  /\ byPipeline = <<>>

\* GetPipelineByName returns the first match of a map iteration: any of these.
Named(n) == {id \in DOMAIN pipelines : pipelines[id].name = n}

RunsFor(id) == IF id \in DOMAIN byPipeline THEN byPipeline[id] ELSE <<>>

\* Faulty variant: the map is keyed by name.
AddPipeline_ByName(p) ==
  /\ pipelines' = Put(pipelines, p.name, p)
  /\ UNCHANGED <<runs, byPipeline>>

AddPipeline(p) ==
  /\ pipelines' = Put(pipelines, p.id, p)
  /\ UNCHANGED <<runs, byPipeline>>

CreateRun(id, r) ==
  /\ id \in DOMAIN pipelines
  /\ runs' = Put(runs, r, id)
  /\ byPipeline' = Put(byPipeline, id, Append(RunsFor(id), r))
  /\ UNCHANGED pipelines

\* oldByName keeps, for each name, the last pipeline of a map iteration.
OldByName ==
  {o \in [Names -> DOMAIN pipelines] : \A n \in Names : pipelines[o[n]].name = n}

\* The first of the new pipelines that is named like the old pipeline id; it
\* finds the history of id and takes it, so a later namesake finds none.
Heir(new, id) ==
  new[Min({k \in DOMAIN new : new[k].name = pipelines[id].name})].id

\* Faulty variant: only the pipelines are replaced.
Moved_None(old, new) == {}

\* The old pipelines whose history moves: there is one, and an heir.
Moved(old, new) ==
  {id \in Range(old) \cap DOMAIN byPipeline :
     \E p \in Range(new) : p.name = pipelines[id].name}

\* Faulty variant: a history that has moved is not deleted.
Kept_All(moved) == DOMAIN byPipeline

Kept(moved) == DOMAIN byPipeline \ moved

(* All pipelines are swapped for those of the sequence new.  The history of *)
(* the pipeline found under each name moves to its heir, and its runs are   *)
(* pointed there; a history without an heir stays under its old ID.         *)
ReplacePipelines(new) ==
  \E old \in OldByName :
    LET moved == Moved(old, new)
        heirs == {Heir(new, id) : id \in moved}
        Before(id) == CHOOSE i \in moved : Heir(new, i) = id
        Lister(r) == CHOOSE i \in moved : r \in Range(byPipeline[i])
    IN  /\ pipelines' = [id \in {p.id : p \in Range(new)} |->
                           CHOOSE p \in Range(new) : p.id = id]
        /\ byPipeline' = [id \in Kept(moved) \cup heirs |->
                            byPipeline[IF id \in heirs THEN Before(id) ELSE id]]
        /\ runs' = [r \in DOMAIN runs |->
                      IF \E i \in moved : r \in Range(byPipeline[i])
                      THEN Heir(new, Lister(r)) ELSE runs[r]]
===============================================================================
