---------------------------- MODULE HotReloadProofs ----------------------------
(***************************************************************************)
(* Theorems about HotReload and the Store below it, for any files, times,  *)
(* contents, clients and number of runs: run histories survive any number  *)
(* of reloads under the name they belong to.                               *)
(***************************************************************************)
EXTENDS HotReload, Minimum, FiniteSetTheorems, TLAPS

\* Every run is listed under the pipeline ID it points back to, once.
StoreInv ==
  /\ \A id \in DOMAIN pipelines : pipelines[id].id = id
  /\ \A id \in DOMAIN byPipeline : byPipeline[id] \in Seq(DOMAIN runs)
  /\ \A id \in DOMAIN byPipeline : \A k \in DOMAIN byPipeline[id] :
       runs[byPipeline[id][k]] = id
  /\ \A id \in DOMAIN byPipeline : \A i, k \in DOMAIN byPipeline[id] :
       byPipeline[id][i] = byPipeline[id][k] => i = k
  /\ \A r \in DOMAIN runs :
       /\ runs[r] \in DOMAIN byPipeline
       /\ \E k \in DOMAIN byPipeline[runs[r]] : byPipeline[runs[r]][k] = r

AllNames == {c.name : c \in Contents}
OldIds == (0..(loads - 1)) \X Files
Loading == at \in {"start", "adding"}

\* What a file can be loaded as.
Loadable == [id : Nat \X Files, name : AllNames, steps : {c.steps : c \in Contents}]

\* The sequence new has pipelines with IDs of this load, each of its own.
FreshBatch(new) ==
  /\ new \in Seq(Loadable)
  /\ \A k \in DOMAIN new : /\ \E f \in Files \ todo : new[k].id = <<loads, f>>
                           /\ new[k].name \in AllNames
  /\ \A i, k \in DOMAIN new : new[i].id = new[k].id => i = k

\* IDs of earlier loads are all there are outside the load under way, so that
\* the IDs it makes are fresh; and there are no runs before the first reload
\* can happen.
LoadInv ==
  /\ loads \in Nat /\ (Loading => loads = 0)
  /\ todo \subseteq Files
  /\ DOMAIN pipelines \subseteq (IF Loading THEN {0} \X Files ELSE OldIds)
  /\ \A id \in DOMAIN pipelines : pipelines[id].name \in AllNames
  /\ DOMAIN byPipeline \subseteq OldIds
  /\ FreshBatch(batch) /\ (at # "reading" => batch = <<>>)

\* The runs listed under the ID of a pipeline that was found are of its name.
OwnRuns(p) ==
  p.id \in DOMAIN byPipeline =>
    \A k \in DOMAIN byPipeline[p.id] : owner[byPipeline[p.id][k]] = p.name

\* A client holds the name its pipeline had, and still has if it is there; what
\* is listed under the ID it holds, then or long after, are runs of that name.
FoundInv ==
  /\ found \in [Clients -> SUBSET [id : OldIds, name : AllNames]]
  /\ Loading => \A c \in Clients : found[c] = {}
  /\ \A c \in Clients : \A p \in found[c] :
       p.id \in DOMAIN pipelines => pipelines[p.id].name = p.name
  /\ \A c \in Clients : \A p \in found[c] : OwnRuns(p)

\* The runs are numbered, so that the next number is free.
RunsInv ==
  /\ \E m \in 0..MaxRuns : DOMAIN runs = 1..m
  /\ DOMAIN owner = DOMAIN runs

\* What a history says: runs of the name, and unless the name was claimed
\* twice, all of them.
HistInv ==
  /\ DOMAIN hist = AllNames
  /\ doubled \subseteq Names
  /\ \A id \in DOMAIN pipelines \cap DOMAIN byPipeline :
       \A k \in DOMAIN byPipeline[id] : owner[byPipeline[id][k]] = pipelines[id].name
  /\ \A i, k \in DOMAIN pipelines :
       pipelines[i].name = pipelines[k].name /\ pipelines[i].name \notin doubled => i = k
  /\ \A id \in DOMAIN pipelines :
       pipelines[id].name \notin doubled => RunsFor(id) = hist[pipelines[id].name]
  /\ \A n \in AllNames \ Names : hist[n] = <<>>

\* The files and the snapshots.
FilesInv ==
  /\ files \in [Files -> {Absent} \cup [time : Times, content : Contents]]
  /\ unused \subseteq Times /\ Held(files) \cap unused = {}
  /\ at \in {"start", "adding", "unwatched", "first", "idle", "stat", "reload",
             "reading", "stopped"}
  /\ DOMAIN seen \subseteq Files /\ DOMAIN modTimes \subseteq Files

ReloadInv == StoreInv /\ LoadInv /\ FoundInv /\ RunsInv /\ HistInv /\ FilesInv

-------------------------------------------------------------------------------
(* The swap of the pipelines *)

\* What a swap does: each history that moves is the one listed for a pipeline
\* of its own name, its heir is a pipeline of that name, no other history
\* moves there, and the only pipeline of a name takes its history along.
Moves(new, moved) ==
  /\ \A i \in moved : \E k \in DOMAIN new :
       Heir(new, i) = new[k].id /\ new[k].name = pipelines[i].name
  /\ \A i, j \in moved : Heir(new, i) = Heir(new, j) => i = j
  /\ DOMAIN byPipeline' = (DOMAIN byPipeline \ moved) \cup {Heir(new, i) : i \in moved}
  /\ \A i \in moved : byPipeline'[Heir(new, i)] = byPipeline[i]
  /\ \A id \in DOMAIN byPipeline \ moved : byPipeline'[id] = byPipeline[id]
  /\ DOMAIN runs' = DOMAIN runs
  /\ \A r \in DOMAIN runs :
       runs'[r] = IF runs[r] \in moved THEN Heir(new, runs[r]) ELSE runs[r]
  /\ \A i \in DOMAIN pipelines \cap DOMAIN byPipeline : \A k \in DOMAIN new :
       /\ new[k].name = pipelines[i].name
       /\ \A j \in DOMAIN pipelines : pipelines[j].name = pipelines[i].name => j = i
       => i \in moved

\* The heir of a history is the first of the new pipelines of its name.
LEMMA HeirIs ==
  ASSUME NEW new, DOMAIN new \in SUBSET Nat, NEW id,
         \E k \in DOMAIN new : new[k].name = pipelines[id].name
  PROVE  \E k \in DOMAIN new : Heir(new, id) = new[k].id /\ new[k].name = pipelines[id].name
<1> DEFINE T == {k \in DOMAIN new : new[k].name = pipelines[id].name}
<1>1. T \in SUBSET Nat /\ T # {}
  OBVIOUS
<1>2. Min(T) \in T
  BY <1>1, MinNat
<1>3. Heir(new, id) = new[Min(T)].id
  BY DEF Heir
<1>4. QED
  BY <1>2, <1>3

LEMMA SwapMoves ==
  ASSUME StoreInv, LoadInv, ~Loading, NEW new, FreshBatch(new), ReplacePipelines(new)
  PROVE  \E moved \in SUBSET (DOMAIN pipelines \cap DOMAIN byPipeline) : Moves(new, moved)
<1>1. PICK old \in OldByName :
        /\ byPipeline' =
             [id \in Kept(Moved(old, new)) \cup {Heir(new, i) : i \in Moved(old, new)} |->
                byPipeline[IF id \in {Heir(new, i) : i \in Moved(old, new)}
                           THEN CHOOSE i \in Moved(old, new) : Heir(new, i) = id
                           ELSE id]]
        /\ runs' = [r \in DOMAIN runs |->
                      IF \E i \in Moved(old, new) : r \in Range(byPipeline[i])
                      THEN Heir(new, CHOOSE i \in Moved(old, new) : r \in Range(byPipeline[i]))
                      ELSE runs[r]]
  BY DEF ReplacePipelines
<1> DEFINE M == Moved(old, new)
           H(i) == Heir(new, i)
<1>2. /\ old \in [Names -> DOMAIN pipelines]
      /\ \A n \in Names : pipelines[old[n]].name = n
  BY DEF OldByName
<1>3. \A i \in M : /\ i \in DOMAIN pipelines \cap DOMAIN byPipeline
                   /\ \E n \in Names : i = old[n]
                   /\ \E k \in DOMAIN new : new[k].name = pipelines[i].name
  BY <1>2 DEF Moved, Range
<1>4. ASSUME NEW i \in M
      PROVE  \E k \in DOMAIN new : H(i) = new[k].id /\ new[k].name = pipelines[i].name
  <2>1. DOMAIN new \in SUBSET Nat
    BY DEF FreshBatch
  <2>2. QED
    BY <1>3, <2>1, HeirIs
<1>5. \A i, j \in M : pipelines[i].name = pipelines[j].name => i = j
  BY <1>2, <1>3
<1>6. ASSUME NEW i \in M, NEW j \in M, H(i) = H(j)
      PROVE  i = j
  <2>1. PICK k \in DOMAIN new : H(i) = new[k].id /\ new[k].name = pipelines[i].name
    BY <1>4
  <2>2. PICK l \in DOMAIN new : H(j) = new[l].id /\ new[l].name = pipelines[j].name
    BY <1>4
  <2>3. k = l
    BY <1>6, <2>1, <2>2 DEF FreshBatch
  <2>4. QED
    BY <1>5, <2>1, <2>2, <2>3
<1>7. \A i \in M : H(i) \notin DOMAIN byPipeline
  <2>1. \A k \in DOMAIN new : new[k].id \notin OldIds
    BY DEF FreshBatch, OldIds, LoadInv
  <2>2. QED
    BY <1>4, <2>1 DEF LoadInv
<1>8. /\ DOMAIN byPipeline' = (DOMAIN byPipeline \ M) \cup {H(i) : i \in M}
      /\ DOMAIN runs' = DOMAIN runs
  BY <1>1 DEF Kept
<1>9. ASSUME NEW i \in M
      PROVE  byPipeline'[H(i)] = byPipeline[i]
  <2> HIDE DEF M, H
  <2>1. (CHOOSE j \in M : H(j) = H(i)) = i
    BY <1>6
  <2>2. byPipeline'[H(i)] = byPipeline[CHOOSE j \in M : H(j) = H(i)]
    BY <1>1 DEF M, H
  <2>3. QED
    BY <2>1, <2>2
<1>10. \A id \in DOMAIN byPipeline \ M : byPipeline'[id] = byPipeline[id]
  BY <1>1, <1>7 DEF Kept
<1>11. ASSUME NEW r \in DOMAIN runs
       PROVE  runs'[r] = IF runs[r] \in M THEN H(runs[r]) ELSE runs[r]
  <2> HIDE DEF M
  <2>1. \A i \in M : r \in Range(byPipeline[i]) <=> i = runs[r]
    BY <1>3 DEF StoreInv, Range
  <2>2. CASE runs[r] \in M
    <3>1. (CHOOSE i \in M : r \in Range(byPipeline[i])) = runs[r]
      BY <2>1, <2>2
    <3>2. \E i \in M : r \in Range(byPipeline[i])
      BY <2>1, <2>2
    <3>3. runs'[r] = H(CHOOSE i \in M : r \in Range(byPipeline[i]))
      BY <1>1, <3>2 DEF M
    <3>4. QED
      BY <2>2, <3>1, <3>3
  <2>3. CASE runs[r] \notin M
    <3>1. ~\E i \in M : r \in Range(byPipeline[i])
      BY <2>1, <2>3
    <3>2. QED
      BY <1>1, <2>3, <3>1 DEF M
  <2>4. QED
    BY <2>2, <2>3
<1>12. ASSUME NEW i \in DOMAIN pipelines \cap DOMAIN byPipeline, NEW k \in DOMAIN new,
              new[k].name = pipelines[i].name,
              \A j \in DOMAIN pipelines : pipelines[j].name = pipelines[i].name => j = i
       PROVE  i \in M
  <2>1. pipelines[i].name \in Names
    BY DEF Names, Range
  <2>2. old[pipelines[i].name] = i
    BY <1>2, <1>12, <2>1
  <2>3. i \in Range(old)
    BY <1>2, <2>1, <2>2 DEF Range
  <2>4. QED
    BY <1>12, <2>3 DEF Moved, Range
<1>13. QED
  <2>1. M \in SUBSET (DOMAIN pipelines \cap DOMAIN byPipeline)
    BY <1>3
  <2> HIDE DEF M
  <2>2. QED
    BY <1>4, <1>6, <1>8, <1>9, <1>10, <1>11, <1>12, <2>1 DEF Moves

\* The store then holds the pipelines of the load, each under its own ID.
LEMMA SwapPipelines ==
  ASSUME NEW new, FreshBatch(new), ReplacePipelines(new)
  PROVE  /\ DOMAIN pipelines' = {new[k].id : k \in DOMAIN new}
         /\ \A k \in DOMAIN new : pipelines'[new[k].id] = new[k]
<1>1. pipelines' = [id \in {p.id : p \in Range(new)} |-> CHOOSE p \in Range(new) : p.id = id]
  BY DEF ReplacePipelines
<1>2. {p.id : p \in Range(new)} = {new[k].id : k \in DOMAIN new}
  BY DEF Range
<1>3. ASSUME NEW k \in DOMAIN new
      PROVE  pipelines'[new[k].id] = new[k]
  <2>1. \A p \in Range(new) : p.id = new[k].id => p = new[k]
    BY DEF Range, FreshBatch
  <2>2. new[k] \in Range(new)
    BY DEF Range
  <2>3. (CHOOSE p \in Range(new) : p.id = new[k].id) = new[k]
    BY <2>1, <2>2
  <2>4. QED
    BY <1>1, <2>2, <2>3
<1>4. QED
  BY <1>1, <1>2, <1>3

\* The swap renames the keys of the histories, and the back references alike.
LEMMA SwapRenames ==
  ASSUME StoreInv, LoadInv, ~Loading, NEW new, FreshBatch(new), ReplacePipelines(new)
  PROVE  \E to : /\ DOMAIN byPipeline' = {to[j] : j \in DOMAIN byPipeline}
                 /\ \A j \in DOMAIN byPipeline : byPipeline'[to[j]] = byPipeline[j]
                 /\ DOMAIN runs' = DOMAIN runs
                 /\ \A r \in DOMAIN runs : runs'[r] = to[runs[r]]
<1>1. PICK moved \in SUBSET (DOMAIN pipelines \cap DOMAIN byPipeline) : Moves(new, moved)
  BY SwapMoves
<1>2. PICK to : to = [j \in DOMAIN byPipeline |-> IF j \in moved THEN Heir(new, j) ELSE j]
  OBVIOUS
<1>3. \A r \in DOMAIN runs : runs[r] \in DOMAIN byPipeline
  BY DEF StoreInv
<1>4. DOMAIN byPipeline' = {to[j] : j \in DOMAIN byPipeline}
  BY <1>1, <1>2 DEF Moves
<1>5. \A j \in DOMAIN byPipeline : byPipeline'[to[j]] = byPipeline[j]
  BY <1>1, <1>2 DEF Moves
<1>6. \A r \in DOMAIN runs : runs'[r] = to[runs[r]]
  BY <1>1, <1>2, <1>3 DEF Moves
<1>7. QED
  BY <1>1, <1>4, <1>5, <1>6 DEF Moves

LEMMA SwapStore ==
  ASSUME StoreInv, LoadInv, ~Loading, NEW new, FreshBatch(new), ReplacePipelines(new)
  PROVE  StoreInv'
<1>1. PICK to : /\ DOMAIN byPipeline' = {to[j] : j \in DOMAIN byPipeline}
                /\ \A j \in DOMAIN byPipeline : byPipeline'[to[j]] = byPipeline[j]
                /\ DOMAIN runs' = DOMAIN runs
                /\ \A r \in DOMAIN runs : runs'[r] = to[runs[r]]
  BY SwapRenames
<1>2. ASSUME NEW id \in DOMAIN pipelines'
      PROVE  pipelines'[id].id = id
  <2>1. /\ DOMAIN pipelines' = {new[k].id : k \in DOMAIN new}
        /\ \A k \in DOMAIN new : pipelines'[new[k].id] = new[k]
    BY SwapPipelines
  <2>2. QED
    BY <2>1
<1>3. ASSUME NEW j \in DOMAIN byPipeline
      PROVE  /\ byPipeline'[to[j]] \in Seq(DOMAIN runs')
             /\ \A k \in DOMAIN byPipeline'[to[j]] : runs'[byPipeline'[to[j]][k]] = to[j]
             /\ \A i, k \in DOMAIN byPipeline'[to[j]] :
                  byPipeline'[to[j]][i] = byPipeline'[to[j]][k] => i = k
  <2>1. byPipeline[j] \in Seq(DOMAIN runs)
    BY DEF StoreInv
  <2>2. \A k \in DOMAIN byPipeline[j] : byPipeline[j][k] \in DOMAIN runs
    BY <2>1
  <2>3. QED
    BY <1>1, <2>1, <2>2 DEF StoreInv
<1>4. ASSUME NEW r \in DOMAIN runs
      PROVE  /\ runs'[r] \in DOMAIN byPipeline'
             /\ \E k \in DOMAIN byPipeline'[runs'[r]] : byPipeline'[runs'[r]][k] = r
  BY <1>1 DEF StoreInv
<1>5. ASSUME NEW id \in DOMAIN byPipeline'
      PROVE  /\ byPipeline'[id] \in Seq(DOMAIN runs')
             /\ \A k \in DOMAIN byPipeline'[id] : runs'[byPipeline'[id][k]] = id
             /\ \A i, k \in DOMAIN byPipeline'[id] :
                  byPipeline'[id][i] = byPipeline'[id][k] => i = k
  <2>1. PICK j \in DOMAIN byPipeline : id = to[j]
    BY <1>1
  <2>2. QED
    BY <1>3, <2>1
<1>6. QED
  BY <1>1, <1>2, <1>4, <1>5 DEF StoreInv

\* The histories a name shows after a swap are those it showed before.
LEMMA SwapHist ==
  ASSUME StoreInv, LoadInv, HistInv, ~Loading, NEW new, FreshBatch(new),
         ReplacePipelines(new), TrackNames, owner' = owner
  PROVE  HistInv'
<1>1. PICK moved \in SUBSET (DOMAIN pipelines \cap DOMAIN byPipeline) : Moves(new, moved)
  BY SwapMoves
<1>2. /\ DOMAIN pipelines' = {new[k].id : k \in DOMAIN new}
      /\ \A k \in DOMAIN new : pipelines'[new[k].id] = new[k]
  BY SwapPipelines
<1>3. \A k \in DOMAIN new : new[k].id \notin DOMAIN byPipeline
  BY DEF FreshBatch, OldIds, LoadInv
<1>4. ASSUME NEW id \in DOMAIN pipelines' \cap DOMAIN byPipeline'
      PROVE  \E i \in moved : /\ pipelines[i].name = pipelines'[id].name
                              /\ byPipeline'[id] = byPipeline[i]
  <2>1. PICK i \in moved : id = Heir(new, i)
    BY <1>1, <1>2, <1>3 DEF Moves
  <2>2. QED
    BY <1>1, <1>2, <2>1 DEF Moves
<1>5. \A id \in DOMAIN pipelines' \cap DOMAIN byPipeline' :
        \A k \in DOMAIN byPipeline'[id] : owner'[byPipeline'[id][k]] = pipelines'[id].name
  BY <1>4 DEF HistInv
<1>6. \A i, k \in DOMAIN pipelines' :
        pipelines'[i].name = pipelines'[k].name /\ pipelines'[i].name \notin doubled' => i = k
  BY DEF TrackNames, Names, Named, Range
<1>7. ASSUME NEW id \in DOMAIN pipelines', NEW n, n = pipelines'[id].name, n \notin doubled'
      PROVE  RunsFor(id)' = hist'[n]
  <2>1. n \in Names' /\ n \notin doubled
    BY <1>7 DEF TrackNames, Names, Range
  <2>2. n \in AllNames
    BY <1>2, <1>7 DEF FreshBatch
  <2>3. CASE n \in Names
    <3>1. PICK o \in DOMAIN pipelines : pipelines[o].name = n
      BY <2>3 DEF Names, Range
    <3>2. \A j \in DOMAIN pipelines : pipelines[j].name = n => j = o
      BY <2>1, <3>1 DEF HistInv
    <3>3. hist'[n] = RunsFor(o)
      BY <2>1, <2>2, <2>3, <3>1 DEF HistInv, TrackNames
    <3>4. CASE o \in DOMAIN byPipeline
      <4>1. PICK k \in DOMAIN new : id = new[k].id /\ new[k].name = n
        BY <1>2, <1>7
      <4>2. o \in moved
        BY <1>1, <3>1, <3>2, <3>4, <4>1 DEF Moves
      <4>3. PICK l \in DOMAIN new : Heir(new, o) = new[l].id /\ new[l].name = n
        BY <1>1, <3>1, <4>2 DEF Moves
      <4>4. new[l].id = id
        BY <1>2, <1>6, <1>7, <4>3
      <4>5. id \in DOMAIN byPipeline' /\ byPipeline'[id] = byPipeline[o]
        BY <1>1, <4>2, <4>3, <4>4 DEF Moves
      <4>6. QED
        BY <3>3, <3>4, <4>5 DEF RunsFor
    <3>5. CASE o \notin DOMAIN byPipeline
      <4>1. id \notin DOMAIN byPipeline'
        BY <1>4, <1>7, <3>2, <3>5
      <4>2. QED
        BY <3>3, <3>5, <4>1 DEF RunsFor
    <3>6. QED
      BY <3>4, <3>5
  <2>4. CASE n \notin Names
    <3>1. id \notin DOMAIN byPipeline'
      BY <1>4, <1>7, <2>4 DEF Names, Range
    <3>2. hist'[n] = <<>>
      BY <2>2, <2>4 DEF HistInv, TrackNames
    <3>3. QED
      BY <3>1, <3>2 DEF RunsFor
  <2>5. QED
    BY <2>3, <2>4
<1>8. DOMAIN hist' = AllNames /\ doubled' \subseteq Names'
  BY DEF HistInv, TrackNames
<1>9. \A n \in AllNames \ Names' : hist'[n] = <<>>
  BY DEF HistInv, TrackNames
<1>10. QED
  BY <1>5, <1>6, <1>7, <1>8, <1>9 DEF HistInv, AllNames

-------------------------------------------------------------------------------
(* The steps *)

\* A step that leaves the store, the load under way and the clients alone
\* keeps what is said of them.
LEMMA NothingLoaded ==
  ASSUME ReloadInv, UNCHANGED <<storeVars, historyVars, clientVars, loads, batch>>,
         todo' \in SUBSET Files, todo' \subseteq todo \/ batch = <<>>,
         Loading' <=> Loading, at' # "reading" => batch = <<>>
  PROVE  StoreInv' /\ LoadInv' /\ FoundInv' /\ RunsInv' /\ HistInv'
<1> USE DEF ReloadInv, storeVars, historyVars, clientVars
<1>1. StoreInv'
  BY DEF StoreInv
<1>2. FreshBatch(batch)'
  BY DEF FreshBatch, LoadInv, Loadable
<1>3. LoadInv'
  BY <1>2 DEF LoadInv, OldIds, Loading
<1>4. FoundInv'
  BY DEF FoundInv, OwnRuns, OldIds, Loading
<1>5. RunsInv'
  BY DEF RunsInv
<1>6. HistInv'
  BY DEF HistInv, Names, RunsFor
<1>7. QED
  BY <1>1, <1>3, <1>4, <1>5, <1>6

LEMMA FilesChange ==
  ASSUME ReloadInv, NEW f \in Files, Write(f) \/ Delete(f)
  PROVE  ReloadInv'
<1> USE DEF ReloadInv
<1>1. StoreInv' /\ LoadInv' /\ FoundInv' /\ RunsInv' /\ HistInv'
  BY NothingLoaded DEF Write, Delete, watcherVars, clientVars, historyVars, LoadInv, Loading
<1>2. FilesInv'
  <2>1. CASE Write(f)
    <3>1. PICK t \in unused, c \in Contents :
            /\ files' = [files EXCEPT ![f] = [time |-> t, content |-> c]]
            /\ unused' = unused \ {t}
      BY <2>1 DEF Write
    <3>2. UNCHANGED <<at, seen, modTimes>>
      BY <2>1 DEF Write, watcherVars
    <3>3. files' \in [Files -> {Absent} \cup [time : Times, content : Contents]]
      BY <3>1 DEF FilesInv
    <3>4. Held(files') \cap unused' = {}
      BY <3>1 DEF FilesInv, Held
    <3>5. QED
      BY <3>1, <3>2, <3>3, <3>4 DEF FilesInv
  <2>2. CASE Delete(f)
    <3>1. files' = [files EXCEPT ![f] = Absent] /\ UNCHANGED <<unused, at, seen, modTimes>>
      BY <2>2 DEF Delete, watcherVars
    <3>2. files' \in [Files -> {Absent} \cup [time : Times, content : Contents]]
      BY <3>1 DEF FilesInv
    <3>3. Held(files') \cap unused' = {}
      BY <3>1 DEF FilesInv, Held, Absent
    <3>4. QED
      BY <3>1, <3>2, <3>3 DEF FilesInv
  <2>3. QED
    BY <2>1, <2>2
<1>3. QED
  BY <1>1, <1>2

\* The entry visited next is one of the listing.
LEMMA EntryListed ==
  ASSUME todo \in SUBSET Files, todo # {}
  PROVE  Entry \in todo /\ Entry \in Files
<1>1. Files \in SUBSET Nat
  BY FilesAssumption DEF Files
<1>2. QED
  BY <1>1, MinNat DEF Entry

\* Listings, stats and the comparison of snapshots.
LEMMA Watching ==
  ASSUME ReloadInv, List \/ BeginSnapshot \/ Stat \/ EndSnapshot \/ Stop
  PROVE  ReloadInv'
<1> USE DEF ReloadInv
<1>1. todo' \in SUBSET Files
  BY DEF List, BeginSnapshot, Stat, EndSnapshot, Stop, ReadDir, Listing, Rest, LoadInv
<1>2. StoreInv' /\ LoadInv' /\ FoundInv' /\ RunsInv' /\ HistInv'
  <2>1. Loading' <=> Loading
    BY DEF List, BeginSnapshot, Stat, EndSnapshot, Stop, Loading
  <2>2. batch = <<>>
    BY DEF List, BeginSnapshot, Stat, EndSnapshot, Stop, LoadInv
  <2>3. UNCHANGED <<storeVars, historyVars, clientVars, loads, batch>>
    BY DEF List, BeginSnapshot, Stat, EndSnapshot, Stop
  <2>4. QED
    BY <1>1, <2>1, <2>2, <2>3, NothingLoaded
<1>3. UNCHANGED <<files, unused>>
  BY DEF List, BeginSnapshot, Stat, EndSnapshot, Stop, fileVars
<1>4. DOMAIN seen' \subseteq Files /\ DOMAIN modTimes' \subseteq Files
  <2>1. CASE List \/ Stop
    BY <2>1 DEF List, Stop, FilesInv
  <2>2. CASE BeginSnapshot \/ EndSnapshot
    BY <2>2 DEF BeginSnapshot, EndSnapshot, FilesInv
  <2>3. CASE Stat
    <3>1. Entry \in Files
      BY <2>3, EntryListed DEF Stat, LoadInv
    <3>2. QED
      BY <2>3, <3>1 DEF Stat, Put, FilesInv
  <2>4. QED
    BY <2>1, <2>2, <2>3
<1>5. at' \in {"start", "adding", "unwatched", "first", "idle", "stat", "reload",
               "reading", "stopped"}
  BY DEF List, BeginSnapshot, Stat, EndSnapshot, Stop, FilesInv
<1>6. FilesInv'
  BY <1>3, <1>4, <1>5 DEF FilesInv, Held
<1>7. QED
  BY <1>2, <1>6

\* A file that is read: at start-up its pipeline joins the store, in a reload
\* the batch.
LEMMA ReadAdds ==
  ASSUME ReloadInv, at = "adding", todo # {}, Loads(Entry), Rest = todo',
         AddPipeline(Loaded(Entry)), TrackNames,
         UNCHANGED <<at, seen, modTimes, loads, batch, fileVars, clientVars>>
  PROVE  ReloadInv'
<1> USE DEF ReloadInv
<1>1. Entry \in Files
  BY EntryListed DEF LoadInv
<1>2. PICK p : p = Loaded(Entry)
  OBVIOUS
<1>3. /\ p.id = <<0, Entry>> /\ p.name \in AllNames
  <2>1. loads = 0
    BY DEF LoadInv, Loading
  <2>2. files[Entry].content \in Contents
    BY <1>1 DEF Loads, FilesInv
  <2>3. QED
    BY <1>2, <2>1, <2>2 DEF Loaded, AllNames
<1>4. /\ pipelines' = Put(pipelines, p.id, p)
      /\ UNCHANGED <<runs, byPipeline>>
  BY <1>2 DEF AddPipeline
<1>5. /\ DOMAIN pipelines' = DOMAIN pipelines \cup {p.id}
      /\ pipelines'[p.id] = p
      /\ \A id \in DOMAIN pipelines \ {p.id} : pipelines'[id] = pipelines[id]
  BY <1>4 DEF Put
<1>6. DOMAIN byPipeline = {}
  <2>1. loads = 0
    BY DEF LoadInv, Loading
  <2>2. 0..(0 - 1) = {}
    OBVIOUS
  <2>3. OldIds = {}
    BY <2>1, <2>2 DEF OldIds
  <2>4. QED
    BY <2>3 DEF LoadInv
<1>7. StoreInv'
  BY <1>4, <1>5 DEF StoreInv
<1>8. LoadInv'
  <2>1. batch = <<>> /\ loads = 0 /\ todo' \subseteq Files /\ Loading'
    BY DEF LoadInv, Rest, Loading
  <2>2. FreshBatch(batch)'
    BY <2>1 DEF FreshBatch, Loadable
  <2>3. DOMAIN pipelines' \subseteq {0} \X Files
    BY <1>1, <1>3, <1>5 DEF LoadInv, Loading
  <2>4. \A id \in DOMAIN pipelines' : pipelines'[id].name \in AllNames
    BY <1>3, <1>5 DEF LoadInv
  <2>5. QED
    BY <1>4, <1>6, <2>1, <2>2, <2>3, <2>4 DEF LoadInv, OldIds, AllNames
<1>9. FoundInv'
  BY DEF FoundInv, Loading, OldIds, clientVars
<1>10. RunsInv'
  BY <1>4 DEF RunsInv, clientVars
<1>11. HistInv'
  <2>1. \A id \in DOMAIN pipelines : RunsFor(id) = <<>>
    BY <1>6 DEF RunsFor
  <2>2. \A i, k \in DOMAIN pipelines' :
          pipelines'[i].name = pipelines'[k].name /\ pipelines'[i].name \notin doubled' => i = k
    BY DEF TrackNames, Names, Named, Range
  <2>3. ASSUME NEW id \in DOMAIN pipelines', pipelines'[id].name \notin doubled'
        PROVE  hist'[pipelines'[id].name] = <<>>
    <3>1. PICK n : n = pipelines'[id].name
      OBVIOUS
    <3>2. n \in Names' /\ n \notin doubled /\ n \in AllNames
      BY <1>3, <1>5, <2>3, <3>1 DEF TrackNames, Names, Range, LoadInv
    <3>3. n \in DOMAIN hist
      BY <3>2 DEF HistInv
    <3>4. CASE n \in Names
      <4>1. PICK o \in DOMAIN pipelines : pipelines[o].name = n
        BY <3>4 DEF Names, Range
      <4>2. hist[n] = <<>>
        BY <2>1, <3>2, <4>1 DEF HistInv
      <4>3. QED
        BY <3>1, <3>3, <4>2 DEF TrackNames
    <3>5. CASE n \notin Names
      BY <3>1, <3>3, <3>5 DEF TrackNames
    <3>6. QED
      BY <3>4, <3>5
  <2>4. \A id \in DOMAIN pipelines' : RunsFor(id)' = <<>>
    BY <1>4, <1>6 DEF RunsFor
  <2>5. DOMAIN hist' = AllNames' /\ doubled' \subseteq Names'
    BY DEF HistInv, TrackNames, AllNames
  <2>6. \A n \in AllNames \ Names' : hist'[n] = <<>>
    BY DEF HistInv, TrackNames
  <2>7. QED
    BY <1>4, <1>6, <2>2, <2>3, <2>4, <2>5, <2>6 DEF HistInv, AllNames
<1>12. FilesInv'
  BY DEF FilesInv, fileVars, Held
<1>13. QED
  BY <1>7, <1>8, <1>9, <1>10, <1>11, <1>12

LEMMA ReadQueues ==
  ASSUME ReloadInv, at = "reading", todo # {}, Loads(Entry), Rest = todo',
         batch' = Append(batch, Loaded(Entry)),
         UNCHANGED <<at, seen, modTimes, loads, storeVars, historyVars, fileVars, clientVars>>
  PROVE  ReloadInv'
<1> USE DEF ReloadInv
<1>1. Entry \in todo /\ Entry \in Files
  BY EntryListed DEF LoadInv
<1>2. PICK p : p = Loaded(Entry)
  OBVIOUS
<1>3. p \in Loadable /\ p.id = <<loads, Entry>> /\ p.name \in AllNames
  <2>1. files[Entry].content \in Contents
    BY <1>1 DEF Loads, FilesInv
  <2>2. QED
    BY <1>1, <1>2, <2>1 DEF Loaded, AllNames, Loadable, LoadInv
<1>4. batch \in Seq(Loadable)
  BY DEF LoadInv, FreshBatch
<1>5. /\ batch' \in Seq(Loadable)
      /\ DOMAIN batch' = DOMAIN batch \cup {Len(batch) + 1}
      /\ \A k \in DOMAIN batch : batch'[k] = batch[k]
      /\ batch'[Len(batch) + 1] = p
  BY <1>2, <1>3, <1>4
<1>6. \A k \in DOMAIN batch : batch[k].id # p.id
  BY <1>1, <1>3 DEF LoadInv, FreshBatch
<1>7. FreshBatch(batch)'
  <2>1. ASSUME NEW k \in DOMAIN batch'
        PROVE  /\ \E f \in Files \ todo' : batch'[k].id = <<loads, f>>
               /\ batch'[k].name \in AllNames
    <3>1. CASE k \in DOMAIN batch
      BY <1>5, <3>1 DEF LoadInv, FreshBatch, Rest
    <3>2. CASE k = Len(batch) + 1
      BY <1>1, <1>3, <1>5, <3>2 DEF Rest
    <3>3. QED
      BY <1>5, <3>1, <3>2
  <2>2. \A i, k \in DOMAIN batch' : batch'[i].id = batch'[k].id => i = k
    BY <1>5, <1>6 DEF LoadInv, FreshBatch
  <2>3. QED
    BY <1>5, <2>1, <2>2 DEF FreshBatch, Loadable, AllNames
<1>8. LoadInv'
  BY <1>7 DEF LoadInv, OldIds, Loading, storeVars, Rest, AllNames
<1>9. StoreInv'
  BY DEF StoreInv, storeVars
<1>10. FoundInv'
  BY DEF FoundInv, OwnRuns, OldIds, Loading, storeVars, clientVars
<1>11. RunsInv'
  BY DEF RunsInv, storeVars, clientVars
<1>12. HistInv'
  BY DEF HistInv, Names, RunsFor, storeVars, clientVars, historyVars
<1>13. FilesInv'
  BY DEF FilesInv, fileVars, Held
<1>14. QED
  BY <1>8, <1>9, <1>10, <1>11, <1>12, <1>13

\* A file that is skipped.
LEMMA ReadSkips ==
  ASSUME ReloadInv, at \in {"adding", "reading"}, todo # {}, Rest = todo',
         UNCHANGED <<at, seen, modTimes, loads, batch, storeVars, historyVars,
                     fileVars, clientVars>>
  PROVE  ReloadInv'
<1> USE DEF ReloadInv
<1>1. StoreInv' /\ LoadInv' /\ FoundInv' /\ RunsInv' /\ HistInv'
  BY NothingLoaded DEF Rest, LoadInv, Loading
<1>2. FilesInv'
  BY DEF FilesInv, fileVars, Held
<1>3. QED
  BY <1>1, <1>2

LEMMA Reading ==
  ASSUME ReloadInv, Read
  PROVE  ReloadInv'
<1>1. /\ at \in {"adding", "reading"} /\ todo # {}
      /\ todo' = Rest
      /\ UNCHANGED <<at, seen, modTimes, loads, fileVars, clientVars>>
      /\ \/ /\ Loads(Entry) /\ at = "adding"
            /\ AddPipeline(Loaded(Entry)) /\ TrackNames /\ UNCHANGED batch
         \/ /\ Loads(Entry) /\ at = "reading"
            /\ batch' = Append(batch, Loaded(Entry))
            /\ UNCHANGED <<storeVars, historyVars>>
         \/ UNCHANGED <<batch, storeVars, historyVars>>
  BY DEF Read
<1>2. CASE /\ Loads(Entry) /\ at = "adding"
           /\ AddPipeline(Loaded(Entry)) /\ TrackNames /\ UNCHANGED batch
  BY <1>1, <1>2, ReadAdds
<1>3. CASE /\ Loads(Entry) /\ at = "reading"
           /\ batch' = Append(batch, Loaded(Entry))
           /\ UNCHANGED <<storeVars, historyVars>>
  BY <1>1, <1>3, ReadQueues
<1>4. CASE UNCHANGED <<batch, storeVars, historyVars>>
  BY <1>1, <1>4, ReadSkips
<1>5. QED
  BY <1>1, <1>2, <1>3, <1>4

\* The start-up load ends: the IDs of the store are of an earlier load now.
LEMMA StartUpEnds ==
  ASSUME ReloadInv, at = "adding", todo = {}, loads' = loads + 1, at' = "unwatched",
         batch' = <<>>,
         UNCHANGED <<todo, seen, modTimes, storeVars, historyVars, fileVars, clientVars>>
  PROVE  ReloadInv'
<1> USE DEF ReloadInv
<1>1. loads = 0 /\ loads' = 1 /\ OldIds = {} /\ OldIds' = {0} \X Files
  BY DEF LoadInv, Loading, OldIds
<1>2. StoreInv'
  BY DEF StoreInv, storeVars
<1>3. LoadInv'
  BY <1>1 DEF LoadInv, Loading, FreshBatch, Loadable, storeVars
<1>4. FoundInv'
  BY <1>1 DEF FoundInv, Loading, storeVars, clientVars
<1>5. RunsInv'
  BY DEF RunsInv, storeVars, clientVars
<1>6. HistInv'
  BY DEF HistInv, Names, RunsFor, storeVars, clientVars, historyVars
<1>7. FilesInv'
  BY DEF FilesInv, fileVars, Held
<1>8. QED
  BY <1>2, <1>3, <1>4, <1>5, <1>6, <1>7

\* A reload ends: the store is swapped.
LEMMA ReloadEnds ==
  ASSUME ReloadInv, at = "reading", todo = {}, loads' = loads + 1, at' = "idle",
         batch' = <<>>, ReplacePipelines(batch), TrackNames,
         UNCHANGED <<todo, seen, modTimes, fileVars, clientVars>>
  PROVE  ReloadInv'
<1> USE DEF ReloadInv
<1>1. ~Loading /\ ~Loading' /\ FreshBatch(batch) /\ owner' = owner
  BY DEF LoadInv, Loading, clientVars
<1>2. StoreInv'
  BY <1>1, SwapStore
<1>3. HistInv'
  BY <1>1, SwapHist
<1>4. /\ DOMAIN pipelines' = {batch[k].id : k \in DOMAIN batch}
      /\ \A k \in DOMAIN batch : pipelines'[batch[k].id] = batch[k]
  BY <1>1, SwapPipelines
<1>5. \A k \in DOMAIN batch : /\ \E f \in Files : batch[k].id = <<loads, f>>
                              /\ batch[k].name \in AllNames
  BY <1>1 DEF FreshBatch
<1>6. loads \in Nat /\ loads' \in Nat /\ OldIds' = OldIds \cup ({loads} \X Files)
  BY DEF LoadInv, OldIds
<1>7. \A id \in DOMAIN pipelines' : id \in OldIds' \ OldIds /\ pipelines'[id].name \in AllNames
  <2>1. SUFFICES ASSUME NEW id \in DOMAIN pipelines'
                 PROVE  id \in OldIds' \ OldIds /\ pipelines'[id].name \in AllNames
    OBVIOUS
  <2>2. PICK k \in DOMAIN batch : id = batch[k].id
    BY <1>4
  <2>3. pipelines'[id].name \in AllNames
    BY <1>4, <1>5, <2>2
  <2>4. PICK f \in Files : id = <<loads, f>>
    BY <1>5, <2>2
  <2>5. id \notin OldIds
    BY <1>6, <2>4 DEF OldIds
  <2>6. QED
    BY <1>6, <2>3, <2>4, <2>5
<1>8. PICK moved \in SUBSET (DOMAIN pipelines \cap DOMAIN byPipeline) : Moves(batch, moved)
  BY <1>1, SwapMoves
<1>9. LoadInv'
  <2>1. DOMAIN byPipeline' \subseteq OldIds'
    <3>1. \A i \in moved : Heir(batch, i) \in DOMAIN pipelines'
      BY <1>4, <1>8 DEF Moves
    <3>2. QED
      BY <1>6, <1>7, <1>8, <3>1 DEF Moves, LoadInv
  <2>2. FreshBatch(batch)'
    BY DEF FreshBatch, Loadable
  <2>3. QED
    BY <1>1, <1>6, <1>7, <2>1, <2>2 DEF LoadInv, Loading, AllNames
<1>10. FoundInv'
  <2>1. found' = found
    BY DEF clientVars
  <2>2. found' \in [Clients -> SUBSET [id : OldIds', name : AllNames]]
    BY <1>6, <2>1 DEF FoundInv
  <2>3. \A c \in Clients : \A p \in found[c] : p.id \in OldIds
    BY DEF FoundInv
  <2>4. ASSUME NEW c \in Clients, NEW p \in found[c]
        PROVE  OwnRuns(p)'
    <3>1. CASE p.id \in DOMAIN byPipeline'
      <4>1. p.id \notin {Heir(batch, i) : i \in moved}
        BY <1>4, <1>7, <1>8, <2>3 DEF Moves
      <4>2. p.id \in DOMAIN byPipeline \ moved
        BY <1>8, <3>1, <4>1 DEF Moves
      <4>3. byPipeline'[p.id] = byPipeline[p.id]
        BY <1>8, <4>2 DEF Moves
      <4>4. QED
        BY <1>1, <4>2, <4>3 DEF FoundInv, OwnRuns
    <3>2. QED
      BY <3>1 DEF OwnRuns
  <2>5. QED
    BY <1>1, <1>7, <2>1, <2>2, <2>3, <2>4 DEF FoundInv, AllNames
<1>11. RunsInv'
  BY <1>8 DEF RunsInv, Moves, clientVars
<1>12. FilesInv'
  BY DEF FilesInv, fileVars, Held
<1>13. QED
  BY <1>2, <1>3, <1>9, <1>10, <1>11, <1>12

LEMMA Finishing ==
  ASSUME ReloadInv, Finish
  PROVE  ReloadInv'
<1>1. /\ todo = {} /\ loads' = loads + 1 /\ batch' = <<>>
      /\ UNCHANGED <<todo, seen, modTimes, fileVars, clientVars>>
      /\ \/ /\ at = "adding" /\ at' = "unwatched" /\ UNCHANGED <<storeVars, historyVars>>
         \/ /\ at = "reading" /\ at' = "idle" /\ ReplacePipelines(batch) /\ TrackNames
  BY DEF Finish
<1>2. CASE at = "adding" /\ at' = "unwatched" /\ UNCHANGED <<storeVars, historyVars>>
  BY <1>1, <1>2, StartUpEnds
<1>3. CASE at = "reading" /\ at' = "idle" /\ ReplacePipelines(batch) /\ TrackNames
  BY <1>1, <1>3, ReloadEnds
<1>4. QED
  BY <1>1, <1>2, <1>3

\* Looking up, answering, and dispatching what a reload has taken away.
LEMMA Asking ==
  ASSUME ReloadInv, NEW c \in Clients, NEW S, found' = [found EXCEPT ![c] = S],
         S = {} \/ /\ ~Loading
                   /\ \E id \in DOMAIN pipelines : S = {[id |-> id, name |-> pipelines[id].name]},
         UNCHANGED <<owner, storeVars, watcherVars, fileVars, historyVars>>
  PROVE  ReloadInv'
<1> USE DEF ReloadInv
<1>1. FoundInv'
  <2>1. S \in SUBSET [id : OldIds, name : AllNames]
    BY DEF LoadInv
  <2>2. \A p \in S : p.id \in DOMAIN pipelines => pipelines[p.id].name = p.name
    OBVIOUS
  <2>3. \A d \in Clients : found'[d] = IF d = c THEN S ELSE found[d]
    BY DEF FoundInv
  <2>4. found' \in [Clients -> SUBSET [id : OldIds, name : AllNames]]
    BY <2>1 DEF FoundInv
  <2>5. \A p \in S : OwnRuns(p)
    BY DEF HistInv, OwnRuns
  <2>6. \A d \in Clients : \A p \in found'[d] : OwnRuns(p)'
    BY <2>3, <2>5 DEF FoundInv, OwnRuns, storeVars
  <2>7. QED
    BY <2>2, <2>3, <2>4, <2>6 DEF FoundInv, Loading, OldIds, storeVars, watcherVars, AllNames
<1>2. StoreInv'
  BY DEF StoreInv, storeVars
<1>3. LoadInv'
  BY DEF LoadInv, Loading, OldIds, FreshBatch, Loadable, storeVars, watcherVars
<1>4. RunsInv'
  BY DEF RunsInv, storeVars
<1>5. HistInv'
  BY DEF HistInv, Names, RunsFor, storeVars, historyVars
<1>6. FilesInv'
  BY DEF FilesInv, fileVars, watcherVars, Held
<1>7. QED
  BY <1>1, <1>2, <1>3, <1>4, <1>5, <1>6

\* A run is created: it is new, and goes to the end of one history.
LEMMA Creating ==
  ASSUME ReloadInv, NEW c \in Clients, NEW p \in found[c], NEW r,
         r = Cardinality(DOMAIN runs) + 1, r <= MaxRuns,
         found' = [found EXCEPT ![c] = {}],
         CreateRun(p.id, r), owner' = Put(owner, r, p.name),
         hist' = [hist EXCEPT ![p.name] = Append(@, r)],
         UNCHANGED <<watcherVars, fileVars, doubled>>
  PROVE  ReloadInv'
<1> USE DEF ReloadInv
<1>1. PICK m \in 0..MaxRuns : DOMAIN runs = 1..m
  BY DEF RunsInv
<1>2. r = m + 1 /\ r \notin DOMAIN runs
  <2>1. Cardinality(1..m) = m
    BY <1>1, FS_Interval, FilesAssumption
  <2>2. QED
    BY <1>1, <2>1, FilesAssumption
<1>3. PICK id \in DOMAIN pipelines : id = p.id
  BY DEF CreateRun
<1>4. PICK n \in AllNames : n = p.name /\ n = pipelines[id].name
  BY <1>3 DEF FoundInv, LoadInv
<1>5. PICK l : l = RunsFor(id)
  OBVIOUS
<1>6. /\ l \in Seq(DOMAIN runs)
      /\ \A k \in DOMAIN l : l[k] \in DOMAIN runs /\ runs[l[k]] = id
      /\ \A i, k \in DOMAIN l : l[i] = l[k] => i = k
  <2>1. CASE id \in DOMAIN byPipeline
    <3>1. l = byPipeline[id] /\ l \in Seq(DOMAIN runs)
      BY <1>5, <2>1 DEF RunsFor, StoreInv
    <3>2. QED
      BY <2>1, <3>1 DEF StoreInv
  <2>2. CASE id \notin DOMAIN byPipeline
    BY <1>5, <2>2 DEF RunsFor
  <2>3. QED
    BY <2>1, <2>2
<1>7. /\ DOMAIN runs' = DOMAIN runs \cup {r}
      /\ runs'[r] = id
      /\ \A q \in DOMAIN runs : runs'[q] = runs[q]
      /\ DOMAIN byPipeline' = DOMAIN byPipeline \cup {id}
      /\ byPipeline'[id] = Append(l, r)
      /\ \A j \in DOMAIN byPipeline \ {id} : byPipeline'[j] = byPipeline[j]
      /\ pipelines' = pipelines
  BY <1>2, <1>3, <1>5 DEF CreateRun, Put
<1>8. PICK h : h = Append(l, r)
  OBVIOUS
<1>9. /\ h \in Seq(DOMAIN runs')
      /\ DOMAIN h = DOMAIN l \cup {Len(l) + 1}
      /\ \A k \in DOMAIN l : h[k] = l[k]
      /\ h[Len(l) + 1] = r
      /\ Len(l) + 1 \notin DOMAIN l
  <2>1. l \in Seq(DOMAIN runs') /\ r \in DOMAIN runs'
    BY <1>6, <1>7
  <2>2. QED
    BY <1>8, <2>1
<1>10. \A i, k \in DOMAIN h : h[i] = h[k] => i = k
  BY <1>2, <1>6, <1>9
<1>11. StoreInv'
  <2>1. \A j \in DOMAIN byPipeline' : byPipeline'[j] \in Seq(DOMAIN runs')
    <3>1. ASSUME NEW j \in DOMAIN byPipeline
          PROVE  byPipeline[j] \in Seq(DOMAIN runs')
      <4>1. byPipeline[j] \in Seq(DOMAIN runs)
        BY DEF StoreInv
      <4>2. QED
        BY <1>7, <4>1
    <3>2. QED
      BY <1>7, <1>8, <1>9, <3>1
  <2>2. \A j \in DOMAIN byPipeline' : \A k \in DOMAIN byPipeline'[j] : runs'[byPipeline'[j][k]] = j
    <3>1. \A k \in DOMAIN h : runs'[h[k]] = id
      BY <1>6, <1>7, <1>9
    <3>2. ASSUME NEW j \in DOMAIN byPipeline, NEW k \in DOMAIN byPipeline[j]
          PROVE  runs'[byPipeline[j][k]] = j
      <4>1. byPipeline[j] \in Seq(DOMAIN runs)
        BY DEF StoreInv
      <4>2. byPipeline[j][k] \in DOMAIN runs
        BY <4>1
      <4>3. QED
        BY <1>7, <4>2 DEF StoreInv
    <3>3. byPipeline'[id] = h
      BY <1>7, <1>8
    <3>4. ASSUME NEW j \in DOMAIN byPipeline'
          PROVE  \A k \in DOMAIN byPipeline'[j] : runs'[byPipeline'[j][k]] = j
      <4>1. CASE j = id
        BY <3>1, <3>3, <4>1
      <4>2. CASE j # id
        BY <1>7, <3>2, <4>2
      <4>3. QED
        BY <4>1, <4>2
    <3>5. QED
      BY <3>4
  <2>3. ASSUME NEW j \in DOMAIN byPipeline'
        PROVE  \A i, k \in DOMAIN byPipeline'[j] : byPipeline'[j][i] = byPipeline'[j][k] => i = k
    <3>1. CASE j = id
      <4>1. byPipeline'[j] = h
        BY <1>7, <1>8, <3>1
      <4>2. QED
        BY <1>10, <4>1
    <3>2. CASE j # id
      BY <1>7, <3>2 DEF StoreInv
    <3>3. QED
      BY <3>1, <3>2
  <2>4. ASSUME NEW q \in DOMAIN runs'
        PROVE  /\ runs'[q] \in DOMAIN byPipeline'
               /\ \E k \in DOMAIN byPipeline'[runs'[q]] : byPipeline'[runs'[q]][k] = q
    <3>1. CASE q = r
      BY <1>7, <1>8, <1>9, <3>1
    <3>2. CASE q \in DOMAIN runs /\ runs[q] = id
      <4>1. id \in DOMAIN byPipeline /\ \E k \in DOMAIN byPipeline[id] : byPipeline[id][k] = q
        BY <3>2 DEF StoreInv
      <4>2. \E k \in DOMAIN l : l[k] = q
        BY <1>5, <4>1 DEF RunsFor
      <4>3. byPipeline'[id] = h /\ runs'[q] = id
        BY <1>7, <1>8, <3>2
      <4>4. \E k \in DOMAIN h : h[k] = q
        BY <1>9, <4>2
      <4>5. QED
        BY <1>7, <4>3, <4>4
    <3>3. CASE q \in DOMAIN runs /\ runs[q] # id
      BY <1>7, <3>3 DEF StoreInv
    <3>4. QED
      BY <1>7, <3>1, <3>2, <3>3
  <2>5. QED
    BY <1>7, <2>1, <2>2, <2>3, <2>4 DEF StoreInv
<1>12. ~Loading /\ Loading' = Loading
  BY DEF FoundInv, Loading, watcherVars
<1>13. LoadInv'
  <2>1. FreshBatch(batch)'
    BY DEF FreshBatch, Loadable, LoadInv, watcherVars
  <2>2. QED
    BY <1>7, <1>12, <2>1 DEF LoadInv, Loading, OldIds, watcherVars, AllNames
<1>14. DOMAIN owner' = DOMAIN owner \cup {r} /\ owner'[r] = n
       /\ \A q \in DOMAIN runs : owner'[q] = owner[q]
  BY <1>2, <1>4 DEF Put, RunsInv
<1>15. FoundInv'
  <2>1. found' \in [Clients -> SUBSET [id : OldIds, name : AllNames]]
    BY DEF FoundInv
  <2>2. \A d \in Clients : found'[d] \subseteq found[d]
    BY DEF FoundInv
  <2>3. \A k \in DOMAIN l : owner[l[k]] = n
    BY <1>4, <1>5 DEF RunsFor, HistInv
  <2>4. ASSUME NEW d \in Clients, NEW q \in found[d]
        PROVE  OwnRuns(q)'
    <3>1. CASE q.id = id
      <4>1. q.name = n
        BY <1>3, <1>4, <3>1 DEF FoundInv
      <4>2. \A k \in DOMAIN l : owner'[h[k]] = n
        BY <1>6, <1>9, <1>14, <2>3
      <4>3. owner'[h[Len(l) + 1]] = n
        BY <1>9, <1>14
      <4>4. \A k \in DOMAIN h : owner'[h[k]] = n
        BY <1>9, <4>2, <4>3
      <4>5. byPipeline'[id] = h
        BY <1>7, <1>8
      <4>6. QED
        BY <3>1, <4>1, <4>4, <4>5 DEF OwnRuns
    <3>2. CASE q.id \in DOMAIN byPipeline \ {id}
      <4>1. byPipeline'[q.id] = byPipeline[q.id] /\ byPipeline[q.id] \in Seq(DOMAIN runs)
        BY <1>7, <3>2 DEF StoreInv
      <4>2. \A k \in DOMAIN byPipeline[q.id] : byPipeline[q.id][k] \in DOMAIN runs
        BY <4>1
      <4>3. QED
        BY <1>14, <3>2, <4>1, <4>2 DEF FoundInv, OwnRuns
    <3>3. CASE q.id \notin DOMAIN byPipeline'
      BY <3>3 DEF OwnRuns
    <3>4. QED
      BY <1>7, <3>1, <3>2, <3>3
  <2>5. QED
    BY <1>7, <1>12, <2>1, <2>2, <2>4 DEF FoundInv, OldIds, watcherVars, AllNames
<1>16. RunsInv'
  <2>1. DOMAIN runs' = 1..r /\ r \in 0..MaxRuns
    BY <1>1, <1>2, <1>7, FilesAssumption
  <2>2. QED
    BY <1>7, <1>14, <2>1 DEF RunsInv
<1>17. HistInv'
  <2>1. Names' = Names /\ doubled' = doubled
    BY <1>7 DEF Names
  <2>2. /\ DOMAIN hist' = AllNames
        /\ hist'[n] = Append(hist[n], r)
        /\ \A o \in AllNames \ {n} : hist'[o] = hist[o]
    BY <1>4 DEF HistInv
  <2>3. ASSUME NEW j \in DOMAIN pipelines \cap DOMAIN byPipeline', NEW k \in DOMAIN byPipeline'[j]
        PROVE  owner'[byPipeline'[j][k]] = pipelines[j].name
    <3>1. CASE j = id
      <4>1. CASE k = Len(l) + 1
        BY <1>4, <1>7, <1>8, <1>9, <1>14, <3>1, <4>1
      <4>2. CASE k \in DOMAIN l
        <5>1. h[k] = l[k] /\ l[k] \in DOMAIN runs
          BY <1>6, <1>9, <4>2
        <5>2. owner[l[k]] = n
          BY <1>4, <1>5, <4>2 DEF RunsFor, HistInv
        <5>3. QED
          BY <1>4, <1>7, <1>8, <1>14, <3>1, <5>1, <5>2
      <4>3. QED
        BY <1>7, <1>8, <1>9, <3>1, <4>1, <4>2
    <3>2. CASE j # id
      <4>1. j \in DOMAIN byPipeline /\ byPipeline'[j] = byPipeline[j]
        BY <1>7, <3>2
      <4>2. byPipeline[j] \in Seq(DOMAIN runs)
        BY <4>1 DEF StoreInv
      <4>3. byPipeline[j][k] \in DOMAIN runs
        BY <4>1, <4>2
      <4>4. QED
        BY <1>14, <4>1, <4>3 DEF HistInv
    <3>3. QED
      BY <3>1, <3>2
  <2>4. ASSUME NEW j \in DOMAIN pipelines, pipelines[j].name \notin doubled
        PROVE  RunsFor(j)' = hist'[pipelines[j].name]
    <3>1. CASE j = id
      <4>1. RunsFor(j)' = h
        BY <1>7, <1>8, <3>1 DEF RunsFor
      <4>2. hist[n] = l
        BY <1>4, <1>5, <2>4, <3>1 DEF HistInv
      <4>3. QED
        BY <1>4, <1>8, <2>2, <3>1, <4>1, <4>2
    <3>2. CASE j # id
      <4>1. pipelines[j].name # n
        BY <1>4, <2>4, <3>2 DEF HistInv
      <4>2. RunsFor(j)' = RunsFor(j)
        BY <1>7, <3>2 DEF RunsFor
      <4>3. pipelines[j].name \in AllNames
        BY DEF LoadInv
      <4>4. QED
        BY <2>2, <2>4, <4>1, <4>2, <4>3 DEF HistInv
    <3>3. QED
      BY <3>1, <3>2
  <2>5. \A o \in AllNames \ Names : hist'[o] = <<>>
    BY <1>4, <2>2 DEF HistInv, Names, Range
  <2>6. QED
    BY <1>7, <2>1, <2>2, <2>3, <2>4, <2>5 DEF HistInv, AllNames
<1>18. FilesInv'
  BY DEF FilesInv, fileVars, watcherVars, Held
<1>19. QED
  BY <1>11, <1>13, <1>15, <1>16, <1>17, <1>18

LEMMA Clienting ==
  ASSUME ReloadInv, NEW c \in Clients, Find(c) \/ Dispatch(c) \/ Answer(c)
  PROVE  ReloadInv'
<1>1. CASE Find(c)
  <2>1. PICK n \in Names : \E i \in Named(n) :
          found' = [found EXCEPT ![c] = {[id |-> i, name |-> n]}]
    BY <1>1 DEF Find
  <2>2. PICK id \in Named(n) : found' = [found EXCEPT ![c] = {[id |-> id, name |-> n]}]
    BY <2>1
  <2>3. PICK S : S = {[id |-> id, name |-> n]}
    OBVIOUS
  <2>4. id \in DOMAIN pipelines /\ pipelines[id].name = n
    BY DEF Named
  <2>5. ~Loading
    BY <1>1 DEF Find, Running, Loading
  <2>6. found' = [found EXCEPT ![c] = S]
    BY <2>2, <2>3
  <2>7. \E i \in DOMAIN pipelines : S = {[id |-> i, name |-> pipelines[i].name]}
    BY <2>3, <2>4
  <2>8. UNCHANGED <<owner, storeVars, watcherVars, fileVars, historyVars>>
    BY <1>1 DEF Find
  <2>9. QED
    BY <2>5, <2>6, <2>7, <2>8, Asking
<1>2. CASE Answer(c)
  <2>1. PICK S : S = {}
    OBVIOUS
  <2>2. found' = [found EXCEPT ![c] = S]
    BY <1>2, <2>1 DEF Answer
  <2>3. UNCHANGED <<owner, storeVars, watcherVars, fileVars, historyVars>>
    BY <1>2 DEF Answer
  <2>4. QED
    BY <2>1, <2>2, <2>3, Asking
<1>3. CASE Dispatch(c)
  <2>1. PICK p \in found[c] :
          /\ found' = [found EXCEPT ![c] = {}]
          /\ \/ UNCHANGED <<storeVars, owner, hist>>
             \/ LET r == Cardinality(DOMAIN runs) + 1 IN
                /\ r <= MaxRuns
                /\ CreateRun(p.id, r)
                /\ owner' = Put(owner, r, p.name)
                /\ hist' = [hist EXCEPT ![p.name] = Append(@, r)]
          /\ UNCHANGED <<watcherVars, fileVars, doubled>>
    BY <1>3 DEF Dispatch
  <2>2. PICK r : r = Cardinality(DOMAIN runs) + 1
    OBVIOUS
  <2>3. CASE UNCHANGED <<storeVars, owner, hist>>
    <3>1. PICK S : S = {}
      OBVIOUS
    <3>2. found' = [found EXCEPT ![c] = S]
      BY <2>1, <3>1
    <3>3. UNCHANGED <<owner, storeVars, watcherVars, fileVars, historyVars>>
      BY <2>1, <2>3 DEF historyVars
    <3>4. QED
      BY <3>1, <3>2, <3>3, Asking
  <2>4. CASE /\ r <= MaxRuns
             /\ CreateRun(p.id, r)
             /\ owner' = Put(owner, r, p.name)
             /\ hist' = [hist EXCEPT ![p.name] = Append(@, r)]
    BY <2>1, <2>2, <2>4, Creating
  <2>5. QED
    BY <2>1, <2>2, <2>3, <2>4
<1>4. QED
  BY <1>1, <1>2, <1>3

-------------------------------------------------------------------------------
(* The theorems *)

LEMMA InitReload ==
  ASSUME Init
  PROVE  ReloadInv
<1> USE DEF Init, StoreInit, ReloadInv
<1>1. DOMAIN pipelines = {} /\ DOMAIN byPipeline = {} /\ DOMAIN runs = {} /\ DOMAIN owner = {}
  OBVIOUS
<1>2. StoreInv
  BY <1>1 DEF StoreInv
<1>3. LoadInv
  BY <1>1 DEF LoadInv, Loading, FreshBatch
<1>4. FoundInv
  BY DEF FoundInv
<1>5. RunsInv
  <2>1. DOMAIN runs = 1..0 /\ 0 \in 0..MaxRuns
    BY <1>1, FilesAssumption
  <2>2. QED
    BY <1>1, <2>1 DEF RunsInv
<1>6. HistInv
  BY <1>1 DEF HistInv, AllNames
<1>7. FilesInv
  BY FilesAssumption DEF FilesInv, Held
<1>8. QED
  BY <1>2, <1>3, <1>4, <1>5, <1>6, <1>7

LEMMA ReloadStep ==
  ASSUME ReloadInv, [Next]_allVars
  PROVE  ReloadInv'
<1>1. CASE Watcher
  BY <1>1, Watching, Reading, Finishing DEF Watcher
<1>2. CASE Stop
  BY <1>2, Watching
<1>3. CASE \E c \in Clients : Find(c) \/ Dispatch(c) \/ Answer(c)
  BY <1>3, Clienting
<1>4. CASE \E f \in Files : Write(f) \/ Delete(f)
  BY <1>4, FilesChange
<1>5. CASE UNCHANGED allVars
  <2> USE <1>5 DEF allVars, ReloadInv, watcherVars, fileVars, clientVars, historyVars
  <2>1. StoreInv' /\ LoadInv' /\ FoundInv' /\ RunsInv' /\ HistInv'
    BY NothingLoaded DEF LoadInv, Loading
  <2>2. FilesInv'
    BY DEF FilesInv, Held
  <2>3. QED
    BY <2>1, <2>2
<1>6. QED
  BY <1>1, <1>2, <1>3, <1>4, <1>5 DEF Next

LEMMA Reloads == Spec => []ReloadInv
<1>1. Init => ReloadInv
  BY InitReload
<1>2. ReloadInv /\ [Next]_allVars => ReloadInv'
  BY ReloadStep
<1>3. QED
  BY <1>1, <1>2, PTL DEF Spec

\* Types, for any files and any number of reloads.
THEOREM Typing == Spec => []TypeOK
<1>1. ASSUME ReloadInv
      PROVE  TypeOK
  <2>1. DOMAIN runs \subseteq 1..MaxRuns
    BY <1>1, FilesAssumption DEF ReloadInv, RunsInv
  <2>2. QED
    BY <1>1, <2>1 DEF ReloadInv, FilesInv, LoadInv, StoreInv, TypeOK
<1>2. QED
  BY <1>1, Reloads, PTL

\* ReplacePipelines moves histories and back references together: whatever is
\* loaded, however often and under however many equal names, every run is
\* listed under exactly the ID it points back to, once.
THEOREM References == Spec => []BackReferences
<1>1. ASSUME ReloadInv
      PROVE  BackReferences
  <2>1. SUFFICES ASSUME NEW r \in DOMAIN runs
        PROVE  /\ \A id \in DOMAIN byPipeline : r \in Range(byPipeline[id]) <=> id = runs[r]
               /\ runs[r] \in DOMAIN byPipeline
               /\ Cardinality({k \in DOMAIN byPipeline[runs[r]] : byPipeline[runs[r]][k] = r}) = 1
    BY DEF BackReferences
  <2>2. StoreInv
    BY <1>1 DEF ReloadInv
  <2>3. \A id \in DOMAIN byPipeline : r \in Range(byPipeline[id]) <=> id = runs[r]
    BY <2>2 DEF StoreInv, Range
  <2>4. PICK k \in DOMAIN byPipeline[runs[r]] : byPipeline[runs[r]][k] = r
    BY <2>2 DEF StoreInv
  <2>5. {i \in DOMAIN byPipeline[runs[r]] : byPipeline[runs[r]][i] = r} = {k}
    BY <2>2, <2>4 DEF StoreInv
  <2>6. Cardinality({k}) = 1
    BY FS_Singleton
  <2>7. runs[r] \in DOMAIN byPipeline
    BY <2>2 DEF StoreInv
  <2>8. QED
    BY <2>3, <2>5, <2>6, <2>7
<1>2. QED
  BY <1>1, Reloads, PTL

\* A pipeline shows runs of its own name only, and all of them since the name
\* came into the store, unless two files have claimed the name meanwhile.
THEOREM Histories == Spec => []HistoryFollowsName
<1>1. ASSUME ReloadInv, NEW id \in DOMAIN pipelines
      PROVE  LET n == pipelines[id].name IN
             /\ \A r \in Range(RunsFor(id)) : owner[r] = n
             /\ n \notin doubled => RunsFor(id) = hist[n]
  <2>1. CASE id \in DOMAIN byPipeline
    BY <1>1, <2>1 DEF ReloadInv, HistInv, RunsFor, Range
  <2>2. CASE id \notin DOMAIN byPipeline
    BY <1>1, <2>2 DEF ReloadInv, HistInv, RunsFor, Range
  <2>3. QED
    BY <2>1, <2>2
<1>2. ReloadInv => HistoryFollowsName
  BY <1>1 DEF HistoryFollowsName
<1>3. QED
  BY <1>2, Reloads, PTL

\* An answer of the API shows runs of the requested name only, however many
\* reloads and dispatches lie between the lookup of the pipeline and the read
\* of its runs.
THEOREM OwnAnswers == Spec => []AnswersAreOwn
<1>1. ASSUME ReloadInv, NEW c \in Clients, NEW p \in found[c]
      PROVE  \A r \in Range(RunsFor(p.id)) : owner[r] = p.name
  <2>1. OwnRuns(p)
    BY <1>1 DEF ReloadInv, FoundInv
  <2>2. CASE p.id \in DOMAIN byPipeline
    BY <2>1, <2>2 DEF OwnRuns, RunsFor, Range
  <2>3. CASE p.id \notin DOMAIN byPipeline
    BY <2>3 DEF RunsFor, Range
  <2>4. QED
    BY <2>2, <2>3
<1>2. ReloadInv => AnswersAreOwn
  BY <1>1 DEF AnswersAreOwn
<1>3. QED
  BY <1>2, Reloads, PTL
================================================================================
