------------------------------ MODULE FileWatcher ------------------------------
(***************************************************************************)
(* The file watcher of internal/listener: an initial scan that fires       *)
(* nothing, then a scan at every tick.  The listing of the directory and   *)
(* the stat of each entry are steps of their own; the send of an event     *)
(* blocks while the channel is full and watches nothing else.              *)
(*                                                                         *)
(* The files are those whose name matches the pattern, in the order        *)
(* os.ReadDir lists them; a file is its modification time, 0 if absent.    *)
(***************************************************************************)
EXTENDS EventChannel, FiniteSetsExt

CONSTANTS
  FileCount,   \* bound: the files are 1..FileCount
  Times,       \* bound: the modification times there are
  InitialDirs, \* the directories the watcher may be started on
  MaxFaults    \* bound: how often os.ReadDir fails

Files == 1..FileCount

ASSUME WatchAssumption ==
  /\ FileCount \in Nat /\ MaxFaults \in Nat
  /\ Times \subseteq Nat \ {0}
  /\ InitialDirs \subseteq [Files -> {0} \cup Times]

VARIABLES
  dir,        \* dir[f]: modification time of file f, or 0
  unused,     \* modification times no file has had yet
  faults,     \* how often os.ReadDir has failed
  fw,         \* where the watcher stands
  todo,       \* entries of the current listing still to visit
  modTimes,   \* the field of that name, 0 for no entry
  fwDone,     \* the channel done is closed
  known,      \* history: known[f], times recorded by the initial scan
  reported    \* history: reported[f], times events have been sent for

dirVars == <<dir, unused>>
fwVars == <<fw, todo, modTimes, fwDone, faults, known, reported>>

WatcherInit ==
  /\ dir \in InitialDirs
  /\ unused = {t \in Times : \A f \in Files : dir[f] # t}
  /\ fw = "unborn" /\ todo = {} /\ fwDone = FALSE /\ faults = 0
  /\ modTimes = [f \in Files |-> 0]
  /\ known = [f \in Files |-> {}]
  /\ reported = [f \in Files |-> {}]

(* The world, while somebody watches: a file that is written or moved in    *)
(* has a time it did not have before, which need not be a later one.        *)
DirStep ==
  /\ fw \notin {"unborn", "stopped"}
  /\ \E f \in Files :
       \/ \E t \in unused : /\ dir' = [dir EXCEPT ![f] = t]
                            /\ unused' = unused \ {t}
       \/ /\ dir[f] # 0
          /\ dir' = [dir EXCEPT ![f] = 0]
          /\ UNCHANGED unused
  /\ UNCHANGED <<fwVars, channelVars>>

-------------------------------------------------------------------------------
Listing == {f \in Files : dir[f] # 0}

\* The entries of a listing are visited in the order of their names.
Entry == Min(todo)
Rest == todo \ {Entry}

\* os.ReadDir: its error is ignored by the initial scan, and ends Start at a
\* tick.
List ==
  /\ fw \in {"new", "idle"}
  /\ \/ /\ todo' = Listing
        /\ fw' = IF fw = "new" THEN "initial" ELSE "scan"
        /\ UNCHANGED faults
     \/ /\ faults < MaxFaults
        /\ faults' = faults + 1
        /\ fw' = IF fw = "new" THEN "idle" ELSE "stopped"
        /\ UNCHANGED todo
  /\ UNCHANGED <<modTimes, fwDone, known, reported, dirVars, channelVars>>

\* Faulty variant: a time that is not earlier counts as a change.
IsChange_NotBefore(f) == modTimes[f] = 0 \/ dir[f] >= modTimes[f]

\* !seen || info.ModTime().After(prevMod)
IsChange(f) == modTimes[f] = 0 \/ dir[f] > modTimes[f]

\* The next entry: one that has gone since the listing is passed over.
Stat ==
  /\ fw \in {"initial", "scan"} /\ todo # {}
  /\ LET f == Entry IN
     IF dir[f] = 0
     THEN /\ todo' = Rest
          /\ UNCHANGED <<fw, modTimes, known>>
     ELSE /\ modTimes' = [modTimes EXCEPT ![f] = dir[f]]
          /\ IF fw = "scan" /\ IsChange(f)
             THEN fw' = "send" /\ UNCHANGED <<todo, known>>
             ELSE /\ todo' = Rest
                  /\ known' = IF fw = "initial"
                              THEN [known EXCEPT ![f] = @ \cup {dir[f]}] ELSE known
                  /\ UNCHANGED fw
  /\ UNCHANGED <<fwDone, faults, reported, dirVars, channelVars>>

\* Faulty variant: a select with a default, which drops the event.
SendChange_Drop ==
  /\ fw = "send"
  /\ IF Len(events) < BufferSize
     THEN /\ Send([from |-> "watcher", file |-> Entry])
          /\ reported' = [reported EXCEPT ![Entry] = @ \cup {modTimes[Entry]}]
     ELSE UNCHANGED <<channelVars, reported>>
  /\ fw' = "scan" /\ todo' = Rest
  /\ UNCHANGED <<modTimes, fwDone, faults, known, dirVars>>

SendChange ==
  /\ fw = "send"
  /\ Send([from |-> "watcher", file |-> Entry])
  /\ reported' = [reported EXCEPT ![Entry] = @ \cup {modTimes[Entry]}]
  /\ fw' = "scan" /\ todo' = Rest
  /\ UNCHANGED <<modTimes, fwDone, faults, known, dirVars>>

EndScan ==
  /\ fw \in {"initial", "scan"} /\ todo = {}
  /\ fw' = "idle"
  /\ UNCHANGED <<todo, modTimes, fwDone, faults, known, reported, dirVars, channelVars>>

\* The select between two scans sees the context or done.
Quit ==
  /\ fw = "idle" /\ (cancelled \/ fwDone)
  /\ fw' = "stopped"
  /\ UNCHANGED <<todo, modTimes, fwDone, faults, known, reported, dirVars, channelVars>>

\* The goroutine of Start; Stop is called by the manager.
Scanner == List \/ Stat \/ SendChange \/ EndScan
StopWatcher == fwDone' = TRUE /\ UNCHANGED <<fw, todo, modTimes, faults, known, reported>>
===============================================================================
