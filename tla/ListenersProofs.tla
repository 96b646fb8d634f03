---------------------------- MODULE ListenersProofs ----------------------------
(***************************************************************************)
(* The shutdown of the listeners and the reports of the file watcher, for  *)
(* any files, times and requests and any size of the event channel.        *)
(***************************************************************************)
EXTENDS Listeners, Minimum, TLAPS

\* What the goroutine of listener l adds to the counter of the WaitGroup: one
\* from its spawning until its deferred Done.
Counted(l) ==
  IF l = "watcher" THEN IF fw # "unborn" /\ l \notin gone THEN 1 ELSE 0
                   ELSE IF wh # "unborn" /\ l \notin gone THEN 1 ELSE 0

\* The listeners are spawned one after the other, a listener's goroutine calls
\* Done only when its Start has returned, and the counter is what they add to
\* it; a channel that is closed is so because the manager has found it at zero.
ManagerInv ==
  /\ mgr \in {"start", "spawning", "running", "stopping", "waiting", "returned", "exited"}
  /\ fw = "unborn" <=> mgr = "start"
  /\ wh = "unborn" <=> mgr \in {"start", "spawning"}
  /\ gone \subseteq Registered /\ \A l \in gone : Returned(l)
  /\ wg = Counted("watcher") + Counted("webhook")
  /\ closed => mgr \in {"returned", "exited"}
  /\ mgr \in {"returned", "exited"} => wg = 0

\* Each step of the manager, of a listener's goroutine and of anyone else
\* preserves this.
LEMMA ManagerInvStep ==
  ASSUME ManagerInv, [Next]_allVars
  PROVE  ManagerInv'
<1> USE DEF ManagerInv, Returned, Counted
<1>1. CASE Spawn
  <2>1. CASE mgr = "start" /\ mgr' = "spawning" /\ Born("watcher")
    BY <1>1, <2>1 DEF Spawn, Born, channelVars, whVars
  <2>2. CASE mgr = "spawning" /\ mgr' = "running" /\ Born("webhook")
    BY <1>1, <2>2 DEF Spawn, Born, channelVars, fwVars
  <2>3. QED
    BY <1>1, <2>1, <2>2 DEF Spawn
<1>2. CASE StopListeners
  <2>1. /\ UNCHANGED <<fw, wh, wg, gone, closed>>
        /\ mgr \in {"running", "stopping"} /\ mgr' \in {"stopping", "waiting"}
    BY <1>2 DEF StopListeners, StopWatcher, StopWebhook, channelVars, whVars, fwVars
  <2>2. QED
    BY <2>1
<1>3. CASE Close \/ Exit
  <2>1. /\ UNCHANGED <<fw, wh, wg, gone>> /\ wg = 0
        /\ mgr \in {"waiting", "returned"} /\ mgr' \in {"returned", "exited"}
    BY <1>3 DEF Close, Exit, whVars, fwVars
  <2>2. QED
    BY <2>1
<1>4. ASSUME NEW l \in Registered, Leave(l)
      PROVE  ManagerInv'
  <2>1. /\ UNCHANGED <<fw, wh, mgr, closed>>
        /\ l \notin gone /\ gone' = gone \cup {l} /\ wg' = wg - 1
        /\ \/ l = "watcher" /\ fw = "stopped"
           \/ l = "webhook" /\ wh \in {"stopped", "failed"}
    BY <1>4 DEF Leave, channelVars, whVars, fwVars
  <2>2. CASE l = "watcher"
    <3>1. Counted("watcher") = 1 /\ Counted("watcher")' = 0
      BY <2>1, <2>2
    <3>2. Counted("webhook") \in {0, 1} /\ Counted("webhook")' = Counted("webhook")
      BY <2>1, <2>2
    <3> HIDE DEF Counted
    <3>3. wg # 0 /\ wg' = Counted("watcher")' + Counted("webhook")'
      BY <2>1, <3>1, <3>2
    <3>4. QED
      BY <2>1, <2>2, <3>3 DEF Registered
  <2>3. CASE l = "webhook"
    <3>1. Counted("webhook") = 1 /\ Counted("webhook")' = 0
      BY <2>1, <2>3
    <3>2. Counted("watcher") \in {0, 1} /\ Counted("watcher")' = Counted("watcher")
      BY <2>1, <2>3
    <3> HIDE DEF Counted
    <3>3. wg # 0 /\ wg' = Counted("watcher")' + Counted("webhook")'
      BY <2>1, <3>1, <3>2
    <3>4. QED
      BY <2>1, <2>3, <3>3 DEF Registered
  <2>4. QED
    BY <2>1, <2>2, <2>3
<1>5. CASE WatcherStep
  <2>1. UNCHANGED <<wh, mgr, wg, gone, closed>>
    BY <1>5 DEF WatcherStep, Scanner, List, Stat, SendChange, EndScan, Quit, Send,
       channelVars, whVars, listenersVars
  <2>2. fw \notin {"unborn", "stopped"} /\ fw' # "unborn"
    BY <1>5 DEF WatcherStep, Scanner, List, Stat, SendChange, EndScan, Quit
  <2>3. QED
    BY <2>1, <2>2
<1>6. CASE ServerStep
  <2>1. UNCHANGED <<fw, mgr, wg, gone, closed>>
    BY <1>6 DEF ServerStep, Serving, Listen, Shutdown, ServeReturns, channelVars,
       fwVars, listenersVars
  <2>2. wh \in {"new", "serving"} /\ wh' # "unborn"
    BY <1>6 DEF ServerStep, Serving, Listen, Shutdown, ServeReturns
  <2>3. QED
    BY <2>1, <2>2
<1>7. CASE UNCHANGED <<fw, wh, mgr, wg, gone, closed>>
  BY <1>7
<1>8. ASSUME NEW r \in Requests, HandlerStep(r) \/ Client(r)
      PROVE  UNCHANGED <<fw, wh, mgr, wg, gone, closed>>
  BY <1>8 DEF HandlerStep, Client, Handling, SendRequest, Panic, Send, Request,
     ReadBody, channelVars, fwVars, listenersVars
<1>9. ASSUME \/ Receive \/ Dispatched \/ ReaderEnds \/ Cancel
             \/ DirStep /\ UNCHANGED <<whVars, listenersVars>>
             \/ UNCHANGED allVars
      PROVE  UNCHANGED <<fw, wh, mgr, wg, gone, closed>>
  BY <1>9 DEF Receive, Dispatched, ReaderEnds, Cancel, DirStep, channelVars, whVars,
     fwVars, listenersVars, allVars
<1>10. QED
  BY <1>1, <1>2, <1>3, <1>4, <1>5, <1>6, <1>7, <1>8, <1>9 DEF Next, Manager

LEMMA InitManagerInv == Init => ManagerInv
BY DEF Init, ChannelInit, WatcherInit, WebhookInit, ManagerInv, Counted

\* Manager.Start's Add, Done and Wait (manager.go:46-70) keep the channel open
\* until the file watcher and the webhook have both been started and have both
\* returned from Start: nobody else but a request handler can send on it.
THEOREM ChannelOutlivesListeners == Spec => []CloseAfterListeners
<1>1. ManagerInv /\ [Next]_allVars => ManagerInv'
  BY ManagerInvStep
<1>2. ManagerInv => CloseAfterListeners
  <2> SUFFICES ASSUME ManagerInv, closed PROVE Returned("watcher") /\ Returned("webhook")
    BY DEF CloseAfterListeners
  <2>1. Counted("watcher") + Counted("webhook") = 0 /\ fw # "unborn" /\ wh # "unborn"
    BY DEF ManagerInv
  <2>2. "watcher" \in gone /\ "webhook" \in gone
    BY <2>1 DEF Counted
  <2>3. QED
    BY <2>2 DEF ManagerInv
<1>3. QED
  BY InitManagerInv, <1>1, <1>2, PTL DEF Spec

-------------------------------------------------------------------------------
(* What the file watcher reports *)

Seen(f) == known[f] \cup reported[f]

\* Types of what the watcher compares.
WatchTypes ==
  /\ dir \in [Files -> {0} \cup Times]
  /\ modTimes \in [Files -> {0} \cup Times]
  /\ known \in [Files -> SUBSET Times]
  /\ reported \in [Files -> SUBSET ({0} \cup Times)]

\* A time nobody has used is nowhere recorded; a version of a file that is
\* not the one last recorded is new to the watcher; and so is the version an
\* event is being sent for.
WatchInv ==
  /\ WatchTypes
  /\ \A f \in Files :
       /\ unused \cap (Seen(f) \cup {dir[f], modTimes[f]}) = {}
       /\ dir[f] \notin {0, modTimes[f]} => dir[f] \notin Seen(f)
       /\ fw = "send" /\ f = Entry => modTimes[f] \notin Seen(f)
  /\ unused \subseteq Times

\* While the listing stays, so does its next entry.
LEMMA EntryKept ==
  ASSUME todo' = todo
  PROVE  Entry' = Entry
BY DEF Entry, Min

\* Each step of the watcher and of its directory preserves this.
LEMMA WatchInvStep ==
  ASSUME WatchInv, [Next]_allVars
  PROVE  WatchInv'
<1>1. CASE DirStep
  <2>1. PICK f \in Files :
          \/ /\ \E t \in unused : /\ dir' = [dir EXCEPT ![f] = t]
                                  /\ unused' = unused \ {t}
          \/ dir' = [dir EXCEPT ![f] = 0] /\ unused' = unused
    BY <1>1 DEF DirStep
  <2>2. UNCHANGED <<modTimes, known, reported, fw, todo>>
    BY <1>1 DEF DirStep, fwVars
  <2>3. CASE \E t \in unused : dir' = [dir EXCEPT ![f] = t] /\ unused' = unused \ {t}
    BY <2>2, <2>3, EntryKept DEF WatchInv, WatchTypes, Seen
  <2>4. CASE dir' = [dir EXCEPT ![f] = 0] /\ unused' = unused
    BY <2>2, <2>4, EntryKept, WatchAssumption DEF WatchInv, WatchTypes, Seen
  <2>5. QED
    BY <2>1, <2>3, <2>4
<1>2. CASE List \/ EndScan \/ Quit
  BY <1>2 DEF List, EndScan, Quit, dirVars, WatchInv, WatchTypes, Seen
<1>3. CASE Stat
  <2> DEFINE h == Entry
  <2>0. /\ UNCHANGED <<dir, unused, reported>>
        /\ fw # "send"
    BY <1>3 DEF Stat, dirVars
  <2>1. CASE dir[h] = 0
    <3>1. UNCHANGED <<fw, modTimes, known>>
      BY <1>3, <2>1 DEF Stat
    <3>2. QED
      BY <2>0, <3>1 DEF WatchInv, WatchTypes, Seen
  <2>2. CASE dir[h] # 0 /\ fw = "scan" /\ IsChange(h)
    <3>1. /\ fw' = "send" /\ todo' = todo /\ known' = known
          /\ modTimes' = [modTimes EXCEPT ![h] = dir[h]]
      BY <1>3, <2>2 DEF Stat
    <3>2. ASSUME h \in Files PROVE dir[h] # modTimes[h] /\ dir[h] \in Times
      <4>1. dir[h] \in {0} \cup Times /\ modTimes[h] \in {0} \cup Times
        BY <3>2 DEF WatchInv, WatchTypes
      <4>2. dir[h] \in Nat /\ modTimes[h] \in Nat
        <5>1. \A x \in {0} \cup Times : x \in Nat
          BY WatchAssumption
        <5>2. QED
          BY <4>1, <5>1
      <4>3. modTimes[h] = 0 \/ dir[h] > modTimes[h]
        BY <2>2 DEF IsChange
      <4>4. QED
        BY <2>2, <4>1, <4>2, <4>3
    <3>3. WatchTypes'
      BY <2>0, <3>1, <3>2 DEF WatchInv, WatchTypes
    <3>4. ASSUME NEW f \in Files
          PROVE  modTimes'[f] = IF f = h THEN dir[h] ELSE modTimes[f]
      BY <3>1 DEF WatchInv, WatchTypes
    <3>5. Entry' = Entry /\ \A f \in Files : Seen(f)' = Seen(f)
      BY <2>0, <3>1, EntryKept DEF Seen
    <3>6. ASSUME NEW f \in Files
          PROVE  /\ unused' \cap (Seen(f)' \cup {dir'[f], modTimes'[f]}) = {}
                 /\ dir'[f] \notin {0, modTimes'[f]} => dir'[f] \notin Seen(f)'
                 /\ f = h => modTimes'[f] \notin Seen(f)'
      <4>1. CASE f = h
        BY <2>0, <2>2, <3>2, <3>4, <3>5, <4>1 DEF WatchInv
      <4>2. CASE f # h
        BY <2>0, <3>4, <3>5, <4>2 DEF WatchInv
      <4>3. QED
        BY <4>1, <4>2
    <3>7. QED
      BY <2>0, <3>3, <3>5, <3>6 DEF WatchInv
  <2>3. CASE dir[h] # 0 /\ ~(fw = "scan" /\ IsChange(h))
    <3>1. /\ fw' = fw
          /\ modTimes' = [modTimes EXCEPT ![h] = dir[h]]
          /\ known' = known \/ known' = [known EXCEPT ![h] = @ \cup {dir[h]}]
      BY <1>3, <2>3 DEF Stat
    <3>2. h \in Files => dir[h] \in Times
      BY <2>3 DEF WatchInv, WatchTypes
    <3>3. WatchTypes'
      <4>1. modTimes' \in [Files -> {0} \cup Times]
        BY <3>1, <3>2 DEF WatchInv, WatchTypes
      <4>2. known' \in [Files -> SUBSET Times]
        <5>1. CASE h \in Files
          BY <3>1, <3>2, <5>1 DEF WatchInv, WatchTypes
        <5>2. CASE h \notin Files
          BY <3>1, <5>2 DEF WatchInv, WatchTypes
        <5>3. QED
          BY <5>1, <5>2
      <4>3. QED
        BY <2>0, <4>1, <4>2 DEF WatchInv, WatchTypes
    <3>4. ASSUME NEW f \in Files
          PROVE  /\ modTimes'[f] = IF f = h THEN dir[h] ELSE modTimes[f]
                 /\ known'[f] \subseteq known[f] \cup (IF f = h THEN {dir[h]} ELSE {})
      BY <3>1 DEF WatchInv, WatchTypes
    <3>5. QED
      BY <2>0, <3>1, <3>3, <3>4 DEF WatchInv, Seen
  <2>4. QED
    BY <2>1, <2>2, <2>3
<1>4. CASE SendChange
  <2> DEFINE h == Entry
  <2>1. /\ reported' = [reported EXCEPT ![h] = @ \cup {modTimes[h]}]
        /\ fw' = "scan"
        /\ UNCHANGED <<modTimes, known, dir, unused>>
    BY <1>4 DEF SendChange, dirVars
  <2>2. ASSUME NEW f \in Files
        PROVE  reported'[f] = reported[f] \cup (IF f = h THEN {modTimes[f]} ELSE {})
    BY <2>1 DEF WatchInv, WatchTypes
  <2>3. reported' \in [Files -> SUBSET ({0} \cup Times)]
    <3>1. \A f \in Files : reported'[f] \in SUBSET ({0} \cup Times)
      <4> SUFFICES ASSUME NEW f \in Files PROVE reported'[f] \subseteq {0} \cup Times
        OBVIOUS
      <4>1. modTimes[f] \in {0} \cup Times /\ reported[f] \subseteq {0} \cup Times
        BY DEF WatchInv, WatchTypes
      <4>2. QED
        BY <2>2, <4>1
    <3>2. reported' = [f \in Files |-> reported'[f]]
      BY <2>1 DEF WatchInv, WatchTypes
    <3>3. QED
      BY <3>1, <3>2
  <2>4. QED
    BY <2>1, <2>2, <2>3 DEF WatchInv, WatchTypes, Seen
<1>5. CASE UNCHANGED <<dirVars, fwVars>>
  BY <1>5, EntryKept DEF dirVars, fwVars, WatchInv, WatchTypes, Seen
<1>6. CASE Spawn \/ StopListeners
  BY <1>6, EntryKept DEF Spawn, Born, StopListeners, StopWatcher, dirVars, fwVars, WatchInv, WatchTypes, Seen
<1>7. QED
  <2>1. ASSUME NEW r \in Requests, HandlerStep(r) \/ Client(r)
        PROVE  UNCHANGED <<dirVars, fwVars>>
    BY <2>1 DEF HandlerStep, Client
  <2>2. CASE \/ Close \/ Exit \/ (\E l \in Registered : Leave(l))
             \/ Receive \/ Dispatched \/ ReaderEnds \/ Cancel \/ ServerStep
             \/ UNCHANGED allVars
    BY <2>2, <1>5 DEF Close, Exit, Leave, Receive, Dispatched, ReaderEnds, Cancel, ServerStep, allVars
  <2>3. CASE WatcherStep
    BY <2>3, <1>2, <1>3, <1>4 DEF WatcherStep, Scanner
  <2>4. QED
    BY <2>1, <2>2, <2>3, <1>1, <1>5, <1>6 DEF Next, Manager

\* No version of a file is reported twice, nor one that the initial scan has
\* seen (file_watcher.go:82-119), however the directory changes meanwhile.
THEOREM NoDoubleReport == Spec => ReportedOnce
<1>1. Init => WatchInv
  BY WatchAssumption DEF Init, WatcherInit, WatchInv, WatchTypes, Seen
<1>2. WatchInv /\ [Next]_allVars => WatchInv'
  BY WatchInvStep
<1>3. ASSUME WatchInv, [Next]_allVars
      PROVE  [\A f \in Files :
                reported'[f] # reported[f] \/ (fw = "send" /\ fw' = "scan" /\ Entry = f)
                  => modTimes[f] \notin known[f] \cup reported[f]]_allVars
  <2> SUFFICES ASSUME NEW f \in Files,
                      reported'[f] # reported[f]
                        \/ (fw = "send" /\ fw' = "scan" /\ Entry = f)
               PROVE  modTimes[f] \notin known[f] \cup reported[f]
    OBVIOUS
  <2>1. CASE fw = "send" /\ Entry = f
    BY <1>3, <2>1 DEF WatchInv, Seen
  <2>2. CASE reported'[f] # reported[f]
    <3>1. SendChange
      BY <1>3, <2>2 DEF Next, Manager, Spawn, Born, StopListeners, StopWatcher, Close, Exit, Leave,
         Receive, Dispatched, ReaderEnds, Cancel, WatcherStep, Scanner, List, Stat,
         EndScan, Quit, ServerStep, HandlerStep, Client, DirStep, fwVars, allVars
    <3>2. fw = "send" /\ Entry = f
      BY <3>1, <2>2, <1>3 DEF SendChange, WatchInv, WatchTypes
    <3>3. QED
      BY <2>1, <3>2
  <2>3. QED
    BY <2>1, <2>2
<1>4. QED
  BY <1>1, <1>2, <1>3, PTL DEF Spec, ReportedOnce
-------------------------------------------------------------------------------
(* Types of the composition *)

\* The parts of TypeOK beside WatchInv and ManagerInv: the channel, the watcher,
\* the webhook, and the reader.
ChannelOK ==
  /\ events \in Seq(Events) /\ Len(events) <= BufferSize
  /\ closed \in BOOLEAN /\ cancelled \in BOOLEAN

ScanOK ==
  /\ fw \in {"unborn", "new", "initial", "idle", "scan", "send", "stopped"}
  /\ todo \subseteq Files
  /\ fwDone \in BOOLEAN /\ faults \in 0..MaxFaults
  /\ reported \in [Files -> SUBSET Times]
  /\ fw = "send" => todo # {} /\ modTimes[Entry] # 0

WebhookOK ==
  /\ wh \in {"unborn", "new", "serving", "failed", "stopped"}
  /\ shut \in BOOLEAN /\ whDone \in BOOLEAN
  /\ handler \in [Requests -> {"none", "refused", "body", "send", "accepted", "panicked"}]

ReaderOK == reader \in {"recv", "busy", "over"} /\ taken \subseteq Requests

TypeInv == WatchInv /\ ManagerInv /\ ChannelOK /\ ScanOK /\ WebhookOK /\ ReaderOK

\* While there are entries to visit, the next is one of them.
LEMMA EntryIsFile ==
  ASSUME todo \subseteq Files, todo # {}
  PROVE  Entry \in todo /\ Entry \in Files
<1>1. todo \in SUBSET Nat
  BY DEF Files
<1>2. QED
  BY <1>1, MinNat DEF Entry

\* The channel: what is sent is an event, and only where there is room.
LEMMA ChannelStep ==
  ASSUME TypeInv, [Next]_allVars
  PROVE  ChannelOK'
<1> USE DEF TypeInv, ChannelOK
<1>1. ASSUME NEW e \in Events, Send(e)
      PROVE  ChannelOK'
  <2>1. events' = Append(events, e) /\ Len(events) < BufferSize
    BY <1>1 DEF Send
  <2>2. QED
    BY <1>1, <2>1, BufferAssumption DEF Send
<1>2. CASE WatcherStep
  <2>1. CASE SendChange
    <3>1. Entry \in Files
      BY <2>1, EntryIsFile DEF SendChange, ScanOK
    <3>2. QED
      BY <2>1, <3>1, <1>1 DEF SendChange, Events
  <2>2. CASE List \/ Stat \/ EndScan \/ Quit
    BY <2>2 DEF List, Stat, EndScan, Quit, channelVars
  <2>3. QED
    BY <1>2, <2>1, <2>2 DEF WatcherStep, Scanner
<1>3. ASSUME NEW r \in Requests, HandlerStep(r) \/ Client(r)
      PROVE  ChannelOK'
  <2>1. UNCHANGED channelVars \/ Send([from |-> "webhook", request |-> r])
    BY <1>3 DEF HandlerStep, Client, Handling, SendRequest, Panic, Request, ReadBody
  <2>2. QED
    BY <2>1, <1>1 DEF Events, channelVars
<1>4. CASE Receive
  BY <1>4, BufferAssumption DEF Receive
<1>5. CASE Close \/ Cancel
  BY <1>5 DEF Close, Cancel
<1>6. ASSUME NEW l \in Registered, Leave(l)
      PROVE  UNCHANGED channelVars
  BY <1>6 DEF Leave
<1>7. ASSUME \/ Spawn \/ StopListeners \/ Exit \/ Dispatched \/ ReaderEnds \/ ServerStep
             \/ DirStep \/ UNCHANGED allVars
      PROVE  UNCHANGED channelVars
  BY <1>7 DEF Spawn, StopListeners, Exit, Dispatched, ReaderEnds, ServerStep, Serving,
     Listen, Shutdown, ServeReturns, DirStep, allVars
<1>8. QED
  BY <1>2, <1>3, <1>4, <1>5, <1>6, <1>7 DEF Next, Manager, channelVars

\* The watcher: a scan visits files, and sends only for one with an entry.
LEMMA ScanStep ==
  ASSUME TypeInv, [Next]_allVars
  PROVE  ScanOK'
<1> USE DEF TypeInv, ScanOK
<1>1. CASE List
  BY <1>1, WatchAssumption DEF List, Listing
<1>2. CASE EndScan \/ Quit
  BY <1>2 DEF EndScan, Quit
<1>3. CASE Stat
  <2>1. Entry \in Files
    BY <1>3, EntryIsFile DEF Stat
  <2>2. /\ UNCHANGED <<fwDone, faults, reported>>
        /\ todo' \subseteq todo /\ fw' \in {"initial", "scan", "send"}
    BY <1>3 DEF Stat, Rest
  <2>3. fw' = "send" => todo' = todo /\ todo # {} /\ modTimes'[Entry] # 0
    BY <1>3, <2>1 DEF Stat, WatchInv, WatchTypes
  <2>4. QED
    BY <2>2, <2>3, EntryKept
<1>4. CASE SendChange
  <2>1. Entry \in Files
    BY <1>4, EntryIsFile DEF SendChange
  <2>2. modTimes[Entry] \in Times
    BY <1>4, <2>1 DEF SendChange, WatchInv, WatchTypes
  <2>3. reported' = [reported EXCEPT ![Entry] = @ \cup {modTimes[Entry]}]
    BY <1>4 DEF SendChange
  <2>4. reported' \in [Files -> SUBSET Times]
    BY <2>2, <2>3
  <2>5. UNCHANGED <<fwDone, faults>> /\ todo' \subseteq todo /\ fw' = "scan"
    BY <1>4 DEF SendChange, Rest
  <2>6. QED
    BY <2>4, <2>5
<1>5. CASE Spawn \/ StopListeners
  <2>1. /\ UNCHANGED <<todo, modTimes, faults, reported>>
        /\ fw' \in {fw, "new"} /\ fwDone' \in {fwDone, TRUE}
    BY <1>5 DEF Spawn, Born, StopListeners, StopWatcher, fwVars
  <2>2. QED
    BY <2>1, EntryKept
<1>6. ASSUME NEW l \in Registered, Leave(l)
      PROVE  UNCHANGED fwVars
  BY <1>6 DEF Leave
<1>7. ASSUME NEW r \in Requests, HandlerStep(r) \/ Client(r)
      PROVE  UNCHANGED fwVars
  BY <1>7 DEF HandlerStep, Client
<1>8. ASSUME \/ Close \/ Exit \/ Receive \/ Dispatched \/ ReaderEnds \/ Cancel
             \/ ServerStep \/ DirStep \/ UNCHANGED allVars
      PROVE  UNCHANGED fwVars
  BY <1>8 DEF Close, Exit, Receive, Dispatched, ReaderEnds, Cancel, ServerStep, DirStep,
     allVars
<1>9. CASE UNCHANGED fwVars
  BY <1>9, EntryKept DEF fwVars
<1>10. QED
  BY <1>1, <1>2, <1>3, <1>4, <1>5, <1>6, <1>7, <1>8, <1>9
     DEF Next, Manager, WatcherStep, Scanner

LEMMA WebhookStep ==
  ASSUME TypeInv, [Next]_allVars
  PROVE  WebhookOK'
<1> USE DEF TypeInv, WebhookOK
<1>1. CASE ServerStep
  BY <1>1 DEF ServerStep, Serving, Listen, Shutdown, ServeReturns
<1>2. ASSUME NEW r \in Requests, HandlerStep(r) \/ Client(r)
      PROVE  WebhookOK'
  <2>1. \E s \in {"refused", "body", "send", "accepted", "panicked"} :
          handler' = [handler EXCEPT ![r] = s]
    BY <1>2 DEF HandlerStep, Client, Handling, SendRequest, Panic, Request, ReadBody
  <2>2. UNCHANGED <<wh, shut, whDone>>
    BY <1>2 DEF HandlerStep, Client, Handling, SendRequest, Panic, Request, ReadBody
  <2>3. QED
    BY <2>1, <2>2
<1>3. CASE Spawn \/ StopListeners
  <2>1. UNCHANGED <<shut, handler>> /\ wh' \in {wh, "new"} /\ whDone' \in {whDone, TRUE}
    BY <1>3 DEF Spawn, Born, StopListeners, StopWebhook, whVars
  <2>2. QED
    BY <2>1
<1>4. ASSUME NEW l \in Registered, Leave(l)
      PROVE  UNCHANGED whVars
  BY <1>4 DEF Leave
<1>5. ASSUME \/ Close \/ Exit \/ Receive \/ Dispatched \/ ReaderEnds \/ Cancel
             \/ WatcherStep \/ UNCHANGED allVars
             \/ DirStep /\ UNCHANGED <<whVars, listenersVars>>
      PROVE  UNCHANGED whVars
  BY <1>5 DEF Close, Exit, Receive, Dispatched, ReaderEnds, Cancel, WatcherStep, allVars
<1>6. QED
  BY <1>1, <1>2, <1>3, <1>4, <1>5 DEF Next, Manager, whVars

\* The reader: what it takes of the webhook's events are requests.
LEMMA ReaderStep ==
  ASSUME TypeInv, [Next]_allVars
  PROVE  ReaderOK'
<1> USE DEF TypeInv, ReaderOK
<1>1. CASE Receive
  <2>1. Head(events) \in Events
    BY <1>1 DEF Receive, ChannelOK
  <2>2. Head(events).from = "webhook" => Head(events).request \in Requests
    BY <2>1 DEF Events
  <2>3. QED
    BY <1>1, <2>2 DEF Receive
<1>2. CASE Dispatched \/ ReaderEnds
  BY <1>2 DEF Dispatched, ReaderEnds
<1>3. ASSUME NEW l \in Registered, Leave(l)
      PROVE  UNCHANGED readerVars
  BY <1>3 DEF Leave
<1>4. ASSUME NEW r \in Requests, HandlerStep(r) \/ Client(r)
      PROVE  UNCHANGED readerVars
  BY <1>4 DEF HandlerStep, Client, listenersVars
<1>5. ASSUME \/ Manager \/ Exit \/ Cancel \/ WatcherStep \/ ServerStep
             \/ UNCHANGED allVars
             \/ DirStep /\ UNCHANGED <<whVars, listenersVars>>
      PROVE  UNCHANGED readerVars
  BY <1>5 DEF Manager, Spawn, StopListeners, Close, Exit, Cancel, WatcherStep, ServerStep,
     listenersVars, allVars
<1>6. QED
  BY <1>1, <1>2, <1>3, <1>4, <1>5 DEF Next, readerVars

\* Type correctness of all the variables of the listeners and their channel:
\* the channel holds events, within its capacity, the counter of the WaitGroup
\* is never negative, and no event is in the making for a file without an entry
\* in modTimes (file_watcher.go:104-112, webhook.go, manager.go).
THEOREM Typing == Spec => []TypeOK
<1>1. Init => TypeInv
  <2> SUFFICES ASSUME Init PROVE TypeInv
    OBVIOUS
  <2>1. WatchInv
    BY WatchAssumption DEF Init, WatcherInit, WatchInv, WatchTypes, Seen
  <2>2. ChannelOK
    <3>1. events = <<>> /\ closed = FALSE /\ cancelled = FALSE
      BY DEF Init, ChannelInit
    <3>2. events \in Seq(Events) /\ Len(events) <= BufferSize
      BY <3>1, BufferAssumption
    <3>3. QED
      BY <3>1, <3>2 DEF ChannelOK
  <2>3. ScanOK
    <3>1. /\ fw = "unborn" /\ todo = {} /\ fwDone = FALSE /\ faults = 0
          /\ reported = [f \in Files |-> {}]
      BY DEF Init, WatcherInit
    <3>2. faults \in 0..MaxFaults /\ reported \in [Files -> SUBSET Times]
      BY <3>1, WatchAssumption
    <3>3. QED
      BY <3>1, <3>2 DEF ScanOK
  <2>4. WebhookOK
    BY DEF Init, WebhookInit, WebhookOK
  <2>5. ReaderOK
    BY DEF Init, ReaderOK
  <2>6. QED
    BY <2>1, <2>2, <2>3, <2>4, <2>5, InitManagerInv DEF TypeInv
<1>2. TypeInv /\ [Next]_allVars => TypeInv'
  BY WatchInvStep, ManagerInvStep, ChannelStep, ScanStep, WebhookStep, ReaderStep DEF TypeInv
<1>3. TypeInv => TypeOK
  <2> SUFFICES ASSUME TypeInv PROVE TypeOK
    OBVIOUS
  <2>1. wg \in 0..2
    BY DEF TypeInv, ManagerInv, Counted
  <2>2. QED
    BY <2>1 DEF TypeInv, ManagerInv, ChannelOK, ScanOK, WebhookOK, ReaderOK, WatchInv,
       WatchTypes, TypeOK
<1>4. QED
  BY <1>1, <1>2, <1>3, PTL DEF Spec
===============================================================================
