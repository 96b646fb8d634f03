------------------------------- MODULE Listeners -------------------------------
(***************************************************************************)
(* Manager.Start of internal/listener with one file watcher and one        *)
(* webhook, and the goroutine of the server that takes their events        *)
(* (handleListenerEvents).  That one hands each event to the pool and may  *)
(* wait there.                                                             *)
(***************************************************************************)
EXTENDS FileWatcher, Webhook

VARIABLES
  mgr,      \* where Manager.Start, then the main goroutine, stands
  wg,       \* counter of Manager.Start's WaitGroup
  gone,     \* listeners whose goroutine has called Done
  reader,   \* where handleListenerEvents stands
  taken     \* history: requests whose event has been taken from the channel

\* The listeners, in this order.
Registered == {"watcher", "webhook"}

readerVars == <<reader, taken>>
listenersVars == <<mgr, wg, gone, readerVars>>
allVars == <<channelVars, dirVars, fwVars, whVars, listenersVars>>

Init ==
  /\ ChannelInit /\ WatcherInit /\ WebhookInit
  /\ mgr = "start" /\ wg = 0 /\ gone = {}
  /\ reader = "recv" /\ taken = {}

\* With the main goroutine the process ends, and every goroutine with it.
Alive == mgr # "exited"

\* A listener's goroutine is started.
Born(l) ==
  \/ /\ l = "watcher" /\ fw' = "new"
     /\ UNCHANGED <<whVars, todo, modTimes, fwDone, faults, known, reported>>
  \/ /\ l = "webhook" /\ wh' = "new"
     /\ UNCHANGED <<fwVars, shut, whDone, handler>>

\* Faulty variant: Add(1) once, ahead of the loop.
Spawn_AddOnce ==
  /\ \/ mgr = "start" /\ mgr' = "spawning" /\ wg' = wg + 1 /\ Born("watcher")
     \/ mgr = "spawning" /\ mgr' = "running" /\ wg' = wg /\ Born("webhook")
  /\ UNCHANGED <<channelVars, dirVars, gone, readerVars>>

\* The loop over the listeners: Add(1), then go.
Spawn ==
  /\ \/ mgr = "start" /\ mgr' = "spawning" /\ Born("watcher")
     \/ mgr = "spawning" /\ mgr' = "running" /\ Born("webhook")
  /\ wg' = wg + 1
  /\ UNCHANGED <<channelVars, dirVars, gone, readerVars>>

\* The goroutine of a listener: Start has returned, and the deferred Done runs.
Returned(l) ==
  \/ l = "watcher" /\ fw = "stopped"
  \/ l = "webhook" /\ wh \in {"stopped", "failed"}

Leave(l) ==
  /\ Returned(l) /\ l \notin gone
  /\ gone' = gone \cup {l}
  /\ wg' = wg - 1
  /\ UNCHANGED <<channelVars, dirVars, fwVars, whVars, mgr, readerVars>>

\* After <-ctx.Done() every listener is told to stop, in turn.
StopListeners ==
  /\ \/ /\ mgr = "running" /\ cancelled
        /\ mgr' = "stopping"
        /\ StopWatcher /\ UNCHANGED whVars
     \/ /\ mgr = "stopping"
        /\ mgr' = "waiting"
        /\ StopWebhook /\ UNCHANGED fwVars
  /\ UNCHANGED <<channelVars, dirVars, wg, gone, readerVars>>

\* wg.Wait returns when the counter is zero; then the channel is closed.
Close ==
  /\ mgr = "waiting"
  /\ wg = 0
  /\ mgr' = "returned" /\ closed' = TRUE
  /\ UNCHANGED <<events, cancelled, dirVars, fwVars, whVars, wg, gone, readerVars>>

Manager == Spawn \/ StopListeners \/ Close

\* server.run goes on to pool.Wait, which may return at once, and main returns.
Exit ==
  /\ mgr = "returned"
  /\ mgr' = "exited"
  /\ UNCHANGED <<channelVars, dirVars, fwVars, whVars, wg, gone, readerVars>>

\* Faulty variant: the reader leaves the loop when the context is done.
Receive_UntilCancelled ==
  /\ Alive
  /\ reader = "recv" /\ events # <<>> /\ ~cancelled
  /\ events' = Tail(events)
  /\ reader' = "busy"
  /\ taken' = IF Head(events).from = "webhook"
              THEN taken \cup {Head(events).request} ELSE taken
  /\ UNCHANGED <<closed, cancelled, dirVars, fwVars, whVars, mgr, wg, gone>>

(* The reader ranges over the channel: what is in it is taken even after   *)
(* the close, as long as the process lives.  Nobody waits for the reader.  *)
Receive ==
  /\ Alive
  /\ reader = "recv" /\ events # <<>>
  /\ events' = Tail(events)
  /\ reader' = "busy"
  /\ taken' = IF Head(events).from = "webhook"
              THEN taken \cup {Head(events).request} ELSE taken
  /\ UNCHANGED <<closed, cancelled, dirVars, fwVars, whVars, mgr, wg, gone>>

\* dispatchPipeline returns.
Dispatched ==
  /\ Alive
  /\ reader = "busy"
  /\ reader' = "recv"
  /\ UNCHANGED <<channelVars, dirVars, fwVars, whVars, mgr, wg, gone, taken>>

ReaderEnds ==
  /\ Alive
  /\ reader = "recv" /\ events = <<>> /\ closed
  /\ reader' = "over"
  /\ UNCHANGED <<channelVars, dirVars, fwVars, whVars, mgr, wg, gone, taken>>

Cancel ==
  /\ ~cancelled
  /\ cancelled' = TRUE
  /\ UNCHANGED <<events, closed, dirVars, fwVars, whVars, listenersVars>>

(* The listeners' own goroutines have ended before the process can, see    *)
(* CloseAfterListeners; the handlers of requests may not have.             *)
WatcherStep == (Scanner \/ Quit) /\ UNCHANGED <<whVars, listenersVars>>
ServerStep == Serving /\ UNCHANGED <<dirVars, fwVars, listenersVars>>
HandlerStep(r) == Alive /\ Handling(r) /\ UNCHANGED <<dirVars, fwVars, listenersVars>>
Client(r) ==
  Alive /\ (Request(r) \/ ReadBody(r)) /\ UNCHANGED <<dirVars, fwVars, listenersVars>>

Next ==
  \/ Manager \/ Exit \/ Receive \/ Dispatched \/ ReaderEnds \/ Cancel
  \/ WatcherStep \/ ServerStep
  \/ \E l \in Registered : Leave(l)
  \/ \E r \in Requests : HandlerStep(r) \/ Client(r)
  \/ DirStep /\ UNCHANGED <<whVars, listenersVars>>

(* Goroutines are scheduled and tickers fire; a select that finds the       *)
(* context done again and again takes it.  A dispatch comes to an end:      *)
(* after the signal always, because Submit's select watches the context,    *)
(* before it unless the pool is jammed, where the first two liveness        *)
(* properties below wait for the signal.  Clients, files, the signal and    *)
(* the moment at which the process exits are free.                          *)
Fairness ==
  /\ WF_allVars(Manager)
  /\ WF_allVars(WatcherStep \/ Leave("watcher"))
  /\ SF_allVars(Quit /\ UNCHANGED <<whVars, listenersVars>>)
  /\ WF_allVars(ServerStep \/ Leave("webhook"))
  /\ \A r \in Requests : WF_allVars(HandlerStep(r))
  /\ WF_allVars(Receive \/ Dispatched \/ ReaderEnds)

Spec == Init /\ [][Next]_allVars /\ Fairness

-------------------------------------------------------------------------------
(* Safety *)

Events == [from : {"watcher"}, file : Files] \cup [from : {"webhook"}, request : Requests]

\* Types of all the variables, the channel within its capacity; and no event is
\* in the making for a file that has no entry in modTimes (file_watcher.go:104-112).
TypeOK ==
  /\ events \in Seq(Events) /\ Len(events) <= BufferSize
  /\ closed \in BOOLEAN /\ cancelled \in BOOLEAN
  /\ dir \in [Files -> {0} \cup Times] /\ unused \subseteq Times
  /\ fw \in {"unborn", "new", "initial", "idle", "scan", "send", "stopped"}
  /\ todo \subseteq Files
  /\ modTimes \in [Files -> {0} \cup Times]
  /\ fwDone \in BOOLEAN /\ faults \in 0..MaxFaults
  /\ known \in [Files -> SUBSET Times] /\ reported \in [Files -> SUBSET Times]
  /\ wh \in {"unborn", "new", "serving", "failed", "stopped"}
  /\ shut \in BOOLEAN /\ whDone \in BOOLEAN
  /\ handler \in [Requests -> {"none", "refused", "body", "send", "accepted", "panicked"}]
  /\ mgr \in {"start", "spawning", "running", "stopping", "waiting", "returned", "exited"}
  /\ wg \in 0..2 /\ gone \subseteq Registered
  /\ reader \in {"recv", "busy", "over"} /\ taken \subseteq Requests
  /\ fw = "send" => todo # {} /\ modTimes[Entry] # 0

\* The manager does not close the channel under a listener that has yet to be
\* started or is still in Start: so the file watcher never sends on a closed
\* channel, where no one would recover its panic.
CloseAfterListeners == closed => Returned("watcher") /\ Returned("webhook")

\* A version of a file is reported at most once, and not at all if the initial
\* scan has seen it, whatever is written, moved in or removed between listing
\* and stat or while a send blocks, and whether or not the directory can be
\* read.  (Every file that comes has a time of its own; one moved back with the
\* time it had is outside the model, see DirStep.)
ReportedOnce ==
  [][\A f \in Files :
       reported'[f] # reported[f] \/ (fw = "send" /\ fw' = "scan" /\ Entry = f)
         => modTimes[f] \notin known[f] \cup reported[f]]_allVars

(* Liveness *)

\* A file that is newer than what the watcher has recorded of it is reported,
\* unless the file changes again or the watcher has stopped.
NewerFilesAreReported ==
  \A f \in Files, t \in Times :
    (fw \in {"idle", "scan"} /\ dir[f] = t /\ t > modTimes[f])
      ~> (t \in reported[f] \/ dir[f] # t \/ fw = "stopped")

\* A request that was answered with 202 has its event taken by the server, even
\* when the answer was given during the shutdown, unless the process exits first.
AcceptedIsTaken ==
  \A r \in Requests : handler[r] = "accepted" ~> r \in taken \/ ~Alive

\* After the signal Manager.Start returns, even from a watcher that is blocked
\* on the full channel.
ManagerReturns == cancelled ~> mgr \in {"returned", "exited"}

(* What the documentation says *)

\* manager.go: Start "blocks until the context is cancelled, then stops all
\* listeners".  When it has returned no listener is at work any more.
ListenersAreStopped ==
  mgr = "returned" => \A r \in Requests : handler[r] \notin {"body", "send"}
===============================================================================
