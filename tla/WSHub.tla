--------------------------------- MODULE WSHub ---------------------------------
(***************************************************************************)
(* The WebSocket hub of cmd/server/ws.go: connections are upgraded and     *)
(* added, broadcasts write to a copy of the client set, a read pump per    *)
(* connection answers pings and removes the connection when it ends.       *)
(*                                                                         *)
(* Broadcasts run in the hooks of the pool's workers and in the watcher of *)
(* the pipeline files.  A connection has one mutex, held for the writes of *)
(* one frame: its header, then its data.  Nothing sets a write deadline.   *)
(***************************************************************************)
EXTENDS WSFrame, SequencesExt

CONSTANTS
  Conns,          \* connections
  Broadcasters,   \* goroutines that broadcast
  MaxBroadcasts,  \* bound: broadcasts of each
  Unsteady,       \* bound: the connections whose clients ping, leave or stop
  MaxPings,       \* bound: pings on each of these
  Lengths         \* bound: payload lengths that are encoded

Writers == Broadcasters \cup Conns   \* the pump of c writes as c
Free == "free"

ASSUME HubAssumption ==
  /\ IsFiniteSet(Conns)
  /\ Conns \cap Broadcasters = {} /\ Free \notin Writers
ASSUME LengthsAssumption == \A n \in Lengths : n \in Nat /\ n <= 2147483647

VARIABLES
  stage,     \* stage[c]: how many steps of the upgrade are done
  clients,   \* h.clients
  peer,      \* peer[c]: how the client behaves
  closed,    \* closed[c]: the server has closed the connection
  mutex,     \* mutex[c]: the writer that holds it, or Free
  at,        \* at[w]: where a broadcaster or a pump stands
  todo,      \* todo[b]: the clients b has copied and is not done with
  rounds,    \* rounds[b]: broadcasts b has begun
  pings,     \* pings[c]: pings the pump of c has read
  last,      \* history: last[c], the last piece written to c
  sent       \* history: sent[b][c], data of b's broadcast written to each
             \* client c that it copied

hubVars == <<clients, closed, mutex, todo>>
envVars == <<stage, peer, rounds, pings>>
history == <<last, sent>>
vars == <<hubVars, envVars, at, history>>

Nothing == [by |-> Free, part |-> "nothing"]

Init ==
  /\ stage = [c \in Conns |-> 0]
  /\ clients = {}
  /\ peer = [c \in Conns |-> "well"]
  /\ closed = [c \in Conns |-> FALSE]
  /\ mutex = [c \in Conns |-> Free]
  /\ at = [w \in Writers |-> IF w \in Conns THEN "none" ELSE "idle"]
  /\ todo = [b \in Broadcasters |-> <<>>]
  /\ rounds = [b \in Broadcasters |-> 0]
  /\ pings = [c \in Conns |-> 0]
  /\ last = [c \in Conns |-> Nothing]
  /\ sent = [b \in Broadcasters |-> <<>>]

Goto(w, a, b) == at[w] = a /\ at' = [at EXCEPT ![w] = b]

\* A write to the connection fails.
Dead(c) == closed[c] \/ peer[c] = "gone"

\* The connection w writes to.
To(w) == IF w \in Conns THEN w ELSE Head(todo[w])

\* w writes a piece to connection c, which succeeds.
Wrote(w, c, p) ==
  /\ ~Dead(c)
  /\ last' = [last EXCEPT ![c] = [by |-> w, part |-> p]]

-------------------------------------------------------------------------------
(* handleUpgrade *)

\* Faulty variants: the client is added before the response is written, or
\* after its pump is started.
Order_AddFirst == <<"add", "respond", "pump">>
Order_PumpFirst == <<"respond", "pump", "add">>

Order == <<"respond", "add", "pump">>

\* A write error of the response is ignored.
Upgrade(c) ==
  /\ stage[c] < 3
  /\ stage' = [stage EXCEPT ![c] = @ + 1]
  /\ LET do == Order[stage[c] + 1] IN
     \/ /\ do = "respond"
        /\ Wrote(c, c, "101") \/ (Dead(c) /\ UNCHANGED last)
        /\ UNCHANGED <<clients, at>>
     \/ /\ do = "add"
        /\ clients' = clients \cup {c}
        /\ UNCHANGED <<at, last>>
     \/ /\ do = "pump"
        /\ Goto(c, "none", "read")
        /\ UNCHANGED <<clients, last>>
  /\ UNCHANGED <<closed, mutex, todo, peer, rounds, pings, sent>>

-------------------------------------------------------------------------------
(* broadcast *)

\* The set is copied under the hub's lock, in no order.
Copy(b) ==
  /\ rounds[b] < MaxBroadcasts
  /\ Goto(b, "idle", "lock")
  /\ rounds' = [rounds EXCEPT ![b] = @ + 1]
  /\ \E order \in SetToSeqs(clients) : todo' = [todo EXCEPT ![b] = order]
  /\ sent' = [sent EXCEPT ![b] = [c \in clients |-> 0]]
  /\ UNCHANGED <<clients, closed, mutex, stage, peer, pings, last>>

EndBroadcast(b) ==
  /\ todo[b] = <<>>
  /\ Goto(b, "lock", "idle")
  /\ UNCHANGED <<hubVars, envVars, history>>

-------------------------------------------------------------------------------
(* writeText, writeFrame and wsWriteFrame, by a broadcast or for a pong *)

\* Faulty variant: there is no mutex.
Lock_None(w) ==
  /\ w \in Broadcasters => todo[w] # <<>>
  /\ Goto(w, "lock", "header")
  /\ UNCHANGED <<hubVars, envVars, history>>

Lock(w) ==
  /\ w \in Broadcasters => todo[w] # <<>>
  /\ Goto(w, "lock", "header")
  /\ mutex[To(w)] = Free
  /\ mutex' = [mutex EXCEPT ![To(w)] = w]
  /\ UNCHANGED <<clients, closed, todo, envVars, history>>

\* Faulty variant: the mutex is not deferred, an error leaves it locked.
Unlock_OnSuccess(w) == IF Dead(To(w)) THEN mutex ELSE [mutex EXCEPT ![To(w)] = Free]

\* The deferred Unlock.
Unlock(w) == [mutex EXCEPT ![To(w)] = Free]

\* A write fails: the broadcast removes the client, the pump reads on.
Fails(w, part) ==
  /\ Goto(w, part, IF w \in Conns THEN "read" ELSE "remove")
  /\ Dead(To(w))
  /\ mutex' = Unlock(w)
  /\ UNCHANGED <<todo, history>>

\* The header; a pong has no data, so its frame ends here.
Header(w) ==
  /\ \/ /\ Goto(w, "header", IF w \in Conns THEN "read" ELSE "data")
        /\ Wrote(w, To(w), "header")
        /\ mutex' = IF w \in Conns THEN Unlock(w) ELSE mutex
        /\ UNCHANGED <<todo, sent>>
     \/ Fails(w, "header")
  /\ UNCHANGED <<clients, closed, envVars>>

Data(b) ==
  /\ \/ /\ Goto(b, "data", "lock")
        /\ Wrote(b, To(b), "data")
        /\ mutex' = Unlock(b)
        /\ todo' = [todo EXCEPT ![b] = Tail(@)]
        /\ sent' = [sent EXCEPT ![b][To(b)] = @ + 1]
     \/ Fails(b, "data")
  /\ UNCHANGED <<clients, closed, envVars>>

-------------------------------------------------------------------------------
(* removeClient: off the set, then closed, by a broadcast or by the pump *)

Forget(w) ==
  /\ Goto(w, "remove", "close")
  /\ clients' = clients \ {To(w)}
  /\ UNCHANGED <<closed, mutex, todo, envVars, history>>

\* Faulty variant: a broadcast ends with the first client that fails.
AfterClose_Return(w) == IF w \in Conns THEN "over" ELSE "idle"

\* A pump is over, a broadcast goes on with the next client.
AfterClose(w) == IF w \in Conns THEN "over" ELSE "lock"

Close(w) ==
  /\ Goto(w, "close", AfterClose(w))
  /\ closed' = [closed EXCEPT ![To(w)] = TRUE]
  /\ todo' = IF w \in Conns THEN todo ELSE [todo EXCEPT ![w] = Tail(@)]
  /\ UNCHANGED <<clients, mutex, envVars, history>>

-------------------------------------------------------------------------------
(* readPump; a data frame changes nothing *)

ReadPing(c) ==
  /\ peer[c] \in {"well", "deaf"} /\ ~closed[c]
  /\ c \in Unsteady /\ pings[c] < MaxPings
  /\ Goto(c, "read", "lock")
  /\ pings' = [pings EXCEPT ![c] = @ + 1]
  /\ UNCHANGED <<hubVars, stage, peer, rounds, history>>

\* A close frame, or an error: a dead connection, or sixty seconds without a
\* frame from the client.
ReadEnds(c) ==
  /\ c \in Unsteady \/ Dead(c)
  /\ Goto(c, "read", "remove")
  /\ UNCHANGED <<hubVars, envVars, history>>

(* The clients: one that is deaf reads no more but still sends, one that    *)
(* is still does neither, and one that is gone has left.  Of a closed       *)
(* connection nothing matters any more.                                    *)
Worse == [well |-> {"deaf", "still", "gone"}, deaf |-> {"still", "gone"}, still |-> {"gone"}]

Client(c) ==
  /\ c \in Unsteady /\ ~Dead(c)
  /\ \E p \in Worse[peer[c]] : peer' = [peer EXCEPT ![c] = p]
  /\ UNCHANGED <<hubVars, stage, rounds, pings, at, history>>

Next ==
  \/ \E c \in Conns : Upgrade(c) \/ ReadPing(c) \/ ReadEnds(c) \/ Client(c)
  \/ \E b \in Broadcasters : Copy(b) \/ EndBroadcast(b) \/ Data(b)
  \/ \E w \in Writers : Lock(w) \/ Header(w) \/ Forget(w) \/ Close(w)

(* Goroutines are scheduled, a mutex is handed to one that waits for it.   *)
(* A write completes if the client reads and fails if it is dead; one to a *)
(* client that does not read may block for ever.  The deadline ends a read *)
(* when the client sends nothing more.                                     *)
Writes(w) == /\ Header(w) \/ (w \in Broadcasters /\ Data(w))
             /\ Dead(To(w)) \/ peer[To(w)] = "well"

Advance(w) ==
  \/ Writes(w) \/ Forget(w) \/ Close(w)
  \/ w \in Broadcasters /\ EndBroadcast(w)
  \/ w \in Conns /\ (Upgrade(w) \/ ((Dead(w) \/ peer[w] = "still") /\ ReadEnds(w)))

Fairness == \A w \in Writers : SF_vars(Lock(w)) /\ WF_vars(Advance(w))

Spec == Init /\ [][Next]_vars /\ Fairness

-------------------------------------------------------------------------------
(* Type correctness; and a mutex is held exactly by one that writes. *)
TypeOK ==
  /\ clients \subseteq Conns
  /\ mutex \in [Conns -> Writers \cup {Free}]
  /\ closed \in [Conns -> BOOLEAN]
  /\ \A w \in Writers :
       /\ at[w] \in {"none", "idle", "lock", "header", "data", "remove", "close", "read", "over"}
       /\ at[w] \in {"header", "data"} => mutex[To(w)] = w
  /\ \A c \in Conns : mutex[c] # Free => at[mutex[c]] \in {"header", "data"}
  /\ \A b \in Broadcasters : todo[b] \in Seq(Conns)

\* What a client is sent is the response to its upgrade and then whole frames:
\* a header with data is followed by its own data, whoever else broadcasts,
\* answers a ping or removes the client meanwhile, and a frame that is cut
\* short by an error is the last thing sent (ws.go:74-83, 146-158, 246-253).
Follows(p, n) ==
  /\ (n.part = "101") <=> (p = Nothing)
  /\ (n.part = "data") <=> (p.part = "header" /\ p.by \in Broadcasters)
  /\ n.part = "data" => n.by = p.by
FramesWhole == [][\A c \in Conns : last'[c] # last[c] => Follows(last[c], last'[c])]_vars

\* A connection that the server has closed is not among the clients, and so in
\* no later broadcast, even if a broadcast and its pump both remove it.
ClosedIsForgotten == \A c \in Conns : closed[c] => c \notin clients

\* When a broadcast ends, each client that it has copied has been sent one
\* frame of it, or its connection has failed: one failing client costs no
\* other one its event.
EachIsSent ==
  \A b \in Broadcasters : at[b] = "idle" =>
    \A c \in DOMAIN sent[b] : Dead(c) \/ sent[b][c] = 1

\* A header that has been sent is read back by wsReadFrame, for every length
\* of the data behind it up to the limit, masked (as a client's would be) or
\* not, and is used up; a longer one is refused.
LengthsReadBack ==
  \A c \in Conns : last[c].part = "header" =>
    \A n \in Lengths : \A h \in {LengthBytes(n), Masked(LengthBytes(n))} :
      ReadLength(h) = IF n > MaxFrame THEN [error |-> TRUE]
                      ELSE [error |-> FALSE, length |-> n, used |-> Len(h)]

(* Liveness *)

\* A client that has stopped reading and cannot be timed out: it still sends,
\* or its pump waits to write a pong and reads no more.
Immune(c) ==
  /\ ~closed[c]
  /\ peer[c] = "deaf" \/ (peer[c] = "still" /\ at[c] \in {"lock", "header"})

\* A broadcast, and with it the hook of the worker it runs in, comes to an end,
\* because the read deadline closes the connection of a client that neither
\* reads nor sends.  It need not where a client reads nothing and is not timed
\* out.
BroadcastEnds ==
  \A b \in Broadcasters : at[b] # "idle" ~> (at[b] = "idle" \/ \E c \in Conns : Immune(c))
===============================================================================
