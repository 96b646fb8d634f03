----------------------------- MODULE EventChannel -----------------------------
(***************************************************************************)
(* The channel of listener events made by NewManager, which every listener *)
(* is given to send on, and the context that every listener watches.       *)
(***************************************************************************)
EXTENDS Naturals, Sequences

CONSTANT BufferSize

ASSUME BufferAssumption == BufferSize \in Nat \ {0}

VARIABLES
  events,     \* contents of the channel
  closed,     \* Manager.Start has closed it
  cancelled   \* the server's context is done

channelVars == <<events, closed, cancelled>>

ChannelInit == events = <<>> /\ closed = FALSE /\ cancelled = FALSE

\* Faulty variant: there is no limit.
Send_NoRoom(e) ==
  /\ ~closed
  /\ events' = Append(events, e)
  /\ UNCHANGED <<closed, cancelled>>

\* A send waits for room; on a closed channel it panics instead.
Send(e) ==
  /\ ~closed /\ Len(events) < BufferSize
  /\ events' = Append(events, e)
  /\ UNCHANGED <<closed, cancelled>>
===============================================================================
