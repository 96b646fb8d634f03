-------------------------------- MODULE Webhook --------------------------------
(***************************************************************************)
(* The webhook listener of internal/listener.  net/http is external: it    *)
(* runs each request's handler in a goroutine of its own and recovers its  *)
(* panics; Shutdown makes Serve return at once, waits for the handlers up  *)
(* to its deadline and does not stop them; nobody waits for Shutdown.      *)
(***************************************************************************)
EXTENDS EventChannel

CONSTANT Requests   \* bound: the requests that clients make

VARIABLES
  wh,        \* where Start stands
  shut,      \* Shutdown has been called
  whDone,    \* the channel done is closed
  handler    \* handler[r]: where the handler of request r stands

whVars == <<wh, shut, whDone, handler>>

WebhookInit ==
  /\ wh = "unborn" /\ shut = FALSE /\ whDone = FALSE
  /\ handler = [r \in Requests |-> "none"]

\* net.Listen, which fails when the address is taken.
Listen ==
  /\ wh = "new"
  /\ wh' \in {"serving", "failed"}
  /\ UNCHANGED <<shut, whDone, handler, channelVars>>

\* A request is refused for its method or event name, or its body is read.
Request(r) ==
  /\ wh = "serving" /\ ~shut
  /\ handler[r] = "none"
  /\ \E s \in {"refused", "body"} : handler' = [handler EXCEPT ![r] = s]
  /\ UNCHANGED <<wh, shut, whDone, channelVars>>

\* The client decides how long the body takes; an error of it is ignored.
ReadBody(r) ==
  /\ handler[r] = "body"
  /\ handler' = [handler EXCEPT ![r] = "send"]
  /\ UNCHANGED <<wh, shut, whDone, channelVars>>

\* The event is sent, then the client is told that it was accepted.
SendRequest(r) ==
  /\ handler[r] = "send"
  /\ Send([from |-> "webhook", request |-> r])
  /\ handler' = [handler EXCEPT ![r] = "accepted"]
  /\ UNCHANGED <<wh, shut, whDone>>

\* A send on the closed channel, waiting or not, panics: no answer is given.
Panic(r) ==
  /\ handler[r] = "send" /\ closed
  /\ handler' = [handler EXCEPT ![r] = "panicked"]
  /\ UNCHANGED <<wh, shut, whDone, channelVars>>

\* The goroutine that waits for the context or done.
Shutdown ==
  /\ wh = "serving" /\ ~shut /\ (cancelled \/ whDone)
  /\ shut' = TRUE
  /\ UNCHANGED <<wh, whDone, handler, channelVars>>

ServeReturns ==
  /\ wh = "serving" /\ shut
  /\ wh' = "stopped"
  /\ UNCHANGED <<shut, whDone, handler, channelVars>>

Serving == Listen \/ Shutdown \/ ServeReturns
Handling(r) == SendRequest(r) \/ Panic(r)
StopWebhook == whDone' = TRUE /\ UNCHANGED <<wh, shut, handler>>
===============================================================================
