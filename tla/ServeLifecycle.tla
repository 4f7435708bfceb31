--------------------------- MODULE ServeLifecycle ---------------------------
(***************************************************************************)
(* One run of `shop serve`: the start-up of ServeCmd and NewShop, the      *)
(* serving goroutine of ListenAndServe, and its shutdown on SIGTERM        *)
(* (shop/shop.go, shop/handlers/app.go).                                   *)
(*                                                                         *)
(* Three kinds of processes interact: the main goroutine, the goroutine    *)
(* that runs http.Server.Serve and hands its error over on the unbuffered  *)
(* channel serveErr, and the connections, each of which carries a request  *)
(* and, kept alive, perhaps another one.  net/http is external; what       *)
(* ListenAndServe relies on is modelled here: Serve accepts one connection *)
(* at a time and tracks it only after Accept returned; Shutdown closes the *)
(* listeners Serve tracks, then polls: it closes and forgets the idle      *)
(* connections until no other one is left or the context is done.          *)
(***************************************************************************)
EXTENDS Integers

CONSTANTS
  Requests,      \* the requests clients may send, on a connection of their own
                 \* or on one that an earlier request left open
  DrainTimeout   \* config.HTTP.DrainTimeout, 0 when the option is absent

ASSUME DrainTimeoutAssumption == DrainTimeout \in Int

VARIABLES
  main,      \* where the main goroutine is, or how the process ended
  serve,     \* where the goroutine running shop.server.Serve is
  listener,  \* the socket NewListener returned
  notified,  \* signal.Notify has been called
  quit,      \* number of signals in the channel quit, whose capacity is 1
  deadline,  \* the context Shutdown waits on
  req,       \* where each request, or the connection opened for it, is
  idle       \* number of connections kept alive on which no request is read

vars == <<main, serve, listener, notified, quit, deadline, req, idle>>

StartingUp == {"configuration", "logging", "redis", "mongo", "listen",
               "notify", "spawn"}
InShutdown == {"closing", "polling", "waiting", "returning"}
Ended      == {"exit0", "exit1", "killed"}

Running == main \notin Ended
Exited  == main \in Ended

TypeOK ==
  /\ main \in StartingUp \cup {"select", "shutdown"} \cup InShutdown \cup Ended
  /\ serve \in {"off", "starting", "accepting", "tracking", "sending"}
  /\ listener \in {"none", "open", "closed"}
  /\ notified \in BOOLEAN
  /\ quit \in 0..1
  /\ deadline \in {"unset", "running", "expired"}
  /\ req \in [Requests -> {"none", "backlog", "accepted", "new", "read", "active",
                           "done", "refused", "closed", "cut", "orphan", "dropped"}]
  /\ idle \in Nat

Init ==
  /\ main = "configuration"
  /\ serve = "off"
  /\ listener = "none"
  /\ notified = FALSE
  /\ quit = 0
  /\ deadline = "unset"
  /\ req = [r \in Requests |-> "none"]
  /\ idle = 0

-----------------------------------------------------------------------------
(* Helpers. *)

\* Closing a listening socket resets the connections nobody accepted yet.
CloseListener ==
  /\ listener' = "closed"
  /\ req' = [r \in Requests |-> IF req[r] = "backlog" THEN "refused" ELSE req[r]]

\* The end of the process takes the listener, and every open connection, with
\* it: one without a running handler is closed, a handler is cut off, and one
\* that nobody waits for any more is dropped.
End(status) ==
  /\ main' = status
  /\ listener' = IF listener = "open" THEN "closed" ELSE listener
  /\ req' = [r \in Requests |->
               CASE req[r] = "backlog"                    -> "refused"
                 [] req[r] \in {"accepted", "new", "read"} -> "closed"
                 [] req[r] = "active"                     -> "cut"
                 [] req[r] = "orphan"                     -> "dropped"
                 [] OTHER                                 -> req[r]]
  /\ idle' = 0
  /\ UNCHANGED <<serve, notified, quit, deadline>>

-----------------------------------------------------------------------------
(* Mutants: plausible wrong versions of actions below.  No specification uses *)
(* them; each shows that some property notices the mistake.                   *)

\* The context of Shutdown without a timeout.
SelectQuitNoTimeout ==
  /\ main = "select" /\ quit = 1
  /\ main' = "shutdown"
  /\ quit' = 0
  /\ UNCHANGED <<serve, listener, notified, deadline, req, idle>>

\* Shutdown that leaves the listener open.
BeginShutdownListening ==
  /\ main = "shutdown"
  /\ main' = "closing"
  /\ UNCHANGED <<serve, listener, notified, quit, deadline, req, idle>>

\* server.Close instead of server.Shutdown.
BeginShutdownByClose ==
  /\ main = "shutdown"
  /\ main' = "returning"
  /\ CloseListener
  /\ UNCHANGED <<serve, notified, quit, deadline, idle>>

\* A drain that gives up before its time.
GiveUpAtOnce ==
  /\ main = "waiting"
  /\ End("exit1")

\* Serve before Go 1.11, which did not notice that Shutdown came first.
ServeStartsAnyway ==
  /\ Running /\ serve = "starting"
  /\ serve' = "accepting"
  /\ UNCHANGED <<main, listener, notified, quit, deadline, req, idle>>

\* The error of Serve is not sent to serveErr.
AcceptFailsSilently ==
  /\ Running /\ serve = "accepting"
  /\ serve' = "off"
  /\ CloseListener
  /\ UNCHANGED <<main, notified, quit, deadline, idle>>

-----------------------------------------------------------------------------
(* Start-up.  Each step of ServeCmd.Run either succeeds or ends the process *)
(* with os.Exit(1) or log.Fatalln.                                          *)

StartUp(step, next) ==
  /\ main = step
  /\ \/ /\ main' = next
        /\ UNCHANGED <<serve, listener, notified, quit, deadline, req, idle>>
     \/ End("exit1")

ResolveConfiguration == StartUp("configuration", "logging")
ConfigureLogging     == StartUp("logging", "redis")
ConnectRedis         == StartUp("redis", "mongo")
DialMongo            == StartUp("mongo", "listen")

NewListener ==
  /\ main = "listen"
  /\ \/ /\ main' = "notify"
        /\ listener' = "open"
        /\ UNCHANGED <<serve, notified, quit, deadline, req, idle>>
     \/ End("exit1")

Notify ==
  /\ main = "notify"
  /\ main' = "spawn"
  /\ notified' = TRUE
  /\ UNCHANGED <<serve, listener, quit, deadline, req, idle>>

SpawnServe ==
  /\ main = "spawn"
  /\ main' = "select"
  /\ serve' = "starting"
  /\ UNCHANGED <<listener, notified, quit, deadline, req, idle>>

-----------------------------------------------------------------------------
(* The select of ListenAndServe and the graceful stop. *)

\* case err := <-serveErr: the rendezvous with the serving goroutine.
SelectServeErr ==
  /\ main = "select"
  /\ serve = "sending"
  /\ End("exit1")

\* case <-quit: a context that has no time left is done when it is created.
SelectQuit ==
  /\ main = "select"
  /\ quit = 1
  /\ main' = "shutdown"
  /\ quit' = 0
  /\ deadline' = IF DrainTimeout <= 0 THEN "expired" ELSE "running"
  /\ UNCHANGED <<serve, listener, notified, req, idle>>

\* Shutdown closes the listener if Serve has come far enough to track it.
BeginShutdown ==
  /\ main = "shutdown"
  /\ main' = "closing"
  /\ IF serve \in {"accepting", "tracking"}
       THEN CloseListener
       ELSE UNCHANGED <<listener, req>>
  /\ UNCHANGED <<serve, notified, quit, deadline, idle>>

\* closeIdleConns closes the idle connections and tracks them no longer, even one
\* whose goroutine has just read a request: its handler runs, but the client gets
\* no answer and the drain does not wait for it.  Since Go 1.12 so it does with
\* new connections, `stale' here, on which no request was read for 5 seconds.  The
\* drain is over when no connection is left.
PollConnections ==
  /\ main \in {"closing", "polling"}
  /\ \E stale \in SUBSET {r \in Requests : req[r] = "new"} : \E late \in SUBSET stale :
       req' = [r \in Requests |->
                 IF req[r] = "read" \/ r \in late THEN "orphan"
                 ELSE IF r \in stale THEN "closed" ELSE req[r]]
  /\ main' = IF \E r \in Requests : req'[r] \in {"new", "active"}
               THEN "waiting" ELSE "returning"
  /\ idle' = 0
  /\ UNCHANGED <<serve, listener, notified, quit, deadline>>

\* Shutdown returned nil: so do ListenAndServe and Run, and main is over.
ReturnFromRun ==
  /\ main = "returning"
  /\ End("exit0")

PollAgain ==
  /\ main = "waiting"
  /\ main' = "polling"
  /\ UNCHANGED <<serve, listener, notified, quit, deadline, req, idle>>

\* ctx.Err() comes back through ListenAndServe and ends in log.Fatalln.
GiveUpDraining ==
  /\ main = "waiting"
  /\ deadline = "expired"
  /\ End("exit1")

DeadlineExpires ==
  /\ Running
  /\ deadline = "running"
  /\ deadline' = "expired"
  /\ UNCHANGED <<main, serve, listener, notified, quit, req, idle>>

-----------------------------------------------------------------------------
(* The serving goroutine. *)

\* Serve refuses to start when Shutdown came first, and closes the listener.
ServeStarts ==
  /\ Running
  /\ serve = "starting"
  /\ IF main \in InShutdown
       THEN serve' = "sending" /\ CloseListener
       ELSE serve' = "accepting" /\ UNCHANGED <<listener, req>>
  /\ UNCHANGED <<main, notified, quit, deadline, idle>>

Accept(r) ==
  /\ Running
  /\ serve = "accepting"
  /\ listener = "open"
  /\ req[r] = "backlog"
  /\ serve' = "tracking"
  /\ req' = [req EXCEPT ![r] = "accepted"]
  /\ UNCHANGED <<main, listener, notified, quit, deadline, idle>>

\* The connection is registered, as new, and its goroutine started.
Track(r) ==
  /\ Running
  /\ serve = "tracking"
  /\ req[r] = "accepted"
  /\ serve' = "accepting"
  /\ req' = [req EXCEPT ![r] = "new"]
  /\ UNCHANGED <<main, listener, notified, quit, deadline, idle>>

\* Accept fails, because the listener was closed or for good; Serve closes the
\* listener, returns, and its goroutine offers the error on serveErr.
AcceptFails ==
  /\ Running
  /\ serve = "accepting"
  /\ serve' = "sending"
  /\ CloseListener
  /\ UNCHANGED <<main, notified, quit, deadline, idle>>

-----------------------------------------------------------------------------
(* Clients, handlers and the operating system. *)

Connect(r) ==
  /\ Running
  /\ listener = "open"
  /\ req[r] = "none"
  /\ req' = [req EXCEPT ![r] = "backlog"]
  /\ UNCHANGED <<main, serve, listener, notified, quit, deadline, idle>>

\* The goroutine of an idle connection has read a request; the connection is
\* still marked as idle.
ReadRequest(r) ==
  /\ Running
  /\ idle > 0
  /\ req[r] = "none"
  /\ req' = [req EXCEPT ![r] = "read"]
  /\ idle' = idle - 1
  /\ UNCHANGED <<main, serve, listener, notified, quit, deadline>>

\* The request is there: the connection is marked as active, the handler begins.
Activate(r) ==
  /\ Running
  /\ req[r] \in {"new", "read"}
  /\ req' = [req EXCEPT ![r] = "active"]
  /\ UNCHANGED <<main, serve, listener, notified, quit, deadline, idle>>

\* The client closes a connection it sent nothing on.
LeaveNew(r) ==
  /\ Running
  /\ req[r] = "new"
  /\ req' = [req EXCEPT ![r] = "closed"]
  /\ UNCHANGED <<main, serve, listener, notified, quit, deadline, idle>>

LeaveIdle ==
  /\ Running
  /\ idle > 0
  /\ idle' = idle - 1
  /\ UNCHANGED <<main, serve, listener, notified, quit, deadline, req>>

\* The response is sent; the connection is kept for a next request if both sides
\* agree, never once Shutdown has begun.
HandlerReturns(r) ==
  /\ Running
  /\ req[r] = "active"
  /\ req' = [req EXCEPT ![r] = "done"]
  /\ \/ idle' = idle
     \/ main \notin InShutdown /\ idle' = idle + 1
  /\ UNCHANGED <<main, serve, listener, notified, quit, deadline>>

\* What this handler wrote goes to a closed connection.
OrphanReturns(r) ==
  /\ Running
  /\ req[r] = "orphan"
  /\ req' = [req EXCEPT ![r] = "dropped"]
  /\ UNCHANGED <<main, serve, listener, notified, quit, deadline, idle>>

\* Before signal.Notify a SIGTERM kills the process; after it the runtime sends
\* the signal to quit and drops it when the channel is full.
Sigterm ==
  /\ Running
  /\ IF notified
       THEN /\ quit' = 1
            /\ UNCHANGED <<main, serve, listener, notified, deadline, req, idle>>
       ELSE End("killed")

\* SIGKILL, or a panic in a goroutine that nobody recovers.
Crash ==
  /\ Running
  /\ End("killed")

-----------------------------------------------------------------------------
MainNext ==
  \/ ResolveConfiguration \/ ConfigureLogging \/ ConnectRedis \/ DialMongo
  \/ NewListener \/ Notify \/ SpawnServe
  \/ SelectServeErr \/ SelectQuit
  \/ BeginShutdown \/ PollConnections \/ PollAgain
  \/ ReturnFromRun \/ GiveUpDraining

ServeNext == ServeStarts \/ AcceptFails \/ \E r \in Requests : Accept(r) \/ Track(r)

Connections ==
  \/ \E r \in Requests :
       \/ Connect(r) \/ ReadRequest(r) \/ Activate(r) \/ LeaveNew(r)
       \/ HandlerReturns(r) \/ OrphanReturns(r)
  \/ LeaveIdle

Environment == Connections \/ DeadlineExpires \/ Sigterm \/ Crash

Next == MainNext \/ ServeNext \/ Environment

\* The scheduler runs a goroutine that can step, and timers fire.  Nothing is
\* assumed of start-up (its steps talk to servers that may not answer), of
\* clients, handlers, signals, and of Accept, which may succeed or fail.  A ready case
\* of a select is chosen at random, so the case that gives up the drain is not
\* passed over for ever.
Fairness ==
  /\ WF_vars(Notify)
  /\ WF_vars(SpawnServe)
  /\ WF_vars(SelectServeErr \/ SelectQuit)
  /\ WF_vars(BeginShutdown)
  /\ WF_vars(PollConnections)
  /\ WF_vars(PollAgain)
  /\ WF_vars(ReturnFromRun)
  /\ SF_vars(GiveUpDraining)
  /\ WF_vars(DeadlineExpires)
  /\ WF_vars(ServeStarts)

Spec == Init /\ [][Next]_vars

FairSpec == Spec /\ Fairness

-----------------------------------------------------------------------------
(* Properties. *)

\* What a supervisor and the clients see of the process.  It stops taking
\* requests when it first looks at its idle connections.
Phase ==
  CASE main \in StartingUp                          -> "starting"
    [] main \in {"select", "shutdown", "closing"}    -> "up"
    [] main \in {"polling", "waiting", "returning"}  -> "stopping"
    [] main = "exit0"                                -> "stopped"
    [] main = "exit1"                                -> "failed"
    [] main = "killed"                               -> "killed"

Server == INSTANCE GracefulServer WITH
  phase    <- Phase,
  fresh    <- {r \in Requests : req[r] \in {"accepted", "new", "read"}},
  begun    <- {r \in Requests : req[r] = "active"},
  answered <- {r \in Requests : req[r] = "done"},
  lost     <- {r \in Requests : req[r] \in {"closed", "cut", "orphan", "dropped"}},
  overdue  <- deadline = "expired"

\* The goroutines of ListenAndServe implement the promise of GracefulServer.
ImplementsGracefulServer == Server!Spec

\* A process that ends with status 0 has waited for every handler that ran on a
\* connection in use when Shutdown looked: it cuts off one at most, on the
\* connection that Serve had taken from the listener but not registered yet.
\* Handlers on connections that Shutdown took for idle are not among these:
\* any number of them is dropped.
GracefulExit ==
  main = "exit0" =>
    \A r, s \in Requests : req[r] = "cut" /\ req[s] = "cut" => r = s

\* A server that was told to stop, and was not killed while it stopped, gives up
\* the requests it works on, and fails, only after the whole drain timeout.
GraceRespected ==
  main = "exit1" /\ deadline # "unset" => deadline = "expired"

\* While the drain goes on no connection is let in or kept alive; only on one that
\* was idle before is a request still read, and only until the first poll.  Of the
\* connections accepted before, one at most is not tracked yet.
DrainStep ==
  main \in InShutdown =>
    /\ \A r \in Requests : req'[r] = "accepted" => req[r] = "accepted"
    /\ idle' <= idle
    /\ \A r \in Requests : req'[r] = "read" => req[r] = "read" \/ main = "closing"
    /\ \A r, s \in Requests :
         req[r] = "accepted" /\ req'[r] = "new" /\ req[s] = "accepted" => r = s

DrainShrinks == [][DrainStep]_vars

\* A signal that reached the channel stops the process, whatever the handlers do.
TermObeyed == (quit = 1) ~> Exited

\* A process whose listener is gone does not live on without serving: the error
\* of the serving goroutine, or the shutdown, ends it.
NoZombie == (listener = "closed") ~> Exited

\* What NoZombie and TermObeyed rest on: once the listener is closed, the error
\* of Serve is offered to the select or the drain goes on; and a server that was
\* told to stop has a deadline.
EndInSight ==
  /\ listener = "closed" /\ Running => serve = "sending" \/ main \in InShutdown
  /\ serve # "off" /\ main \notin {"shutdown"} \cup InShutdown \cup Ended => main = "select"
  /\ main \in {"shutdown"} \cup InShutdown => deadline # "unset"

-----------------------------------------------------------------------------
(* The inductive invariant behind the safety properties. *)

\* Serve has at most one connection between Accept and its registration.
OneInHand ==
  /\ \A r \in Requests : req[r] = "accepted" => serve = "tracking"
  /\ \A r, s \in Requests : req[r] = "accepted" /\ req[s] = "accepted" => r = s

\* Before the goroutine is spawned nothing is accepted and no grace runs.
NothingServedEarly ==
  main \in StartingUp \cup {"select"} =>
    /\ deadline = "unset"
    /\ main # "select" => serve = "off"

NoServiceBeforeServe ==
  serve = "off" =>
    /\ \A r \in Requests : req[r] \in {"none", "backlog", "refused"}
    /\ idle = 0

\* Shutdown closes the listener of a Serve that is accepting, and Serve does
\* not begin once Shutdown did.
ShutdownCloses ==
  main \in InShutdown /\ serve \in {"accepting", "tracking"} => listener = "closed"

\* The first poll leaves no idle connection, and none becomes idle after it.
NoneIdle ==
  main \in {"polling", "waiting", "returning"} =>
    idle = 0 /\ \A r \in Requests : req[r] # "read"

\* When the drain was found over only the connection in Serve's hand is left.
OneLeft ==
  main = "returning" =>
    \A r, s \in Requests :
      req[r] \in {"accepted", "new", "active"} /\ req[s] \in {"accepted", "new", "active"}
        => r = s

\* Only the end of the process cuts handlers off, and only a poll drops them.
CutOnlyByExit ==
  \A r \in Requests :
    /\ req[r] = "cut" => Exited
    /\ req[r] \in {"orphan", "dropped"} => main \notin StartingUp \cup {"select", "shutdown", "closing"}

ServeInv ==
  /\ TypeOK
  /\ OneInHand
  /\ NothingServedEarly
  /\ NoServiceBeforeServe
  /\ ShutdownCloses
  /\ NoneIdle
  /\ OneLeft
  /\ CutOnlyByExit
  /\ GracefulExit
  /\ GraceRespected
=============================================================================
