----------------------------- MODULE ServeMongo -----------------------------
(***************************************************************************)
(* ServeLifecycle and MongoSession together: handlers of requests, as      *)
(* MongoConn.WithContext (shop/data/mongodb.go) is written for, call it    *)
(* while the main goroutine may stop the server (shop/shop.go).            *)
(*                                                                         *)
(* WithContext is synchronous, so a handler does not return during its     *)
(* call; the calls share the sockets of one pool, so that handlers wait    *)
(* for each other; and Shutdown waits for the handlers without cancelling  *)
(* their contexts.  The end of the process ends every call where it is.    *)
(***************************************************************************)
EXTENDS ServeLifecycle

CONSTANTS
  Sockets,   \* the sockets mgo's pool may open
  NoSocket   \* the session of a call has not acquired a socket

ASSUME SocketAssumption == NoSocket \notin Sockets

VARIABLES pc, fn, chan, session, socket, cancelled, committed, ret

calls == <<pc, fn, chan, session, socket, cancelled, committed, ret>>
all   == <<vars, calls>>

\* One call for each request at most; `alive' is that the process runs.
Mongo == INSTANCE MongoSession WITH Callers <- Requests, alive <- Running

InitAll == Init /\ Mongo!Init

-----------------------------------------------------------------------------
InCall(r)  == pc[r] \notin {"before", "after"}
Serving(r) == req[r] \in {"active", "orphan"}

\* The handler of r is not waiting in WithContext and returns.
HandlerEnds(r) ==
  /\ ~ InCall(r)
  /\ HandlerReturns(r) \/ OrphanReturns(r)
  /\ UNCHANGED calls

\* What the goroutines of ListenAndServe, the clients and the system do leaves
\* the calls where they are.
ServerStep ==
  /\ \/ MainNext \/ ServeNext \/ DeadlineExpires \/ Sigterm \/ Crash
     \/ LeaveIdle
     \/ \E r \in Requests :
          Connect(r) \/ ReadRequest(r) \/ Activate(r) \/ LeaveNew(r)
  /\ UNCHANGED calls

\* The handler of a request in progress begins a call, goes on with it, ...
HandlerCalls(r) ==
  /\ Serving(r)
  /\ UNCHANGED vars
  /\ Mongo!CallStep(r)

\* ... f runs, ...
WorkOn(r) ==
  /\ UNCHANGED vars
  /\ Mongo!FirstOperation(r) \/ Mongo!Commit(r) \/ Mongo!Return(r)

\* ... and net/http cancels the context when the client goes away, or when the
\* drain has closed the connection.
ClientLeaves(r) ==
  /\ Serving(r)
  /\ UNCHANGED vars
  /\ Mongo!Cancel(r)

\* A panic of f is out of reach of panicHandler and takes the process with it.
WorkPanics(r) ==
  /\ Crash
  /\ Mongo!Panic(r)

NextAll ==
  \/ ServerStep
  \/ \E r \in Requests :
       HandlerEnds(r) \/ HandlerCalls(r) \/ WorkOn(r) \/ ClientLeaves(r) \/ WorkPanics(r)

SpecAll == InitAll /\ [][NextAll]_all

\* The goroutines and the ticker of Shutdown run, and f ends once it has its
\* socket.  Of clients, and of what handlers do outside of WithContext, nothing is
\* assumed: shop.go builds its http.Server without any timeout, so a connection
\* may stay silent, send its request or read its answer as slowly as it likes.
\* The deadline of the drain need not fire.
FairnessAll ==
  /\ WF_all(/\ BeginShutdown \/ PollConnections \/ PollAgain \/ ReturnFromRun
            /\ UNCHANGED calls)
  /\ \A r \in Requests :
       /\ WF_all(HandlerCalls(r) /\ ~ Mongo!Copy(r))
       /\ WF_all(/\ UNCHANGED vars
                 /\ Mongo!FirstOperation(r) \/ (fn[r] = "working" /\ Mongo!Return(r)))

FairSpecAll == SpecAll /\ FairnessAll

-----------------------------------------------------------------------------
(* Properties. *)

\* What a client was answered is final: when the handler has returned, nothing
\* works for the request any more and its session and socket are given back.
AnswerIsFinal ==
  \A r \in Requests : req[r] = "done" =>
    /\ fn[r] \in {"off", "over"}
    /\ session[r] # "open"
    /\ socket[r] = NoSocket

\* Work on the database is cut off in the middle only if the process was killed,
\* or failed before it was told to stop or after the whole drain timeout, or on a
\* connection that Shutdown took for idle; of the other requests, a stop with
\* status 0 cuts off the work of one, the one Shutdown can miss.
CutOff(r) == Exited /\ InCall(r)

WorkCutOff ==
  \A r \in Requests : CutOff(r) =>
    \/ main = "killed"
    \/ main = "exit1" /\ deadline # "running"
    \/ main = "exit0" /\ req[r] = "dropped"
    \/ main = "exit0" /\ \A s \in Requests : CutOff(s) /\ req[s] # "dropped" => s = r

\* However few sockets there are, no handler waits in WithContext for the sockets
\* of others for ever, neither while the server serves nor while it drains: it
\* comes out of the call, or the process ends.
EveryCallEnds == \A r \in Requests : []<>(~ InCall(r) \/ Exited)

\* A tracked connection that the client, or its handler outside of WithContext,
\* keeps open; and a server that was told to stop and has not yet.
HeldOpen(r) == req[r] = "new" \/ (req[r] = "active" /\ ~ InCall(r))
Stopping    == main \in {"shutdown"} \cup InShutdown

\* A stop needs its deadline only for connections that are held open: if none of
\* them is held for ever, which nothing in shop.go enforces, the drain comes to
\* its end by itself, because every call does.
StopsByItself == (\A r \in Requests : []<>~ HeldOpen(r)) => []<>~ Stopping

\* What both rest on: a handler goes on by itself, or waits for a socket, and
\* then every socket taken is that of a handler in progress that goes on.
HandlersGoOn ==
  \A r \in Requests : Serving(r) =>
    \/ ~ InCall(r)
    \/ pc[r] = "copied"
    \/ Mongo!GoesOn(r)
    \/ /\ fn[r] = "started"
       /\ \A s \in Requests :
            socket[s] # NoSocket => Serving(s) /\ Mongo!GoesOn(s)

-----------------------------------------------------------------------------
(* The invariant that ties the two components together. *)

\* Calls belong to requests in progress or over, and only the end of the
\* process leaves a call where it is.
CallsBelong ==
  /\ \A r \in Requests :
       /\ pc[r] # "before" => Serving(r) \/ req[r] \in {"done", "cut", "dropped"}
       /\ InCall(r) => Serving(r) \/ (Exited /\ req[r] \in {"cut", "dropped"})
  /\ \A r \in Requests : Serving(r) => Running
=============================================================================
