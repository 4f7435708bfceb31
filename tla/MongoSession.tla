---------------------------- MODULE MongoSession ----------------------------
(***************************************************************************)
(* MongoConn.WithContext (shop/data/mongodb.go): each call copies the      *)
(* session of Dial, runs f on a goroutine of its own, and selects between  *)
(* the context and the result of f.  A cancelled call still waits for f,   *)
(* because the deferred Close gives the session's socket back.             *)
(*                                                                         *)
(* mgo is vendored and modelled as far as it matters here: a copied        *)
(* session holds no socket at first, takes one from the pool of the server *)
(* at its first operation, waiting while the pool is at its limit, keeps   *)
(* it, and releases it in Close.                                           *)
(***************************************************************************)
EXTENDS Naturals

CONSTANTS
  Callers,   \* the goroutines that call WithContext, once each
  Sockets,   \* the sockets the pool may open, as many as its limit
  NoSocket   \* the session has not acquired a socket

ASSUME NoSocketAssumption == NoSocket \notin Sockets

VARIABLES
  pc,         \* where each call is
  fn,         \* where the goroutine that runs f is
  chan,       \* the content of the channel c, whose capacity is 1
  session,    \* the session each call copied
  socket,     \* the socket that session holds
  cancelled,  \* the calls whose context is done
  committed,  \* the calls whose f took effect in the database
  ret,        \* the value each call returns
  alive       \* the process runs

vars == <<pc, fn, chan, session, socket, cancelled, committed, ret, alive>>

Results == {"nil", "err"}

TypeOK ==
  /\ pc \in [Callers -> {"before", "copied", "select", "await", "close", "after"}]
  /\ fn \in [Callers -> {"off", "started", "working", "over"}]
  /\ chan \in [Callers -> Results \cup {"empty"}]
  /\ session \in [Callers -> {"none", "open", "closed"}]
  /\ socket \in [Callers -> Sockets \cup {NoSocket}]
  /\ cancelled \subseteq Callers
  /\ committed \subseteq Callers
  /\ ret \in [Callers -> Results \cup {"none", "ctxErr"}]
  /\ alive \in BOOLEAN

Init ==
  /\ pc = [c \in Callers |-> "before"]
  /\ fn = [c \in Callers |-> "off"]
  /\ chan = [c \in Callers |-> "empty"]
  /\ session = [c \in Callers |-> "none"]
  /\ socket = [c \in Callers |-> NoSocket]
  /\ cancelled = {}
  /\ committed = {}
  /\ ret = [c \in Callers |-> "none"]
  /\ alive = TRUE

-----------------------------------------------------------------------------
(* The calling goroutine. *)

Goto(c, from, to) == pc[c] = from /\ pc' = [pc EXCEPT ![c] = to]

Copy(c) ==
  /\ alive
  /\ Goto(c, "before", "copied")
  /\ session' = [session EXCEPT ![c] = "open"]
  /\ UNCHANGED <<fn, chan, socket, cancelled, committed, ret, alive>>

Spawn(c) ==
  /\ alive
  /\ Goto(c, "copied", "select")
  /\ fn' = [fn EXCEPT ![c] = "started"]
  /\ UNCHANGED <<chan, session, socket, cancelled, committed, ret, alive>>

\* Mutants, plausible wrong versions of the actions below that no specification
\* uses.  First: return ctx.Err() without waiting for f.
SelectDoneReturns(c) ==
  /\ alive /\ c \in cancelled
  /\ Goto(c, "select", "close")
  /\ ret' = [ret EXCEPT ![c] = "ctxErr"]
  /\ UNCHANGED <<fn, chan, session, socket, cancelled, committed, alive>>

\* No defer sess.Close().
CloseForgotten(c) ==
  /\ alive
  /\ Goto(c, "close", "after")
  /\ UNCHANGED <<fn, chan, session, socket, cancelled, committed, ret, alive>>

\* case <-ctx.Done(): the call still has to receive the result of f.
SelectDone(c) ==
  /\ alive
  /\ Goto(c, "select", "await")
  /\ c \in cancelled
  /\ UNCHANGED <<fn, chan, session, socket, cancelled, committed, ret, alive>>

Receive(c, from, value) ==
  /\ alive
  /\ Goto(c, from, "close")
  /\ chan[c] # "empty"
  /\ chan' = [chan EXCEPT ![c] = "empty"]
  /\ ret' = [ret EXCEPT ![c] = value]
  /\ UNCHANGED <<fn, session, socket, cancelled, committed, alive>>

\* case err := <-c.
SelectResult(c) == Receive(c, "select", chan[c])

\* <-c; return ctx.Err(): the result of f is dropped.
AwaitResult(c) == Receive(c, "await", "ctxErr")

\* defer sess.Close(): the socket goes back to the pool.
Close(c) ==
  /\ alive
  /\ Goto(c, "close", "after")
  /\ session' = [session EXCEPT ![c] = "closed"]
  /\ socket' = [socket EXCEPT ![c] = NoSocket]
  /\ UNCHANGED <<fn, chan, cancelled, committed, ret, alive>>

-----------------------------------------------------------------------------
(* The goroutine that runs f, and the contexts. *)

\* The first operation of f takes a socket that no session holds.
FirstOperation(c) ==
  /\ alive
  /\ fn[c] = "started"
  /\ \E s \in Sockets :
       /\ \A d \in Callers : socket[d] # s
       /\ socket' = [socket EXCEPT ![c] = s]
  /\ fn' = [fn EXCEPT ![c] = "working"]
  /\ UNCHANGED <<pc, chan, session, cancelled, committed, ret, alive>>

Commit(c) ==
  /\ alive
  /\ fn[c] = "working"
  /\ committed' = committed \cup {c}
  /\ UNCHANGED <<pc, fn, chan, session, socket, cancelled, ret, alive>>

\* c <- f(...): f reports success only when its work took effect; it may fail
\* without an operation, or not know that its last operation took effect.  The
\* buffer takes the value whether or not somebody receives.
Return(c) ==
  /\ alive
  /\ fn[c] \in {"started", "working"}
  /\ \E result \in Results :
       /\ result = "nil" => c \in committed
       /\ chan' = [chan EXCEPT ![c] = result]
  /\ fn' = [fn EXCEPT ![c] = "over"]
  /\ UNCHANGED <<pc, session, socket, cancelled, committed, ret, alive>>

\* A panic of f unwinds its own goroutine, where nothing recovers it.
Panic(c) ==
  /\ alive
  /\ fn[c] \in {"started", "working"}
  /\ alive' = FALSE
  /\ UNCHANGED <<pc, fn, chan, session, socket, cancelled, committed, ret>>

\* The main goroutine ends the process, or it is killed, in the middle of calls.
ProcessEnds ==
  /\ alive
  /\ alive' = FALSE
  /\ UNCHANGED <<pc, fn, chan, session, socket, cancelled, committed, ret>>

Cancel(c) ==
  /\ alive
  /\ c \notin cancelled
  /\ cancelled' = cancelled \cup {c}
  /\ UNCHANGED <<pc, fn, chan, session, socket, committed, ret, alive>>

-----------------------------------------------------------------------------
CallStep(c) ==
  Copy(c) \/ Spawn(c) \/ SelectDone(c) \/ SelectResult(c) \/ AwaitResult(c) \/ Close(c)

FStep(c) == FirstOperation(c) \/ Commit(c) \/ Return(c) \/ Panic(c)

Next ==
  \/ \E c \in Callers : CallStep(c) \/ FStep(c) \/ Cancel(c)
  \/ ProcessEnds

\* The scheduler runs both goroutines of a call that has begun; f ends once it
\* has its socket, since mgo.Dial gives every operation a timeout.  Nobody is
\* obliged to cancel.
Fairness ==
  \A c \in Callers :
    /\ WF_vars(CallStep(c) /\ ~Copy(c))
    /\ WF_vars(FirstOperation(c))
    /\ WF_vars(fn[c] = "working" /\ Return(c))

Spec == Init /\ [][Next]_vars

FairSpec == Spec /\ Fairness

-----------------------------------------------------------------------------
(* Properties. *)

\* f never uses a session that was closed under it, not even when its caller
\* was cancelled: the call is still there, and the session open, until f ends.
SessionOutlivesF ==
  \A c \in Callers :
    fn[c] \in {"started", "working"} =>
      session[c] = "open" /\ pc[c] \in {"select", "await"}

\* Two calls never talk over one socket.
SocketsExclusive ==
  \A c, d \in Callers : socket[c] # NoSocket /\ socket[c] = socket[d] => c = d

\* A call that is over keeps nothing: no socket, no open session, no goroutine
\* and no result nobody received.
NothingLeftBehind ==
  \A c \in Callers : pc[c] = "after" =>
    /\ socket[c] = NoSocket
    /\ session[c] = "closed"
    /\ fn[c] = "over"
    /\ chan[c] = "empty"

\* Every call returns, however small the pool, or a panic ended the process.
EveryCallReturns ==
  \A c \in Callers : (pc[c] # "before") ~> (pc[c] = "after" \/ ~alive)

\* What EveryCallReturns rests on at the limit of the pool.  A call that holds a
\* socket needs nothing another call has: f runs, or its result is there to be
\* received, or Close is next.  So a call that waits for a socket waits for one
\* that goes on.
GoesOn(c) ==
  \/ fn[c] = "working"
  \/ pc[c] \in {"select", "await"} /\ chan[c] # "empty"
  \/ pc[c] = "close"

WaitsEnd ==
  \A c \in Callers :
    /\ socket[c] # NoSocket => GoesOn(c)
    /\ pc[c] \in {"select", "await", "close"} =>
         GoesOn(c) \/ (fn[c] = "started" /\ socket[c] = NoSocket)

\* Where a call is for its caller: the result shows when the call is over.
CallState(c) ==
  CASE pc[c] = "before" -> "before" [] pc[c] = "after" -> "after" [] OTHER -> "during"

Caller == INSTANCE SyncCall WITH
  call   <- [c \in Callers |-> CallState(c)],
  result <- [c \in Callers |-> IF pc[c] = "after" THEN ret[c] ELSE "none"]

\* The goroutine and the channel implement a synchronous call.
ImplementsSyncCall == Caller!Spec

\* The inductive invariant: where both goroutines of a call are, what the
\* channel holds, and what the value to return says.
CallInv ==
  \A c \in Callers :
    /\ pc[c] \in {"before", "copied"} => fn[c] = "off" /\ c \notin committed
    /\ fn[c] = "off" => /\ pc[c] \in {"before", "copied"}
                        /\ socket[c] = NoSocket
                        /\ chan[c] = "empty"
    /\ pc[c] \in {"copied", "select", "await", "close"} <=> session[c] = "open"
    /\ pc[c] \in {"close", "after"} => fn[c] = "over" /\ chan[c] = "empty"
    /\ pc[c] \in {"select", "await"} => (chan[c] # "empty" <=> fn[c] = "over")
    /\ pc[c] = "await" => c \in cancelled
    /\ chan[c] = "nil" => c \in committed
    /\ pc[c] \in {"close", "after"} =>
         /\ ret[c] # "none"
         /\ ret[c] = "nil" => c \in committed
         /\ ret[c] = "ctxErr" => c \in cancelled

SessionInv ==
  /\ TypeOK
  /\ CallInv
  /\ SessionOutlivesF
  /\ SocketsExclusive
  /\ NothingLeftBehind
=============================================================================
