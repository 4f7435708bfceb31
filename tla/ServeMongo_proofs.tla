-------------------------- MODULE ServeMongo_proofs --------------------------
(***************************************************************************)
(* Proofs about ServeLifecycle, for every set of connections and every     *)
(* drain timeout, and about ServeMongo, its composition with the calls of  *)
(* MongoSession, for every set of requests and every pool.  The            *)
(* composition implements both components, so what is proved about each of *)
(* them holds in it; CallsBelong ties their states together.               *)
(***************************************************************************)
EXTENDS ServeMongo, TLAPS

MP == INSTANCE MongoSession_proofs WITH Callers <- Requests, alive <- Running

-----------------------------------------------------------------------------
(* The life cycle of the server, without the calls.                         *)

\* The initial state satisfies the inductive invariant: nothing has begun.
LEMMA ServeInvInit == Init => ServeInv
<1> SUFFICES ASSUME Init PROVE ServeInv
  OBVIOUS
<1>1. TypeOK
  <2>1. notified \in BOOLEAN
    BY DEF Init
  <2>2. main \in StartingUp /\ quit \in 0..1
    BY DEF Init, StartingUp
  <2>3. /\ req \in [Requests -> {"none", "backlog", "accepted", "new", "read", "active",
                                "done", "refused", "closed", "cut", "orphan", "dropped"}]
        /\ idle \in Nat
    BY DEF Init
  <2>q. QED BY <2>1, <2>2, <2>3 DEF Init, TypeOK
<1>2. OneInHand /\ CutOnlyByExit /\ NoneIdle /\ OneLeft
  BY DEF Init, OneInHand, CutOnlyByExit, NoneIdle, OneLeft
<1>3. NothingServedEarly /\ NoServiceBeforeServe /\ ShutdownCloses
  BY DEF Init, NothingServedEarly, NoServiceBeforeServe, ShutdownCloses
<1>4. GracefulExit /\ GraceRespected
  BY DEF Init, GracefulExit, GraceRespected
<1>q. QED BY <1>1, <1>2, <1>3, <1>4 DEF ServeInv

\* The steps of start-up keep the invariant, whether they succeed or end the
\* process with a failure.
LEMMA StartUpKeeps ==
  ASSUME ServeInv,
         ResolveConfiguration \/ ConfigureLogging \/ ConnectRedis \/ DialMongo
           \/ NewListener \/ Notify \/ SpawnServe
  PROVE  ServeInv'
<1> USE DEF ServeInv, TypeOK, OneInHand, NothingServedEarly, NoServiceBeforeServe,
            ShutdownCloses, NoneIdle, OneLeft, CutOnlyByExit, GracefulExit, GraceRespected,
            StartingUp, InShutdown, Ended, Exited, Running, End
<1>1. CASE ResolveConfiguration BY <1>1 DEF ResolveConfiguration, StartUp
<1>2. CASE ConfigureLogging BY <1>2 DEF ConfigureLogging, StartUp
<1>3. CASE ConnectRedis BY <1>3 DEF ConnectRedis, StartUp
<1>4. CASE DialMongo BY <1>4 DEF DialMongo, StartUp
<1>5. CASE NewListener BY <1>5 DEF NewListener
<1>6. CASE Notify BY <1>6 DEF Notify
<1>7. CASE SpawnServe BY <1>7 DEF SpawnServe
<1>q. QED BY <1>1, <1>2, <1>3, <1>4, <1>5, <1>6, <1>7

\* So do the select of ListenAndServe and the steps of Shutdown.
LEMMA ShutdownKeeps ==
  ASSUME ServeInv,
         SelectServeErr \/ SelectQuit \/ BeginShutdown \/ PollConnections
           \/ PollAgain \/ ReturnFromRun \/ GiveUpDraining \/ DeadlineExpires
  PROVE  ServeInv'
<1> USE DEF ServeInv, TypeOK, OneInHand, NothingServedEarly, NoServiceBeforeServe,
            ShutdownCloses, NoneIdle, OneLeft, CutOnlyByExit, GracefulExit, GraceRespected,
            StartingUp, InShutdown, Ended, Exited, Running, End
<1>1. CASE SelectServeErr BY <1>1 DEF SelectServeErr
<1>2. CASE SelectQuit BY <1>2 DEF SelectQuit
<1>3. CASE BeginShutdown BY <1>3 DEF BeginShutdown, CloseListener
<1>4. CASE PollConnections BY <1>4 DEF PollConnections
<1>5. CASE PollAgain BY <1>5 DEF PollAgain
<1>6. CASE ReturnFromRun BY <1>6 DEF ReturnFromRun
<1>7. CASE GiveUpDraining BY <1>7 DEF GiveUpDraining
<1>8. CASE DeadlineExpires BY <1>8 DEF DeadlineExpires
<1>q. QED BY <1>1, <1>2, <1>3, <1>4, <1>5, <1>6, <1>7, <1>8

\* And so do the serving goroutine, the handlers, the clients and the signals.
LEMMA ServingKeeps ==
  ASSUME ServeInv,
         ServeNext \/ Connections \/ Sigterm \/ Crash
  PROVE  ServeInv'
<1> USE DEF ServeInv, TypeOK, OneInHand, NothingServedEarly, NoServiceBeforeServe,
            ShutdownCloses, NoneIdle, OneLeft, CutOnlyByExit, GracefulExit, GraceRespected,
            StartingUp, InShutdown, Ended, Exited, Running, End
<1>1. CASE ServeStarts BY <1>1 DEF ServeStarts, CloseListener
<1>2. CASE AcceptFails BY <1>2 DEF AcceptFails, CloseListener
<1>3. ASSUME NEW r \in Requests, Accept(r) PROVE ServeInv' BY <1>3 DEF Accept
<1>4. ASSUME NEW r \in Requests, Track(r) PROVE ServeInv' BY <1>4 DEF Track
<1>5. ASSUME NEW r \in Requests, Connect(r) PROVE ServeInv' BY <1>5 DEF Connect
<1>6. ASSUME NEW r \in Requests, HandlerReturns(r) PROVE ServeInv'
  BY <1>6 DEF HandlerReturns
<1>7. ASSUME NEW r \in Requests, ReadRequest(r) PROVE ServeInv' BY <1>7 DEF ReadRequest
<1>8. ASSUME NEW r \in Requests, Activate(r) PROVE ServeInv' BY <1>8 DEF Activate
<1>9. ASSUME NEW r \in Requests, LeaveNew(r) PROVE ServeInv' BY <1>9 DEF LeaveNew
<1>10. ASSUME NEW r \in Requests, OrphanReturns(r) PROVE ServeInv'
  BY <1>10 DEF OrphanReturns
<1>11. CASE LeaveIdle BY <1>11 DEF LeaveIdle
<1>12. CASE Sigterm BY <1>12 DEF Sigterm
<1>13. CASE Crash BY <1>13 DEF Crash
<1>q. QED BY <1>1, <1>2, <1>3, <1>4, <1>5, <1>6, <1>7, <1>8, <1>9, <1>10, <1>11, <1>12,
            <1>13 DEF ServeNext, Connections

\* Every step of ServeLifecycle keeps its invariant.
LEMMA ServeInvStep ==
  ASSUME ServeInv, [Next]_vars
  PROVE  ServeInv'
<1>1. CASE MainNext
  BY <1>1, StartUpKeeps, ShutdownKeeps DEF MainNext
<1>2. CASE ServeNext
  BY <1>2, ServingKeeps
<1>3. CASE Environment
  BY <1>3, ShutdownKeeps, ServingKeeps DEF Environment
<1>4. CASE UNCHANGED vars
  BY <1>4 DEF vars, ServeInv, TypeOK, OneInHand, NothingServedEarly, NoServiceBeforeServe,
              ShutdownCloses, NoneIdle, OneLeft, CutOnlyByExit, GracefulExit, GraceRespected, Exited
<1>q. QED BY <1>1, <1>2, <1>3, <1>4 DEF Next

\* The inductive invariant of the three kinds of goroutines holds throughout.
THEOREM ServeInvHolds == Spec => []ServeInv
<1>1. Init => ServeInv BY ServeInvInit
<1>2. ServeInv /\ [Next]_vars => ServeInv' BY ServeInvStep
<1>q. QED BY <1>1, <1>2, PTL DEF Spec

\* Every variable keeps its type, whatever the number of connections.
THEOREM TypeCorrect == Spec => []TypeOK
<1>1. ServeInv => TypeOK BY DEF ServeInv
<1>q. QED BY <1>1, ServeInvHolds, PTL

\* A closed listener ends the process or is about to, and a stop has a deadline.
THEOREM EndInSightHolds == Spec => []EndInSight
<1>1. Init => EndInSight
  BY DEF Init, EndInSight, StartingUp, InShutdown, Ended, Running
<1>2. ASSUME ServeInv, EndInSight, [Next]_vars
      PROVE  EndInSight'
  <2> USE <1>2 DEF EndInSight, ServeInv, TypeOK, StartingUp, InShutdown, Ended, Running, End
  <2>1. CASE ResolveConfiguration \/ ConfigureLogging \/ ConnectRedis \/ DialMongo
    BY <2>1 DEF ResolveConfiguration, ConfigureLogging, ConnectRedis, DialMongo, StartUp
  <2>2. CASE NewListener BY <2>2 DEF NewListener
  <2>3. CASE Notify \/ SpawnServe BY <2>3 DEF Notify, SpawnServe
  <2>4. CASE SelectServeErr \/ SelectQuit BY <2>4 DEF SelectServeErr, SelectQuit
  <2>5. CASE BeginShutdown BY <2>5 DEF BeginShutdown, CloseListener
  <2>6. CASE PollConnections \/ PollAgain \/ ReturnFromRun \/ GiveUpDraining
    BY <2>6 DEF PollConnections, PollAgain, ReturnFromRun, GiveUpDraining
  <2>7. CASE ServeStarts \/ AcceptFails BY <2>7 DEF ServeStarts, AcceptFails, CloseListener
  <2>8. CASE Connections \/ \E r \in Requests : Accept(r) \/ Track(r)
    BY <2>8 DEF Accept, Track, Connections, Connect, ReadRequest, Activate, LeaveNew,
                HandlerReturns, OrphanReturns, LeaveIdle
  <2>9. CASE DeadlineExpires \/ Sigterm \/ Crash
    BY <2>9 DEF DeadlineExpires, Sigterm, Crash
  <2>10. CASE UNCHANGED vars BY <2>10 DEF vars
  <2>q. QED BY <2>1, <2>2, <2>3, <2>4, <2>5, <2>6, <2>7, <2>8, <2>9, <2>10
            DEF Next, MainNext, ServeNext, Environment
<1>q. QED BY <1>1, <1>2, ServeInvHolds, PTL DEF Spec

\* Status 0 means that at most one handler was cut off, however many connections
\* were in use when Shutdown looked at them; handlers on connections that it took
\* for idle come on top of that.
THEOREM GracefulExitHolds == Spec => []GracefulExit
<1>1. ServeInv => GracefulExit BY DEF ServeInv
<1>q. QED BY <1>1, ServeInvHolds, PTL

\* The drain timeout is waited for before handlers are cut off.
THEOREM GraceRespectedHolds == Spec => []GraceRespected
<1>1. ServeInv => GraceRespected BY DEF ServeInv
<1>q. QED BY <1>1, ServeInvHolds, PTL

\* No step of a shutting down server lets a connection in or keeps one alive, and
\* after the first poll none lets a request in.
THEOREM DrainShrinksHolds == Spec => DrainShrinks
<1>1. ServeInv /\ [Next]_vars => [DrainStep]_vars
  <2> SUFFICES ASSUME ServeInv, Next, main \in InShutdown
               PROVE  DrainStep
    BY DEF DrainStep
  <2> DEFINE Shrinks ==
        /\ \A r \in Requests : req'[r] = "accepted" => req[r] = "accepted"
        /\ idle' <= idle
        /\ \A r \in Requests : req'[r] = "read" => req[r] = "read" \/ main = "closing"
  <2>0. SUFFICES Shrinks
    BY DEF DrainStep, ServeInv, OneInHand
  <2>1. CASE MainNext
    <3>1. CASE PollConnections \/ PollAgain
      BY <3>1 DEF PollConnections, PollAgain, ServeInv, TypeOK
    <3>2. CASE ReturnFromRun \/ GiveUpDraining
      BY <3>2 DEF ReturnFromRun, GiveUpDraining, End, ServeInv, TypeOK
    <3>q. QED
      BY <2>1, <3>1, <3>2 DEF InShutdown, MainNext, ResolveConfiguration, ConfigureLogging,
         ConnectRedis, DialMongo, StartUp, NewListener, Notify, SpawnServe, SelectServeErr,
         SelectQuit, BeginShutdown
  <2>2. CASE ServeStarts \/ AcceptFails
    BY <2>2 DEF ServeStarts, AcceptFails, CloseListener, ServeInv, TypeOK
  <2>3. ASSUME NEW r \in Requests, Accept(r) \/ Track(r)
        PROVE  Shrinks
    BY <2>3 DEF Accept, Track, ServeInv, TypeOK, ShutdownCloses
  <2>4. CASE Connections
    <3>1. ASSUME NEW r \in Requests, ReadRequest(r)
          PROVE  Shrinks
      BY <3>1 DEF ReadRequest, ServeInv, TypeOK, NoneIdle, InShutdown
    <3>q. QED
      BY <2>4, <3>1 DEF Connections, Connect, Activate, LeaveNew, HandlerReturns,
         OrphanReturns, LeaveIdle, ServeInv, TypeOK
  <2>5. CASE DeadlineExpires \/ Sigterm \/ Crash
    BY <2>5 DEF DeadlineExpires, Sigterm, Crash, End, ServeInv, TypeOK
  <2>q. QED BY <2>1, <2>2, <2>3, <2>4, <2>5 DEF Next, ServeNext, Environment
<1>q. QED BY <1>1, ServeInvHolds, PTL DEF Spec, DrainShrinks

-----------------------------------------------------------------------------
(* Refinement: every step is a step of GracefulServer or a stutter. *)

Fresh    == {r \in Requests : req[r] \in {"accepted", "new", "read"}}
Begun    == {r \in Requests : req[r] = "active"}
Answered == {r \in Requests : req[r] = "done"}
Lost     == {r \in Requests : req[r] \in {"closed", "cut", "orphan", "dropped"}}
Overdue  == deadline = "expired"

\* The phase, case by case.
LEMMA PhaseIs ==
  /\ main \in StartingUp => Phase = "starting"
  /\ main \in {"select", "shutdown", "closing"} => Phase = "up"
  /\ main \in {"polling", "waiting", "returning"} => Phase = "stopping"
  /\ main = "exit0" => Phase = "stopped"
  /\ main = "exit1" => Phase = "failed"
  /\ main = "killed" => Phase = "killed"
BY DEF Phase, StartingUp

\* The same in the state after a step.
LEMMA NextPhaseIs ==
  /\ main' \in StartingUp => Phase' = "starting"
  /\ main' \in {"select", "shutdown", "closing"} => Phase' = "up"
  /\ main' \in {"polling", "waiting", "returning"} => Phase' = "stopping"
  /\ main' = "exit0" => Phase' = "stopped"
  /\ main' = "exit1" => Phase' = "failed"
  /\ main' = "killed" => Phase' = "killed"
BY DEF Phase, StartingUp

\* A process that runs is in a phase that is not final.
LEMMA RunningPhase ==
  ASSUME ServeInv, Running
  PROVE  /\ Phase \in {"starting", "up", "stopping"}
         /\ Phase \notin Server!Final
<1>1. \/ main \in StartingUp \/ main \in {"select", "shutdown", "closing"}
      \/ main \in {"polling", "waiting", "returning"}
  BY DEF ServeInv, TypeOK, Running, Ended, InShutdown
<1>2. Phase \in {"starting", "up", "stopping"}
  BY <1>1, PhaseIs
<1>q. QED BY <1>2 DEF Server!Final

\* Steps that a client or a supervisor cannot see.
LEMMA StutterRefines ==
  ASSUME Phase' = Phase, Fresh' = Fresh, Begun' = Begun, Answered' = Answered,
         Lost' = Lost, Overdue' = Overdue
  PROVE  UNCHANGED Server!vars
  BY DEF Server!vars, Fresh, Begun, Answered, Lost, Overdue

\* Steps that leave the requests and the phase alone are among them.
LEMMA QuietRefines ==
  ASSUME req' = req, Phase' = Phase, Overdue' = Overdue
  PROVE  UNCHANGED Server!vars
  BY StutterRefines DEF Fresh, Begun, Answered, Lost

\* Steps after which the phase is the same: main has not moved.
LEMMA SamePhase ==
  ASSUME main' = main
  PROVE  Phase' = Phase
  BY DEF Phase

\* Closing the listener, and a connection that waits for Accept, is not seen.
LEMMA BacklogUnseen ==
  ASSUME ServeInv, CloseListener \/ req' = req
  PROVE  /\ Fresh' = Fresh /\ Begun' = Begun /\ Answered' = Answered /\ Lost' = Lost
  BY DEF CloseListener, Fresh, Begun, Answered, Lost, ServeInv, TypeOK

\* The end of the process, by the abstract action its exit status stands for.
LEMMA EndRefines ==
  ASSUME ServeInv,
         \/ End("exit1") /\ main \in StartingUp \cup {"select"}
         \/ End("exit1") /\ main \in InShutdown /\ main # "closing" /\ deadline = "expired"
         \/ End("exit0") /\ main = "returning"
         \/ End("killed") /\ Running
  PROVE  Server!Next
<1>1. ASSUME NEW status \in Ended, End(status)
      PROVE  /\ main' = status /\ Overdue' = Overdue /\ Answered' = Answered
             /\ Fresh' = {} /\ Begun' = {} /\ Lost' = Lost \cup Fresh \cup Begun
  <2>1. \A r \in Requests :
          /\ req[r] = "backlog" => req'[r] = "refused"
          /\ req[r] \in {"accepted", "new", "read"} => req'[r] = "closed"
          /\ req[r] = "active" => req'[r] = "cut"
          /\ req[r] = "orphan" => req'[r] = "dropped"
          /\ req[r] \notin {"backlog", "accepted", "new", "read", "active", "orphan"}
               => req'[r] = req[r]
    BY <1>1 DEF End
  <2>2. \A r \in Requests :
          req[r] \in {"none", "backlog", "accepted", "new", "read", "active",
                      "done", "refused", "closed", "cut", "orphan", "dropped"}
    BY DEF ServeInv, TypeOK
  <2>3. main' = status /\ Overdue' = Overdue
    BY <1>1 DEF End, Overdue
  <2>4. Answered' = Answered
    BY <2>1, <2>2 DEF Answered
  <2>5. Fresh' = {} /\ Begun' = {}
    BY <2>1, <2>2 DEF Fresh, Begun
  <2>6. Lost' = Lost \cup Fresh \cup Begun
    BY <2>1, <2>2 DEF Lost, Fresh, Begun
  <2>q. QED BY <2>3, <2>4, <2>5, <2>6
<1>2. CASE End("exit1") /\ main \in StartingUp \cup {"select"}
  <2>1. Phase \in {"starting", "up"} /\ Phase' = "failed"
    BY <1>1, <1>2, PhaseIs, NextPhaseIs DEF Ended
  <2>2. Server!Fail
    BY <1>1, <1>2, <2>1
       DEF Server!Fail, Server!End, Fresh, Begun, Answered, Lost, Overdue, Ended
  <2>q. QED BY <2>2 DEF Server!Next
<1>3. CASE End("exit1") /\ main \in InShutdown /\ main # "closing" /\ deadline = "expired"
  <2>1. Phase = "stopping" /\ Phase' = "failed"
    BY <1>1, <1>3, PhaseIs, NextPhaseIs DEF Ended, InShutdown
  <2>2. Server!Fail
    BY <1>1, <1>3, <2>1
       DEF Server!Fail, Server!End, Fresh, Begun, Answered, Lost, Overdue, Ended
  <2>q. QED BY <2>2 DEF Server!Next
<1>4. CASE End("exit0") /\ main = "returning"
  <2>1. \A r, s \in Fresh \cup Begun : r = s
    BY <1>4 DEF ServeInv, OneLeft, NoneIdle, Fresh, Begun
  <2>2. Phase = "stopping" /\ Phase' = "stopped"
    BY <1>1, <1>4, PhaseIs, NextPhaseIs DEF Ended
  <2>3. Server!Stop
    BY <1>1, <1>4, <2>1, <2>2
       DEF Server!Stop, Server!End, Fresh, Begun, Answered, Lost, Overdue, Ended
  <2>q. QED BY <2>3 DEF Server!Next
<1>5. CASE End("killed") /\ Running
  <2>1. Phase \notin Server!Final /\ Phase' = "killed"
    BY <1>1, <1>5, RunningPhase, NextPhaseIs DEF Ended
  <2>2. Server!Kill
    BY <1>1, <1>5, <2>1
       DEF Server!Kill, Server!End, Fresh, Begun, Answered, Lost, Overdue, Ended
  <2>q. QED BY <2>2 DEF Server!Next
<1>q. QED BY <1>2, <1>3, <1>4, <1>5

\* A poll gives up the requests on the connections it takes for idle.
LEMMA PollRefines ==
  ASSUME ServeInv, PollConnections
  PROVE  Server!Next
<1>1. PICK stale \in SUBSET {r \in Requests : req[r] = "new"} : \E late \in SUBSET stale :
        req' = [r \in Requests |-> IF req[r] = "read" \/ r \in late THEN "orphan"
                                   ELSE IF r \in stale THEN "closed" ELSE req[r]]
  BY DEF PollConnections
<1>2. \A r \in Requests :
        /\ req'[r] \in {"orphan", "closed"} \/ req'[r] = req[r]
        /\ req'[r] # req[r] => req[r] \in {"read", "new"}
  BY <1>1
<1>3. Begun' = Begun /\ Answered' = Answered
  BY <1>2 DEF Begun, Answered
<1>4. PICK given \in SUBSET Requests : given = {r \in Fresh : r \in Lost'}
  BY DEF Fresh
<1>5. Phase \in {"up", "stopping"} /\ Phase' = "stopping" /\ Overdue' = Overdue
  BY PhaseIs, NextPhaseIs DEF PollConnections, Overdue
<1>6. given \subseteq Fresh /\ Fresh' = Fresh \ given /\ Lost' = Lost \cup given
  BY <1>2, <1>4 DEF Fresh, Lost
<1>7. Server!StopTaking(given)
  BY <1>3, <1>5, <1>6 DEF Server!StopTaking, Fresh, Begun, Answered, Lost, Overdue
<1>q. QED BY <1>7 DEF Server!Next

\* A step of the main goroutine is one of GracefulServer, or none.
LEMMA MainRefines ==
  ASSUME ServeInv, MainNext
  PROVE  Server!Next \/ UNCHANGED Server!vars
<1>1. ASSUME NEW step \in {"configuration", "logging", "redis", "mongo"},
             NEW next \in {"logging", "redis", "mongo", "listen"},
             StartUp(step, next)
      PROVE  Server!Next \/ UNCHANGED Server!vars
  <2>1. CASE End("exit1")
    BY <1>1, <2>1, EndRefines DEF StartUp, StartingUp
  <2>2. CASE main' = next /\ req' = req /\ deadline' = deadline
    BY <1>1, <2>2, QuietRefines, PhaseIs, NextPhaseIs DEF StartUp, StartingUp, Overdue
  <2>q. QED BY <1>1, <2>1, <2>2 DEF StartUp
<1>2. CASE NewListener
  <2>1. CASE End("exit1")
    BY <1>2, <2>1, EndRefines DEF NewListener, StartingUp
  <2>2. CASE main' = "notify" /\ req' = req /\ deadline' = deadline
    BY <1>2, <2>2, QuietRefines, PhaseIs, NextPhaseIs DEF NewListener, StartingUp, Overdue
  <2>q. QED BY <1>2, <2>1, <2>2 DEF NewListener
<1>3. CASE Notify
  BY <1>3, QuietRefines, PhaseIs, NextPhaseIs DEF Notify, StartingUp, Overdue
<1>4. CASE SpawnServe
  <2>1. Phase = "starting" /\ Phase' = "up" /\ req' = req /\ deadline' = deadline
    BY <1>4, PhaseIs, NextPhaseIs DEF SpawnServe, StartingUp
  <2>2. Server!Start
    BY <2>1 DEF Server!Start
  <2>q. QED BY <2>2 DEF Server!Next
<1>5. CASE SelectServeErr
  BY <1>5, EndRefines DEF SelectServeErr
<1>6. CASE SelectQuit
  <2>1. Phase = "up" /\ Phase' = "up" /\ req' = req
    BY <1>6, PhaseIs, NextPhaseIs DEF SelectQuit
  <2>2. CASE DrainTimeout <= 0
    <3>1. deadline' = "expired"
      BY <1>6, <2>2 DEF SelectQuit
    <3>2. Server!GraceOver
      BY <2>1, <3>1 DEF Server!GraceOver
    <3>q. QED BY <3>2 DEF Server!Next
  <2>3. CASE ~(DrainTimeout <= 0)
    <3>1. deadline = "unset"
      BY <1>6 DEF SelectQuit, ServeInv, NothingServedEarly
    <3>2. deadline' = "running"
      BY <1>6, <2>3 DEF SelectQuit
    <3>q. QED BY <2>1, <3>1, <3>2, QuietRefines DEF Overdue
  <2>q. QED BY <2>2, <2>3
<1>7. CASE BeginShutdown
  <2>1. Phase' = Phase /\ Overdue' = Overdue /\ (CloseListener \/ req' = req)
    BY <1>7, PhaseIs, NextPhaseIs DEF BeginShutdown, Overdue
  <2>q. QED BY <2>1, BacklogUnseen, StutterRefines
<1>8. CASE PollConnections
  BY <1>8, PollRefines
<1>9. CASE PollAgain
  BY <1>9, QuietRefines, PhaseIs, NextPhaseIs DEF PollAgain, Overdue
<1>10. CASE ReturnFromRun
  BY <1>10, EndRefines DEF ReturnFromRun
<1>11. CASE GiveUpDraining
  BY <1>11, EndRefines DEF GiveUpDraining, InShutdown
<1>q. QED
  BY <1>1, <1>2, <1>3, <1>4, <1>5, <1>6, <1>7, <1>8, <1>9, <1>10, <1>11
     DEF MainNext, ResolveConfiguration, ConfigureLogging, ConnectRedis, DialMongo

\* So is one on a connection, ...
LEMMA ConnectionsRefine ==
  ASSUME ServeInv, Connections
  PROVE  Server!Next \/ UNCHANGED Server!vars
<1>1. /\ main' = main /\ Phase' = Phase /\ Overdue' = Overdue
      /\ Running
  BY SamePhase DEF Connections, Connect, ReadRequest, Activate, LeaveNew, HandlerReturns,
                   OrphanReturns, LeaveIdle, Overdue
<1>2. Phase \in {"starting", "up", "stopping"} /\ Phase \notin Server!Final
  BY <1>1, RunningPhase
<1>3. ASSUME NEW r \in Requests, Connect(r) \/ OrphanReturns(r)
      PROVE  UNCHANGED Server!vars
  <2>1. /\ Fresh' = Fresh /\ Begun' = Begun /\ Answered' = Answered /\ Lost' = Lost
    BY <1>3 DEF Connect, OrphanReturns, Fresh, Begun, Answered, Lost, ServeInv, TypeOK
  <2>q. QED BY <1>1, <2>1, StutterRefines
<1>4. ASSUME NEW r \in Requests, ReadRequest(r)
      PROVE  Server!Next
  <2>1. main \in {"select", "shutdown", "closing"}
    BY <1>1, <1>4 DEF ReadRequest, ServeInv, TypeOK, NoneIdle, NoServiceBeforeServe,
                 NothingServedEarly, Running, Ended, InShutdown
  <2>2. Phase = "up"
    BY <2>1, PhaseIs
  <2>3. /\ r \notin Fresh \cup Begun \cup Answered \cup Lost
        /\ Fresh' = Fresh \cup {r} /\ Begun' = Begun /\ Answered' = Answered /\ Lost' = Lost
    BY <1>4 DEF ReadRequest, Fresh, Begun, Answered, Lost, ServeInv, TypeOK
  <2>4. Server!Take(r)
    BY <1>1, <2>2, <2>3 DEF Server!Take, Fresh, Begun, Answered, Lost, Overdue
  <2>q. QED BY <2>4 DEF Server!Next
<1>5. ASSUME NEW r \in Requests, Activate(r)
      PROVE  Server!Next
  <2>1. /\ r \in Fresh /\ Fresh' = Fresh \ {r} /\ Begun' = Begun \cup {r}
        /\ Answered' = Answered /\ Lost' = Lost
    BY <1>5 DEF Activate, Fresh, Begun, Answered, Lost, ServeInv, TypeOK
  <2>2. Server!Begin(r)
    BY <1>1, <1>2, <2>1 DEF Server!Begin, Fresh, Begun, Answered, Lost, Overdue
  <2>q. QED BY <2>2 DEF Server!Next
<1>6. ASSUME NEW r \in Requests, LeaveNew(r)
      PROVE  Server!Next
  <2>1. /\ r \in Fresh /\ Fresh' = Fresh \ {r} /\ Lost' = Lost \cup {r}
        /\ Begun' = Begun /\ Answered' = Answered
    BY <1>6 DEF LeaveNew, Fresh, Begun, Answered, Lost, ServeInv, TypeOK
  <2>2. Server!Leave(r)
    BY <1>1, <1>2, <2>1 DEF Server!Leave, Fresh, Begun, Answered, Lost, Overdue
  <2>q. QED BY <2>2 DEF Server!Next
<1>7. ASSUME NEW r \in Requests, HandlerReturns(r)
      PROVE  Server!Next
  <2>1. /\ r \in Begun /\ Begun' = Begun \ {r} /\ Answered' = Answered \cup {r}
        /\ Fresh' = Fresh /\ Lost' = Lost
    BY <1>7 DEF HandlerReturns, Fresh, Begun, Answered, Lost, ServeInv, TypeOK
  <2>2. Server!Answer(r)
    BY <1>1, <1>2, <2>1 DEF Server!Answer, Fresh, Begun, Answered, Lost, Overdue
  <2>q. QED BY <2>2 DEF Server!Next
<1>8. CASE LeaveIdle
  BY <1>1, <1>8, QuietRefines DEF LeaveIdle
<1>q. QED BY <1>3, <1>4, <1>5, <1>6, <1>7, <1>8 DEF Connections

\* ... one of the serving goroutine, and one of the system.
LEMMA OthersRefine ==
  ASSUME ServeInv, ServeNext \/ Environment
  PROVE  Server!Next \/ UNCHANGED Server!vars
<1>1. CASE ServeStarts \/ AcceptFails
  <2>1. Phase' = Phase /\ Overdue' = Overdue /\ (CloseListener \/ req' = req)
    BY <1>1, SamePhase DEF ServeStarts, AcceptFails, Overdue
  <2>q. QED BY <2>1, BacklogUnseen, StutterRefines
<1>2. ASSUME NEW r \in Requests, Accept(r)
      PROVE  Server!Next
  <2>1. main \in {"select", "shutdown", "closing"}
    BY <1>2 DEF Accept, ServeInv, TypeOK, NothingServedEarly, ShutdownCloses, Running, Ended
  <2>2. Phase = "up" /\ Phase' = Phase /\ Overdue' = Overdue
    BY <1>2, <2>1, PhaseIs, SamePhase DEF Accept, Overdue
  <2>3. /\ r \notin Fresh \cup Begun \cup Answered \cup Lost
        /\ Fresh' = Fresh \cup {r} /\ Begun' = Begun /\ Answered' = Answered /\ Lost' = Lost
    BY <1>2 DEF Accept, Fresh, Begun, Answered, Lost, ServeInv, TypeOK
  <2>4. Server!Take(r)
    BY <2>2, <2>3 DEF Server!Take, Fresh, Begun, Answered, Lost, Overdue
  <2>q. QED BY <2>4 DEF Server!Next
<1>3. ASSUME NEW r \in Requests, Track(r)
      PROVE  UNCHANGED Server!vars
  <2>1. Fresh' = Fresh /\ Begun' = Begun /\ Answered' = Answered /\ Lost' = Lost
    BY <1>3 DEF Track, Fresh, Begun, Answered, Lost, ServeInv, TypeOK
  <2>q. QED BY <1>3, <2>1, SamePhase, StutterRefines DEF Track, Overdue
<1>4. CASE Connections
  BY <1>4, ConnectionsRefine
<1>5. CASE DeadlineExpires
  <2>1. main \in {"select", "shutdown"} \cup InShutdown /\ main' = main /\ req' = req
    BY <1>5 DEF DeadlineExpires, ServeInv, TypeOK, NothingServedEarly, Running, Ended
  <2>2. Phase \in {"up", "stopping"} /\ Phase' = Phase
    BY <2>1, PhaseIs, SamePhase DEF InShutdown
  <2>3. Server!GraceOver
    BY <1>5, <2>1, <2>2 DEF DeadlineExpires, Server!GraceOver
  <2>q. QED BY <2>3 DEF Server!Next
<1>6. CASE Sigterm
  <2>1. CASE notified
    BY <1>6, <2>1, SamePhase, QuietRefines DEF Sigterm, Overdue
  <2>2. CASE ~notified
    BY <1>6, <2>2, EndRefines DEF Sigterm
  <2>q. QED BY <2>1, <2>2
<1>7. CASE Crash
  BY <1>7, EndRefines DEF Crash
<1>q. QED BY <1>1, <1>2, <1>3, <1>4, <1>5, <1>6, <1>7 DEF ServeNext, Environment

\* The program of ListenAndServe implements the promise of GracefulServer: for any
\* number of requests and connections, a stop with status 0 loses one request at
\* most of those that a tracked connection was busy with.
THEOREM RefinesGracefulServer == Spec => ImplementsGracefulServer
<1>1. Init => Server!Init
  <2> SUFFICES ASSUME Init PROVE Server!Init
    OBVIOUS
  <2>1. Phase = "starting"
    BY PhaseIs DEF Init, StartingUp
  <2>2. Fresh = {} /\ Begun = {} /\ Answered = {} /\ Lost = {}
    BY DEF Init, Fresh, Begun, Answered, Lost
  <2>3. Overdue = FALSE
    BY DEF Init, Overdue
  <2>q. QED BY <2>1, <2>2, <2>3 DEF Server!Init, Fresh, Begun, Answered, Lost, Overdue
<1>2. ServeInv /\ [Next]_vars => [Server!Next]_(Server!vars)
  <2> SUFFICES ASSUME ServeInv, [Next]_vars
               PROVE  Server!Next \/ UNCHANGED Server!vars
    OBVIOUS
  <2>1. CASE Next
    BY <2>1, MainRefines, OthersRefine DEF Next
  <2>2. CASE UNCHANGED vars
    BY <2>2, SamePhase, QuietRefines DEF vars, Overdue
  <2>q. QED BY <2>1, <2>2
<1>q. QED BY <1>1, <1>2, ServeInvHolds, PTL DEF Spec, ImplementsGracefulServer, Server!Spec

-----------------------------------------------------------------------------
(* The composition implements both components. *)

\* A process that ended takes no step.
LEMMA OnlyRunningSteps ==
  ASSUME Next
  PROVE  Running
BY DEF Next, MainNext, ServeNext, Environment, ResolveConfiguration, ConfigureLogging,
       ConnectRedis, DialMongo, StartUp, NewListener, Notify, SpawnServe, SelectServeErr,
       SelectQuit, BeginShutdown, PollConnections, PollAgain, ReturnFromRun,
       GiveUpDraining, DeadlineExpires, ServeStarts, Accept, Track, AcceptFails, Connections,
       Connect, ReadRequest, Activate, LeaveNew, HandlerReturns, OrphanReturns, LeaveIdle,
       Sigterm, Crash, Running, Ended

\* What the server does leaves the calls alone, or ends the process under them.
LEMMA ServerStepMaps ==
  ASSUME Next, UNCHANGED calls
  PROVE  [Mongo!Next]_(Mongo!vars)
<1>1. Running BY OnlyRunningSteps
<1>2. CASE Running'
  BY <1>1, <1>2 DEF Mongo!vars, calls, Running
<1>3. CASE ~ Running'
  <2>1. Mongo!ProcessEnds BY <1>1, <1>3 DEF Mongo!ProcessEnds, calls
  <2>q. QED BY <2>1 DEF Mongo!Next
<1>q. QED BY <1>2, <1>3

\* A step of the composition is a step of each component, or none.
LEMMA StepMaps ==
  ASSUME [NextAll]_all
  PROVE  [Next]_vars /\ [Mongo!Next]_(Mongo!vars)
<1>1. CASE ServerStep
  <2>1. Next BY <1>1 DEF ServerStep, Next, Environment, Connections
  <2>q. QED BY <1>1, <2>1, ServerStepMaps DEF ServerStep
<1>2. ASSUME NEW r \in Requests, HandlerEnds(r)
      PROVE  [Next]_vars /\ [Mongo!Next]_(Mongo!vars)
  <2>1. Next BY <1>2 DEF HandlerEnds, Next, Environment, Connections
  <2>q. QED BY <1>2, <2>1, ServerStepMaps DEF HandlerEnds
<1>3. ASSUME NEW r \in Requests, HandlerCalls(r) \/ WorkOn(r) \/ ClientLeaves(r)
      PROVE  [Next]_vars /\ [Mongo!Next]_(Mongo!vars)
  <2>1. UNCHANGED vars BY <1>3 DEF HandlerCalls, WorkOn, ClientLeaves
  <2>2. Mongo!Next
    BY <1>3 DEF HandlerCalls, WorkOn, ClientLeaves, Mongo!FStep, Mongo!Next
  <2>q. QED BY <2>1, <2>2
<1>4. ASSUME NEW r \in Requests, WorkPanics(r)
      PROVE  [Next]_vars /\ [Mongo!Next]_(Mongo!vars)
  <2>1. Next BY <1>4 DEF WorkPanics, Next, Environment
  <2>2. Mongo!Next BY <1>4 DEF WorkPanics, Mongo!FStep, Mongo!Next
  <2>q. QED BY <2>1, <2>2
<1>5. CASE UNCHANGED all
  BY <1>5 DEF all, vars, calls, Mongo!vars, Running
<1>q. QED BY <1>1, <1>2, <1>3, <1>4, <1>5 DEF NextAll

\* Calls of WithContext take nothing from what ServeLifecycle promises.
THEOREM RefinesServeLifecycle == SpecAll => Spec
<1>1. InitAll => Init BY DEF InitAll
<1>2. [NextAll]_all => [Next]_vars BY StepMaps
<1>q. QED BY <1>1, <1>2, PTL DEF SpecAll, Spec

\* A server that stops takes nothing from what MongoSession promises.
THEOREM RefinesMongoSession == SpecAll => Mongo!Spec
<1>1. InitAll => Mongo!Init BY DEF InitAll
<1>2. [NextAll]_all => [Mongo!Next]_(Mongo!vars) BY StepMaps
<1>q. QED BY <1>1, <1>2, PTL DEF SpecAll, Mongo!Spec

-----------------------------------------------------------------------------
(* What the proofs about the components say here. *)

\* MP repeats the definitions of Mongo, for the theorems of MongoSession_proofs.
LEMMA SameStep ==
  ASSUME [Mongo!Next]_(Mongo!vars)
  PROVE  [MP!Next]_(MP!vars)
<1>1. ASSUME NEW r \in Requests, Mongo!CallStep(r) PROVE MP!CallStep(r)
  BY <1>1 DEF Mongo!CallStep, Mongo!Copy, Mongo!Spawn, Mongo!SelectDone,
     Mongo!SelectResult, Mongo!AwaitResult, Mongo!Receive, Mongo!Close, Mongo!Goto,
     MP!CallStep, MP!Copy, MP!Spawn, MP!SelectDone,
     MP!SelectResult, MP!AwaitResult, MP!Receive, MP!Close, MP!Goto
<1>2. ASSUME NEW r \in Requests, Mongo!FStep(r) PROVE MP!FStep(r)
  BY <1>2 DEF Mongo!FStep, Mongo!FirstOperation, Mongo!Commit, Mongo!Return,
     Mongo!Panic, Mongo!Results, MP!FStep, MP!FirstOperation, MP!Commit, MP!Return,
     MP!Panic, MP!Results
<1>3. ASSUME NEW r \in Requests, Mongo!Cancel(r) PROVE MP!Cancel(r)
  BY <1>3 DEF Mongo!Cancel, MP!Cancel
<1>4. Mongo!ProcessEnds => MP!ProcessEnds
  BY DEF Mongo!ProcessEnds, MP!ProcessEnds
<1>5. UNCHANGED Mongo!vars => UNCHANGED MP!vars
  BY DEF Mongo!vars, MP!vars
<1>q. QED BY <1>1, <1>2, <1>3, <1>4, <1>5 DEF Mongo!Next, MP!Next

\* The invariant of MongoSession holds for the calls of the handlers.
LEMMA CallsCorrect == SpecAll => []MP!SessionInv
<1>1. Mongo!Init => MP!Init BY DEF Mongo!Init, MP!Init
<1>2. [Mongo!Next]_(Mongo!vars) => [MP!Next]_(MP!vars) BY SameStep
<1>3. Mongo!Spec => MP!Spec BY <1>1, <1>2, PTL DEF Mongo!Spec, MP!Spec
<1>4. MP!Spec => []MP!SessionInv BY MP!SessionInvHolds, SocketAssumption
<1>q. QED BY <1>3, <1>4, RefinesMongoSession, PTL

\* And that of ServeLifecycle for the server.
LEMMA ServerCorrect == SpecAll => []ServeInv
BY RefinesServeLifecycle, ServeInvHolds, PTL

-----------------------------------------------------------------------------
(* How the two components hang together. *)

\* What goes on around the handlers ends no call but with the process.
LEMMA ServerStepKeeps ==
  ASSUME ServeInv, CallsBelong, ServerStep
  PROVE  CallsBelong'
<1> USE DEF ServeInv, TypeOK, CallsBelong, InCall, Serving, ServerStep, calls, Running,
            Exited, Ended, End, StartingUp, InShutdown
<1>1. CASE MainNext
  BY <1>1 DEF MainNext, ResolveConfiguration, ConfigureLogging, ConnectRedis, DialMongo,
     StartUp, NewListener, Notify, SpawnServe, SelectServeErr, SelectQuit, BeginShutdown,
     CloseListener, PollConnections, PollAgain, ReturnFromRun, GiveUpDraining
<1>2. CASE ServeNext
  BY <1>2 DEF ServeNext, ServeStarts, Accept, Track, AcceptFails, CloseListener
<1>3. CASE DeadlineExpires \/ Sigterm \/ Crash \/ LeaveIdle
  BY <1>3 DEF DeadlineExpires, Sigterm, Crash, LeaveIdle
<1>4. ASSUME NEW r \in Requests, Connect(r) \/ ReadRequest(r) \/ Activate(r) \/ LeaveNew(r)
      PROVE  CallsBelong'
  BY <1>4 DEF Connect, ReadRequest, Activate, LeaveNew
<1>q. QED BY <1>1, <1>2, <1>3, <1>4

\* A handler that is not in a call returns; one in a call stays.
LEMMA HandlerKeeps ==
  ASSUME ServeInv, CallsBelong, NEW r \in Requests, HandlerEnds(r)
  PROVE  CallsBelong'
BY DEF ServeInv, TypeOK, CallsBelong, InCall, Serving, HandlerEnds, HandlerReturns,
       OrphanReturns, calls, Running, Exited

\* A call begins and ends while its request is in progress.
LEMMA CallKeeps ==
  ASSUME MP!SessionInv, CallsBelong, NEW r \in Requests,
         HandlerCalls(r) \/ WorkOn(r) \/ ClientLeaves(r)
  PROVE  CallsBelong'
<1> USE DEF MP!SessionInv, MP!TypeOK, CallsBelong, InCall, Serving, vars, Running, Exited
<1>1. CASE HandlerCalls(r)
  BY <1>1 DEF HandlerCalls, Mongo!CallStep, Mongo!Copy, Mongo!Spawn, Mongo!SelectDone,
     Mongo!SelectResult, Mongo!AwaitResult, Mongo!Receive, Mongo!Close, Mongo!Goto
<1>2. CASE WorkOn(r) \/ ClientLeaves(r)
  BY <1>2 DEF WorkOn, ClientLeaves, Mongo!FirstOperation, Mongo!Commit, Mongo!Return,
     Mongo!Cancel
<1>q. QED BY <1>1, <1>2

\* Every step of the composition keeps calls with their requests.
LEMMA CallsBelongStep ==
  ASSUME ServeInv, MP!SessionInv, CallsBelong, [NextAll]_all
  PROVE  CallsBelong'
<1>1. ASSUME NEW r \in Requests, WorkPanics(r) PROVE CallsBelong'
  <2>1. ServerStep
    BY <1>1 DEF WorkPanics, ServerStep, Mongo!Panic, calls
  <2>q. QED BY <2>1, ServerStepKeeps
<1>2. CASE UNCHANGED all
  BY <1>2 DEF all, vars, calls, CallsBelong, InCall, Serving, Running, Exited
<1>q. QED BY <1>1, <1>2, ServerStepKeeps, HandlerKeeps, CallKeeps DEF NextAll

\* Calls belong to requests in progress, and stop only with the process.
THEOREM CallsBelongHolds == SpecAll => []CallsBelong
<1>1. InitAll => CallsBelong
  BY DEF InitAll, Init, Mongo!Init, CallsBelong, InCall
<1>2. ServeInv /\ MP!SessionInv /\ CallsBelong /\ [NextAll]_all => CallsBelong'
  BY CallsBelongStep
<1>q. QED BY <1>1, <1>2, CallsCorrect, ServerCorrect, PTL DEF SpecAll

\* An answered request has no work, session or socket left.
THEOREM AnswerIsFinalHolds == SpecAll => []AnswerIsFinal
<1>1. MP!SessionInv /\ CallsBelong => AnswerIsFinal
  BY DEF MP!SessionInv, MP!TypeOK, MP!CallInv, MP!NothingLeftBehind, MP!SessionOutlivesF,
     CallsBelong, InCall, Serving, AnswerIsFinal
<1>q. QED BY <1>1, CallsCorrect, CallsBelongHolds, PTL

\* Work is cut off by a kill, a failed start, the deadline, a poll that found its
\* connection idle, or once because its connection was tracked too late.
THEOREM WorkCutOffHolds == SpecAll => []WorkCutOff
<1>1. ServeInv /\ CallsBelong => WorkCutOff
  <2> SUFFICES ASSUME ServeInv, CallsBelong PROVE WorkCutOff
    OBVIOUS
  <2>1. \A r \in Requests : CutOff(r) => req[r] \in {"cut", "dropped"}
    BY DEF CutOff, CallsBelong, Serving, Exited, Running
  <2>2. ASSUME NEW r \in Requests, CutOff(r), main = "exit1"
        PROVE  deadline # "running"
    BY <2>2 DEF ServeInv, GraceRespected
  <2>3. ASSUME NEW r \in Requests, CutOff(r), main = "exit0", req[r] # "dropped",
               NEW s \in Requests, CutOff(s), req[s] # "dropped"
        PROVE  s = r
    BY <2>1, <2>3 DEF ServeInv, GracefulExit
  <2>q. QED BY <2>2, <2>3 DEF WorkCutOff, CutOff, Exited, Ended
<1>q. QED BY <1>1, ServerCorrect, CallsBelongHolds, PTL

\* Handlers that wait for sockets wait for handlers that need none, however few
\* the sockets are, so the drain waits for nobody who is stuck.
THEOREM HandlersGoOnHolds == SpecAll => []HandlersGoOn
<1>1. SpecAll => []MP!WaitsEnd
  <2>1. Mongo!Init => MP!Init BY DEF Mongo!Init, MP!Init
  <2>2. [Mongo!Next]_(Mongo!vars) => [MP!Next]_(MP!vars) BY SameStep
  <2>3. Mongo!Spec => MP!Spec BY <2>1, <2>2, PTL DEF Mongo!Spec, MP!Spec
  <2>4. MP!Spec => []MP!WaitsEnd BY MP!WaitsEndHolds, SocketAssumption
  <2>q. QED BY <2>3, <2>4, RefinesMongoSession, PTL
<1>2. ServeInv /\ MP!SessionInv /\ MP!WaitsEnd /\ CallsBelong => HandlersGoOn
  <2> SUFFICES ASSUME ServeInv, MP!SessionInv, MP!WaitsEnd, CallsBelong,
                      NEW r \in Requests, Serving(r), InCall(r), pc[r] # "copied",
                      ~ Mongo!GoesOn(r)
               PROVE  /\ fn[r] = "started"
                      /\ \A s \in Requests :
                           socket[s] # NoSocket => Serving(s) /\ Mongo!GoesOn(s)
    BY DEF HandlersGoOn
  <2>1. \A s \in Requests : MP!GoesOn(s) <=> Mongo!GoesOn(s)
    BY DEF MP!GoesOn, Mongo!GoesOn
  <2>2. fn[r] = "started"
    BY <2>1 DEF MP!WaitsEnd, MP!SessionInv, MP!TypeOK, InCall
  <2>3. ASSUME NEW s \in Requests, socket[s] # NoSocket
        PROVE  Serving(s) /\ Mongo!GoesOn(s)
    <3>1. MP!GoesOn(s)
      BY <2>3 DEF MP!WaitsEnd
    <3>2. InCall(s)
      BY <2>3, <3>1 DEF MP!GoesOn, MP!SessionInv, MP!SessionOutlivesF, InCall
    <3>3. ~ Exited
      BY DEF CallsBelong, Running, Exited
    <3>q. QED BY <2>1, <3>1, <3>2, <3>3 DEF CallsBelong
  <2>q. QED BY <2>2, <2>3
<1>q. QED BY <1>1, <1>2, ServerCorrect, CallsCorrect, CallsBelongHolds, PTL
=============================================================================
