--------------------------- MODULE GracefulServer ---------------------------
(***************************************************************************)
(* What `shop serve` promises its clients and the process that supervises  *)
(* it, with no goroutine, channel or socket in sight.  A server is up and  *)
(* takes requests; when it is told to stop it takes no more, and may leave *)
(* alone those it has not begun to work on.  It ends with success when     *)
(* what it has begun is answered, with failure when the grace period is    *)
(* over before.  net/http may begin one request too late to be counted, so *)
(* success loses at most one that was begun.                               *)
(***************************************************************************)
CONSTANT Requests

VARIABLES
  phase,     \* where the server is in its life
  fresh,     \* the requests taken that the server has not begun to work on
  begun,     \* the requests it works on
  answered,  \* the requests answered
  lost,      \* the requests taken that nobody will answer
  overdue    \* the grace period is over

vars == <<phase, fresh, begun, answered, lost, overdue>>

Final == {"stopped", "failed", "killed"}

Init ==
  /\ phase = "starting"
  /\ fresh = {}
  /\ begun = {}
  /\ answered = {}
  /\ lost = {}
  /\ overdue = FALSE

Start ==
  /\ phase = "starting"
  /\ phase' = "up"
  /\ UNCHANGED <<fresh, begun, answered, lost, overdue>>

Take(r) ==
  /\ phase = "up"
  /\ r \notin fresh \cup begun \cup answered \cup lost
  /\ fresh' = fresh \cup {r}
  /\ UNCHANGED <<phase, begun, answered, lost, overdue>>

Begin(r) ==
  /\ phase \notin Final
  /\ r \in fresh
  /\ fresh' = fresh \ {r}
  /\ begun' = begun \cup {r}
  /\ UNCHANGED <<phase, answered, lost, overdue>>

\* The client goes away before it has asked for anything.
Leave(r) ==
  /\ phase \notin Final
  /\ r \in fresh
  /\ fresh' = fresh \ {r}
  /\ lost' = lost \cup {r}
  /\ UNCHANGED <<phase, begun, answered, overdue>>

Answer(r) ==
  /\ phase \notin Final
  /\ r \in begun
  /\ begun' = begun \ {r}
  /\ answered' = answered \cup {r}
  /\ UNCHANGED <<phase, fresh, lost, overdue>>

\* The server stops taking requests, and gives up some it has not begun.
StopTaking(given) ==
  /\ phase \in {"up", "stopping"}
  /\ phase' = "stopping"
  /\ given \subseteq fresh
  /\ fresh' = fresh \ given
  /\ lost' = lost \cup given
  /\ UNCHANGED <<begun, answered, overdue>>

GraceOver ==
  /\ phase \in {"up", "stopping"}
  /\ overdue' = TRUE
  /\ UNCHANGED <<phase, fresh, begun, answered, lost>>

\* The requests still open when the process ends are lost.
End(final) ==
  /\ phase' = final
  /\ fresh' = {}
  /\ begun' = {}
  /\ lost' = lost \cup fresh \cup begun
  /\ UNCHANGED <<answered, overdue>>

Stop ==
  /\ phase = "stopping"
  /\ \A r, s \in fresh \cup begun : r = s
  /\ End("stopped")

\* Nothing but the grace period fails a server that is stopping.
Fail ==
  /\ phase \in {"starting", "up"} \/ (phase = "stopping" /\ overdue)
  /\ End("failed")

Kill ==
  /\ phase \notin Final
  /\ End("killed")

Next ==
  \/ Start \/ GraceOver \/ Stop \/ Fail \/ Kill
  \/ \E r \in Requests : Take(r) \/ Begin(r) \/ Leave(r) \/ Answer(r)
  \/ \E given \in SUBSET Requests : StopTaking(given)

Spec == Init /\ [][Next]_vars
=============================================================================
