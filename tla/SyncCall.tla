------------------------------ MODULE SyncCall ------------------------------
(***************************************************************************)
(* What a caller of MongoConn.WithContext may rely on: the work it hands   *)
(* over happens during the call and never after it, success means that it  *)
(* was done, and the error of the context is only reported when the        *)
(* context was done.  The goroutine, the channel and the session WithContext *)
(* uses for this do not show.                                              *)
(***************************************************************************)
CONSTANT Callers

VARIABLES
  call,       \* where each call is
  committed,  \* the calls whose work took effect in the database
  cancelled,  \* the calls whose context is done
  result      \* what each call returned

vars == <<call, committed, cancelled, result>>

Init ==
  /\ call = [c \in Callers |-> "before"]
  /\ committed = {}
  /\ cancelled = {}
  /\ result = [c \in Callers |-> "none"]

Begin(c) ==
  /\ call[c] = "before"
  /\ call' = [call EXCEPT ![c] = "during"]
  /\ UNCHANGED <<committed, cancelled, result>>

Commit(c) ==
  /\ call[c] = "during"
  /\ committed' = committed \cup {c}
  /\ UNCHANGED <<call, cancelled, result>>

Cancel(c) ==
  /\ cancelled' = cancelled \cup {c}
  /\ UNCHANGED <<call, committed, result>>

Return(c, r) ==
  /\ call[c] = "during"
  /\ r = "nil" => c \in committed
  /\ r = "ctxErr" => c \in cancelled
  /\ call' = [call EXCEPT ![c] = "after"]
  /\ result' = [result EXCEPT ![c] = r]
  /\ UNCHANGED <<committed, cancelled>>

Next ==
  \E c \in Callers :
    \/ Begin(c) \/ Commit(c) \/ Cancel(c)
    \/ \E r \in {"nil", "err", "ctxErr"} : Return(c, r)

Spec == Init /\ [][Next]_vars
=============================================================================
