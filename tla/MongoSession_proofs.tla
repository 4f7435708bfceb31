------------------------- MODULE MongoSession_proofs -------------------------
(***************************************************************************)
(* Proofs about MongoSession, for every set of callers and every pool.     *)
(***************************************************************************)
EXTENDS MongoSession, TLAPS

\* Initially no call has begun and every socket is free.
LEMMA SessionInvInit == Init => SessionInv
<1> SUFFICES ASSUME Init PROVE SessionInv
  OBVIOUS
<1>1. TypeOK
  <2>1. alive \in BOOLEAN
    BY DEF Init
  <2>q. QED BY <2>1 DEF Init, TypeOK, Results
<1>2. CallInv /\ SessionOutlivesF /\ NothingLeftBehind
  BY DEF Init, CallInv, SessionOutlivesF, NothingLeftBehind
<1>3. SocketsExclusive
  BY DEF Init, SocketsExclusive
<1>q. QED BY <1>1, <1>2, <1>3 DEF SessionInv

\* The steps of the calling goroutine keep the invariant.
LEMMA CallStepKeeps ==
  ASSUME SessionInv, NEW c \in Callers, CallStep(c)
  PROVE  SessionInv'
<1> USE DEF SessionInv, TypeOK, CallInv, SessionOutlivesF, SocketsExclusive,
            NothingLeftBehind, Results, Goto
<1>1. CASE Copy(c) BY <1>1 DEF Copy
<1>2. CASE Spawn(c) BY <1>2 DEF Spawn
<1>3. CASE SelectDone(c) BY <1>3 DEF SelectDone
<1>4. CASE SelectResult(c) BY <1>4 DEF SelectResult, Receive
<1>5. CASE AwaitResult(c) BY <1>5 DEF AwaitResult, Receive
<1>6. CASE Close(c) BY <1>6 DEF Close
<1>q. QED BY <1>1, <1>2, <1>3, <1>4, <1>5, <1>6 DEF CallStep

\* So do the steps of the goroutine of f, and the contexts.
LEMMA FStepKeeps ==
  ASSUME SessionInv, NEW c \in Callers, FStep(c) \/ Cancel(c)
  PROVE  SessionInv'
<1> USE NoSocketAssumption DEF SessionInv, TypeOK, CallInv, SessionOutlivesF,
            SocketsExclusive, NothingLeftBehind, Results
<1>1. CASE FirstOperation(c) BY <1>1 DEF FirstOperation
<1>2. CASE Commit(c) BY <1>2 DEF Commit
<1>3. CASE Return(c) BY <1>3 DEF Return
<1>4. CASE Panic(c) BY <1>4 DEF Panic
<1>5. CASE Cancel(c) BY <1>5 DEF Cancel
<1>q. QED BY <1>1, <1>2, <1>3, <1>4, <1>5 DEF FStep

\* Every step, and the end of the process, keeps the invariant.
LEMMA SessionInvStep ==
  ASSUME SessionInv, [Next]_vars
  PROVE  SessionInv'
<1>1. CASE \E c \in Callers : CallStep(c) \/ FStep(c) \/ Cancel(c)
  BY <1>1, CallStepKeeps, FStepKeeps
<1>2. CASE ProcessEnds
  BY <1>2 DEF ProcessEnds, SessionInv, TypeOK, CallInv, SessionOutlivesF,
              SocketsExclusive, NothingLeftBehind, Results
<1>3. CASE UNCHANGED vars
  BY <1>3 DEF vars, SessionInv, TypeOK, CallInv, SessionOutlivesF, SocketsExclusive,
              NothingLeftBehind
<1>q. QED BY <1>1, <1>2, <1>3 DEF Next

\* The inductive invariant of the two goroutines of every call.
THEOREM SessionInvHolds == Spec => []SessionInv
<1>1. Init => SessionInv BY SessionInvInit
<1>2. SessionInv /\ [Next]_vars => SessionInv' BY SessionInvStep
<1>q. QED BY <1>1, <1>2, PTL DEF Spec

\* f never runs on a session that was closed under it.
THEOREM SessionOutlivesFHolds == Spec => []SessionOutlivesF
<1>1. SessionInv => SessionOutlivesF BY DEF SessionInv
<1>q. QED BY <1>1, SessionInvHolds, PTL

\* Two calls never talk over one socket, whatever the size of the pool.
THEOREM SocketsExclusiveHolds == Spec => []SocketsExclusive
<1>1. SessionInv => SocketsExclusive BY DEF SessionInv
<1>q. QED BY <1>1, SessionInvHolds, PTL

\* A call that is over keeps no socket, session or goroutine.
THEOREM NothingLeftBehindHolds == Spec => []NothingLeftBehind
<1>1. SessionInv => NothingLeftBehind BY DEF SessionInv
<1>q. QED BY <1>1, SessionInvHolds, PTL

\* Nobody waits, at the limit of the pool, for a call that waits itself.
THEOREM WaitsEndHolds == Spec => []WaitsEnd
<1>1. Init => WaitsEnd
  BY DEF Init, WaitsEnd
<1>2. ASSUME SessionInv, WaitsEnd, [Next]_vars
      PROVE  WaitsEnd'
  <2> USE <1>2 DEF WaitsEnd, GoesOn, SessionInv, TypeOK, CallInv, SessionOutlivesF, Results, Goto
  <2>1. ASSUME NEW c \in Callers, CallStep(c) PROVE WaitsEnd'
    <3>1. CASE Copy(c) BY <3>1 DEF Copy
    <3>2. CASE Spawn(c) BY <3>2 DEF Spawn
    <3>3. CASE SelectDone(c) BY <3>3 DEF SelectDone
    <3>4. CASE SelectResult(c) BY <3>4 DEF SelectResult, Receive
    <3>5. CASE AwaitResult(c) BY <3>5 DEF AwaitResult, Receive
    <3>6. CASE Close(c) BY <3>6 DEF Close
    <3>q. QED BY <2>1, <3>1, <3>2, <3>3, <3>4, <3>5, <3>6 DEF CallStep
  <2>2. ASSUME NEW c \in Callers, FStep(c) \/ Cancel(c) PROVE WaitsEnd'
    <3>1. CASE FirstOperation(c) BY <3>1 DEF FirstOperation
    <3>2. CASE Commit(c) BY <3>2 DEF Commit
    <3>3. CASE Return(c) BY <3>3 DEF Return
    <3>4. CASE Panic(c) BY <3>4 DEF Panic
    <3>5. CASE Cancel(c) BY <3>5 DEF Cancel
    <3>q. QED BY <2>2, <3>1, <3>2, <3>3, <3>4, <3>5 DEF FStep
  <2>3. CASE ProcessEnds BY <2>3 DEF ProcessEnds
  <2>4. CASE UNCHANGED vars BY <2>4 DEF vars
  <2>q. QED BY <2>1, <2>2, <2>3, <2>4 DEF Next
<1>q. QED BY <1>1, <1>2, SessionInvHolds, PTL DEF Spec

-----------------------------------------------------------------------------
(* Refinement: the two goroutines are one synchronous call. *)

Calls    == [c \in Callers |-> CallState(c)]
Returned == [c \in Callers |-> IF pc[c] = "after" THEN ret[c] ELSE "none"]

\* Only Copy and Close move a call between before, during and after.
LEMMA CallStepRefines ==
  ASSUME SessionInv, NEW c \in Callers, CallStep(c)
  PROVE  Caller!Next \/ UNCHANGED Caller!vars
<1> USE DEF SessionInv, TypeOK, Goto
<1>1. CASE Copy(c)
  <2>1. /\ Calls[c] = "before"
        /\ Calls' = [Calls EXCEPT ![c] = "during"]
        /\ Returned' = Returned
    BY <1>1 DEF Copy, Calls, Returned, CallState
  <2>2. Caller!Begin(c)
    BY <1>1, <2>1 DEF Copy, Caller!Begin, Calls, Returned
  <2>q. QED BY <2>2 DEF Caller!Next
<1>2. CASE Close(c)
  <2>1. /\ Calls[c] = "during"
        /\ Calls' = [Calls EXCEPT ![c] = "after"]
        /\ Returned' = [Returned EXCEPT ![c] = ret[c]]
    BY <1>2 DEF Close, Calls, Returned, CallState
  <2>2. /\ ret[c] \in {"nil", "err", "ctxErr"}
        /\ ret[c] = "nil" => c \in committed
        /\ ret[c] = "ctxErr" => c \in cancelled
    BY <1>2 DEF Close, CallInv, Results
  <2>3. ASSUME NEW r \in {"nil", "err", "ctxErr"}, r = ret[c]
        PROVE  Caller!Return(c, r)
    BY <1>2, <2>1, <2>2, <2>3 DEF Close, Caller!Return, Calls, Returned
  <2>q. QED BY <2>2, <2>3 DEF Caller!Next
<1>3. CASE Spawn(c) \/ SelectDone(c) \/ SelectResult(c) \/ AwaitResult(c)
  <2>1. Calls' = Calls /\ Returned' = Returned
    BY <1>3 DEF Spawn, SelectDone, SelectResult, AwaitResult, Receive, Calls, Returned,
                CallState
  <2>2. UNCHANGED <<committed, cancelled>>
    BY <1>3 DEF Spawn, SelectDone, SelectResult, AwaitResult, Receive
  <2>q. QED BY <2>1, <2>2 DEF Caller!vars, Calls, Returned
<1>q. QED BY <1>1, <1>2, <1>3 DEF CallStep

\* f takes effect only while its call is going on.
LEMMA FStepRefines ==
  ASSUME SessionInv, NEW c \in Callers, FStep(c) \/ Cancel(c)
  PROVE  Caller!Next \/ UNCHANGED Caller!vars
<1>1. Calls' = Calls /\ Returned' = Returned
  BY DEF FStep, FirstOperation, Commit, Return, Panic, Cancel, Calls, Returned, CallState
<1>2. CASE Commit(c)
  <2>1. Calls[c] = "during"
    BY <1>2 DEF Commit, SessionInv, CallInv, Calls, CallState, SessionOutlivesF
  <2>2. Caller!Commit(c)
    BY <1>1, <1>2, <2>1 DEF Commit, Caller!Commit, Calls, Returned
  <2>q. QED BY <2>2 DEF Caller!Next
<1>3. CASE Cancel(c)
  <2>1. Caller!Cancel(c)
    BY <1>1, <1>3 DEF Cancel, Caller!Cancel, Calls, Returned
  <2>q. QED BY <2>1 DEF Caller!Next
<1>4. CASE FirstOperation(c) \/ Return(c) \/ Panic(c)
  <2>1. UNCHANGED <<committed, cancelled>>
    BY <1>4 DEF FirstOperation, Return, Panic
  <2>q. QED BY <1>1, <2>1 DEF Caller!vars, Calls, Returned
<1>q. QED BY <1>2, <1>3, <1>4 DEF FStep

\* WithContext is a synchronous call: what f does is over when it returns.
THEOREM RefinesSyncCall == Spec => ImplementsSyncCall
<1>1. Init => Caller!Init
  <2> SUFFICES ASSUME Init PROVE Caller!Init
    OBVIOUS
  <2>1. \A c \in Callers : CallState(c) = "before"
    BY DEF Init, CallState
  <2>2. Calls = [c \in Callers |-> "before"]
    BY <2>1 DEF Calls
  <2>3. Returned = [c \in Callers |-> "none"]
    BY DEF Init, Returned
  <2>q. QED BY <2>2, <2>3 DEF Init, Caller!Init, Calls, Returned
<1>2. SessionInv /\ [Next]_vars => [Caller!Next]_(Caller!vars)
  <2> SUFFICES ASSUME SessionInv, [Next]_vars
               PROVE  Caller!Next \/ UNCHANGED Caller!vars
    OBVIOUS
  <2>1. CASE \E c \in Callers : CallStep(c) \/ FStep(c) \/ Cancel(c)
    BY <2>1, CallStepRefines, FStepRefines
  <2>2. CASE ProcessEnds \/ UNCHANGED vars
    BY <2>2 DEF ProcessEnds, vars, Caller!vars, CallState
  <2>q. QED BY <2>1, <2>2 DEF Next
<1>q. QED BY <1>1, <1>2, SessionInvHolds, PTL DEF Spec, ImplementsSyncCall, Caller!Spec
=============================================================================
