------------------------- MODULE UnixListener_proofs -------------------------
(***************************************************************************)
(* Proofs about UnixListener, for every set of processes.                  *)
(***************************************************************************)
EXTENDS UnixListener, TLAPS

\* Initially no process runs.
LEMMA ListenerInvInit == Init => ListenerInv
<1> SUFFICES ASSUME Init PROVE ListenerInv
  OBVIOUS
<1>1. TypeOK
  BY DEF Init, TypeOK, Foreign
<1>2. AloneInv /\ FileUnseen
  BY DEF Init, AloneInv, FileUnseen, Off
<1>3. ListenersReachable /\ RestartWorks
  BY DEF Init, ListenersReachable, RestartWorks
<1>q. QED BY <1>1, <1>2, <1>3 DEF ListenerInv

\* Every system call of one process keeps what the others know of the path.
LEMMA ListenerInvStep ==
  ASSUME ListenerInv, [Next]_vars
  PROVE  ListenerInv'
<1> USE PathAssumption DEF ListenerInv, TypeOK, AloneInv, FileUnseen,
        ListenersReachable, RestartWorks, Goto, Off, Foreign
<1>1. ASSUME NEW p \in Procs, Start(p) PROVE ListenerInv'
  BY <1>1 DEF Start
<1>2. ASSUME NEW p \in Procs, NewUnixListener(p) PROVE ListenerInv'
  <2>1. CASE StatFindsSocket(p) BY <2>1 DEF StatFindsSocket
  <2>2. CASE StatFindsNothing(p) BY <2>2 DEF StatFindsNothing
  <2>3. CASE StatFails(p) BY <2>3 DEF StatFails
  <2>4. CASE Remove(p)
    <3>1. path' = Nothing /\ pc' = [pc EXCEPT ![p] = "bind"] /\ pc[p] = "remove"
          /\ UNCHANGED <<permitted, crossed, unaware>>
      BY <2>4 DEF Remove
    <3>2. TypeOK' /\ FileUnseen' BY <3>1
    <3>3. AloneInv'
      <4> SUFFICES ASSUME NEW q \in Procs, q \notin crossed,
                          pc'[q] \notin Off \/ pc'[q] \in {"remove", "bind"}
                   PROVE  q = p
        BY <3>1
      <4>q. QED BY <3>1
    <3>4. ListenersReachable' /\ RestartWorks' BY <3>1
    <3>q. QED BY <3>2, <3>3, <3>4
  <2>5. CASE RemoveFails(p) BY <2>5 DEF RemoveFails
  <2>6. CASE Bind(p) BY <2>6 DEF Bind
  <2>7. CASE BindFails(p) BY <2>7 DEF BindFails
  <2>q. QED BY <1>2, <2>1, <2>2, <2>3, <2>4, <2>5, <2>6, <2>7 DEF NewUnixListener
<1>3. ASSUME NEW p \in Procs, Unlink(p) PROVE ListenerInv'
  <2>1. path' = Nothing /\ pc' = [pc EXCEPT ![p] = "unlinked"] /\ pc[p] = "listening"
        /\ UNCHANGED <<permitted, crossed, unaware>>
    BY <1>3 DEF Unlink
  <2>2. TypeOK' /\ FileUnseen' BY <2>1
  <2>3. AloneInv'
    <3> SUFFICES ASSUME NEW q \in Procs, q \notin crossed,
                        pc'[q] \notin Off \/ pc'[q] \in {"remove", "bind"}
                 PROVE  q = p
      BY <2>1
    <3>q. QED BY <2>1
  <2>4. ListenersReachable' /\ RestartWorks' BY <2>1
  <2>q. QED BY <2>2, <2>3, <2>4
<1>4. ASSUME NEW p \in Procs, CloseSocket(p) PROVE ListenerInv'
  BY <1>4 DEF CloseSocket
<1>5. ASSUME NEW p \in Procs, Crash(p) PROVE ListenerInv'
  BY <1>5 DEF Crash
<1>6. ASSUME NEW f \in Foreign, PlaceFile(f) PROVE ListenerInv'
  BY <1>6 DEF PlaceFile
<1>7. CASE UNCHANGED vars
  BY <1>7 DEF vars
<1>q. QED BY <1>1, <1>2, <1>3, <1>4, <1>5, <1>6, <1>7 DEF Next

\* The inductive invariant holds throughout.
THEOREM ListenerInvHolds == Spec => []ListenerInv
<1>1. Init => ListenerInv BY ListenerInvInit
<1>2. ListenerInv /\ [Next]_vars => ListenerInv' BY ListenerInvStep
<1>q. QED BY <1>1, <1>2, PTL DEF Spec

\* A process that runs alone is reachable when it listens.
THEOREM ListenersReachableHolds == Spec => []ListenersReachable
<1>1. ListenerInv => ListenersReachable BY DEF ListenerInv
<1>q. QED BY <1>1, ListenerInvHolds, PTL

\* What a killed process left at the path never stops a later run.
THEOREM RestartWorksHolds == Spec => []RestartWorks
<1>1. ListenerInv => RestartWorks BY DEF ListenerInv
<1>q. QED BY <1>1, ListenerInvHolds, PTL

\* A process that removes a file of another kind had not seen it: the file came
\* after it had looked at the path, or while it listened.
THEOREM OtherFileKeptHolds == Spec => OtherFileKept
<1> DEFINE Kept == path = OtherFile /\ path' = Nothing =>
             \E p \in unaware : pc[p] \in {"remove", "listening"} /\ pc'[p] # pc[p]
<1>1. ASSUME ListenerInv, [Next]_vars PROVE Kept
  <2> USE <1>1, PathAssumption DEF ListenerInv, TypeOK, FileUnseen, Foreign
  <2>1. ASSUME NEW p \in Procs, Remove(p) \/ Unlink(p) PROVE Kept
    BY <2>1 DEF Remove, Unlink, Goto
  <2>2. ASSUME NEW p \in Procs,
               Start(p) \/ StatFindsSocket(p) \/ StatFindsNothing(p) \/ StatFails(p)
                 \/ RemoveFails(p) \/ Bind(p) \/ BindFails(p) \/ CloseSocket(p) \/ Crash(p)
        PROVE  Kept
    BY <2>2 DEF Start, StatFindsSocket, StatFindsNothing, StatFails, RemoveFails, Bind,
                BindFails, CloseSocket, Crash
  <2>3. ASSUME NEW f \in Foreign, PlaceFile(f) PROVE Kept
    BY <2>3 DEF PlaceFile
  <2>4. CASE UNCHANGED vars BY <2>4 DEF vars
  <2>q. QED BY <1>1, <2>1, <2>2, <2>3, <2>4 DEF Next, NewUnixListener
<1>q. QED BY <1>1, ListenerInvHolds, PTL DEF Spec, OtherFileKept
=============================================================================
