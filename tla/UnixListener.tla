---------------------------- MODULE UnixListener ----------------------------
(***************************************************************************)
(* newUnixListener (shop/listener/listener.go): processes that listen on   *)
(* one path, one after the other or overlapping, some of them killed.      *)
(* The path is looked at, the socket found there removed, and the path     *)
(* bound in three system calls that other processes may come between.      *)
(* Closing a listener is Go's: it unlinks the path, whatever is there by   *)
(* then, and closes the socket; a killed process leaves its socket behind. *)
(* Somebody else may put a file at the path at any time.                   *)
(***************************************************************************)

CONSTANTS
  Procs,      \* the processes, each run as often as the supervisor likes
  Nothing,    \* the path does not exist
  OtherFile,  \* the path is a file that is not a socket, or a link to one
  SocketLink  \* the path is a symbolic link to a socket elsewhere

Foreign == {OtherFile, SocketLink}

ASSUME PathAssumption ==
  /\ Nothing \notin Procs \cup Foreign
  /\ Foreign \cap Procs = {}
  /\ OtherFile # SocketLink

VARIABLES
  path,       \* what is at the path; a socket is named by who bound it
  permitted,  \* the directory is there, os.Stat, os.Remove and bind are allowed in it
  pc,         \* where each process is
  crossed,    \* the processes whose present run overlapped another's, or
              \* during which somebody else put a file at the path
  unaware     \* the processes that had looked at the path, or listened there,
              \* when the file of somebody else came: history, read by no step

vars == <<path, permitted, pc, crossed, unaware>>

Off == {"off", "failed"}

TypeOK ==
  /\ path \in Procs \cup Foreign \cup {Nothing}
  /\ permitted \in BOOLEAN
  /\ pc \in [Procs -> {"off", "stat", "remove", "bind", "listening", "unlinked", "failed"}]
  /\ crossed \subseteq Procs
  /\ unaware \subseteq Procs

Init ==
  /\ path \in Foreign \cup {Nothing}
  /\ permitted \in BOOLEAN
  /\ pc = [p \in Procs |-> "off"]
  /\ crossed = {}
  /\ unaware = {}

-----------------------------------------------------------------------------
Goto(p, from, to) == pc[p] = from /\ pc' = [pc EXCEPT ![p] = to]

\* Mutants, plausible wrong versions of the actions below that no specification
\* uses.  First: every file is taken for a socket.
StatFindsAnything(p) ==
  /\ path # Nothing
  /\ Goto(p, "stat", "remove")
  /\ UNCHANGED <<path, permitted, crossed, unaware>>

\* The socket found is not removed.
RemoveSkipped(p) ==
  /\ Goto(p, "remove", "bind")
  /\ UNCHANGED <<path, permitted, crossed, unaware>>

\* The listener is bound to another address than the configured one.
BindElsewhere(p) ==
  /\ Goto(p, "bind", "listening")
  /\ UNCHANGED <<path, permitted, crossed, unaware>>

\* A process starts; crossed records who runs at the same time.
Start(p) ==
  /\ pc[p] \in Off
  /\ pc' = [pc EXCEPT ![p] = "stat"]
  /\ LET others == {q \in Procs \ {p} : pc[q] \notin Off}
     IN  crossed' = IF others = {} THEN crossed \ {p} ELSE crossed \cup others \cup {p}
  /\ unaware' = unaware \ {p}
  /\ UNCHANGED <<path, permitted>>

\* os.Stat follows symbolic links: one to a socket is taken for a socket.
StatFindsSocket(p) ==
  /\ path \in Procs \cup {SocketLink}
  /\ Goto(p, "stat", "remove")
  /\ UNCHANGED <<path, permitted, crossed, unaware>>

StatFindsNothing(p) ==
  /\ path = Nothing
  /\ Goto(p, "stat", "bind")
  /\ UNCHANGED <<path, permitted, crossed, unaware>>

StatFails(p) ==
  /\ ~permitted \/ path = OtherFile
  /\ Goto(p, "stat", "failed")
  /\ UNCHANGED <<path, permitted, crossed, unaware>>

\* os.Remove removes whatever is there by now, or fails for there is nothing.
Remove(p) ==
  /\ permitted /\ path # Nothing
  /\ Goto(p, "remove", "bind")
  /\ path' = Nothing
  /\ UNCHANGED <<permitted, crossed, unaware>>

RemoveFails(p) ==
  /\ ~permitted \/ path = Nothing
  /\ Goto(p, "remove", "failed")
  /\ UNCHANGED <<path, permitted, crossed, unaware>>

Bind(p) ==
  /\ permitted /\ path = Nothing
  /\ Goto(p, "bind", "listening")
  /\ path' = p
  /\ UNCHANGED <<permitted, crossed, unaware>>

\* The address is in use, or no socket can be made in the directory.
BindFails(p) ==
  /\ ~permitted \/ path # Nothing
  /\ Goto(p, "bind", "failed")
  /\ UNCHANGED <<path, permitted, crossed, unaware>>

\* Close unlinks the path first and closes the socket then.
Unlink(p) ==
  /\ Goto(p, "listening", "unlinked")
  /\ path' = Nothing
  /\ UNCHANGED <<permitted, crossed, unaware>>

CloseSocket(p) ==
  /\ Goto(p, "unlinked", "off")
  /\ UNCHANGED <<path, permitted, crossed, unaware>>

\* SIGKILL, a panic, or an exit that does not close the listener.
Crash(p) ==
  /\ pc[p] \notin Off
  /\ pc' = [pc EXCEPT ![p] = "off"]
  /\ UNCHANGED <<path, permitted, crossed, unaware>>

\* Somebody else creates a file at the path, or renames one over what is there.
PlaceFile(f) ==
  /\ path # f
  /\ path' = f
  /\ crossed' = crossed \cup {p \in Procs : pc[p] # "off"}
  /\ unaware' = {p \in Procs : pc[p] \in {"remove", "listening"}}
  /\ UNCHANGED <<permitted, pc>>

-----------------------------------------------------------------------------
NewUnixListener(p) ==
  \/ StatFindsSocket(p) \/ StatFindsNothing(p) \/ StatFails(p)
  \/ Remove(p) \/ RemoveFails(p)
  \/ Bind(p) \/ BindFails(p)

Next ==
  \/ \E p \in Procs :
       Start(p) \/ NewUnixListener(p) \/ Unlink(p) \/ CloseSocket(p) \/ Crash(p)
  \/ \E f \in Foreign : PlaceFile(f)

Spec == Init /\ [][Next]_vars

-----------------------------------------------------------------------------
(* Properties. *)

\* Clients reach a process that listens, unless it ran at the same time as
\* another one, or somebody else used the path meanwhile: then each may take the
\* path away from the other.
ListenersReachable ==
  \A p \in Procs : pc[p] = "listening" /\ p \notin crossed => path = p

\* A restart is not stopped by what an earlier run, killed or not, left behind,
\* nor by a link to a socket: it fails only on a file that is neither, or for
\* want of permission.
RestartWorks ==
  \A p \in Procs :
    pc[p] = "failed" /\ p \notin crossed => path = OtherFile \/ ~permitted

\* A file that is neither a socket nor a link to one is removed only by a process
\* that had looked at the path before the file came, or was listening there: one
\* that looks at the path finds the file, and leaves it.
OtherFileKept ==
  [][path = OtherFile /\ path' = Nothing =>
       \E p \in unaware : pc[p] \in {"remove", "listening"} /\ pc'[p] # pc[p]]_vars

\* The inductive invariant: what a run that nobody crosses knows of the path.
AloneInv ==
  \A p \in Procs : p \notin crossed =>
    /\ pc[p] \notin Off => \A q \in Procs \ {p} : pc[q] \in Off
    /\ pc[p] = "remove" => path \in Procs \cup {SocketLink}
    /\ pc[p] = "bind" => path = Nothing

\* Only who did not see the file that is at the path is about to remove it, and
\* then everyone else has been crossed as well.
FileUnseen ==
  path = OtherFile =>
    \A p \in Procs : pc[p] \in {"remove", "listening"} =>
      /\ p \in unaware
      /\ \A q \in Procs : pc[q] # "off" => q \in crossed

ListenerInv ==
  /\ TypeOK
  /\ AloneInv
  /\ FileUnseen
  /\ ListenersReachable
  /\ RestartWorks
=============================================================================
