----------------------------- MODULE RedisPool -----------------------------
(***************************************************************************)
(* The redis connections of shop/redis/redis.go: NewRedisPool, which tests *)
(* its pool with one Ping before anybody else has it, Ping, and the Dial   *)
(* function of the pool, DialWithConf.                                     *)
(*                                                                         *)
(* redigo's vendored Pool is modelled as far as this code sets it up:       *)
(* Wait is FALSE, TestOnBorrow sends PING.  Its mutex is released around   *)
(* every call that talks to the server, so get and put are cut into the    *)
(* steps between those calls.  The clock is not modelled: an idle          *)
(* connection may be found older than IdleTimeout at any time.             *)
(***************************************************************************)
EXTENDS Integers, Sequences, FiniteSets

CONSTANTS
  Clients,      \* the goroutines that call Ping, again and again
  First,        \* the one that runs NewRedisPool
  Conns,        \* names for the TCP connections; a closed one is used again
  NoConn,       \* the client holds no connection
  Configurations  \* what may be configured; Password: whether there is one

ASSUME RedisAssumption ==
  /\ IsFiniteSet(Clients)
  /\ First \in Clients
  /\ NoConn \notin Conns
  /\ Configurations \subseteq
       [Password : BOOLEAN, DB : Int, MaxActive : Int, MaxIdle : Int, IdleTimeout : Int]

VARIABLES
  conf,      \* the configuration, which does not change
  app,       \* what became of NewRedisPool
  pc,        \* where each client is in Ping
  result,    \* what its last Ping returned
  holds,     \* the connection it works on
  open,      \* the connections open on our side
  authed,    \* ... that passed AUTH
  selected,  \* ... that passed SELECT
  broken,    \* ... on which the next command fails
  lapsed,    \* ... that broke while they were idle (history)
  idle,      \* the idle list of the pool, front first
  active     \* the pool's count of its connections

conns == <<open, authed, selected, broken, lapsed>>
vars  == <<conf, app, pc, result, holds, conns, idle, active>>

\* The places where a connection is being got rid of.
Dropping == {"stale", "bad", "evict", "dialFailed"}

TypeOK ==
  /\ conf \in Configurations
  /\ app \in {"testing", "ready", "failed"}
  /\ pc \in [Clients -> {"idle", "get", "pop", "test", "dial", "auth", "select",
                         "do", "put", "return"} \cup Dropping]
  /\ result \in [Clients -> {"none", "pong", "err", "exhausted"}]
  /\ holds \in [Clients -> Conns \cup {NoConn}]
  /\ open \subseteq Conns
  /\ authed \subseteq open
  /\ selected \subseteq open
  /\ broken \subseteq open
  /\ lapsed \subseteq broken
  /\ idle \in Seq(Conns)
  /\ active \in Nat

Init ==
  /\ conf \in Configurations
  /\ app = "testing"
  /\ pc = [c \in Clients |-> "idle"]
  /\ result = [c \in Clients |-> "none"]
  /\ holds = [c \in Clients |-> NoConn]
  /\ open = {} /\ authed = {} /\ selected = {} /\ broken = {} /\ lapsed = {}
  /\ idle = <<>>
  /\ active = 0

-----------------------------------------------------------------------------
Goto(c, place) == pc' = [pc EXCEPT ![c] = place]

IdleSet == {idle[i] : i \in 1..Len(idle)}

Hold(c, k) == holds' = [holds EXCEPT ![c] = k]

\* Mutants, plausible wrong versions of definitions below that no specification
\* uses.  First: a pool without TestOnBorrow.
BorrowUntested(c) ==
  /\ pc[c] = "test"
  /\ Goto(c, "do")
  /\ UNCHANGED <<app, result, holds, conns, idle, active>>

\* A failed dial that is not taken back from the count.
DialNeverUncounted(c) ==
  /\ pc[c] = "dial"
  /\ Goto(c, "return")
  /\ result' = [result EXCEPT ![c] = "err"]
  /\ UNCHANGED <<app, active, holds, conns, idle>>

\* DialWithConf without conn.Close() when AUTH fails.
AuthLeaks(c) ==
  /\ pc[c] = "auth"
  /\ \/ /\ authed' = authed \cup {holds[c]}
        /\ Goto(c, IF conf.DB # 0 THEN "select" ELSE "do")
        /\ UNCHANGED <<holds, result>>
     \/ /\ Hold(c, NoConn)
        /\ Goto(c, "dialFailed")
        /\ result' = [result EXCEPT ![c] = "err"]
        /\ UNCHANGED authed
  /\ UNCHANGED <<app, open, selected, broken, lapsed, idle, active>>

\* A connection too many that is dropped, but neither closed nor uncounted.
PutForgetsEvicted(c) ==
  /\ pc[c] = "put"
  /\ Goto(c, "return") /\ Hold(c, NoConn)
  /\ UNCHANGED <<app, result, conns, idle, active>>

\* After the dial, and after AUTH, DialWithConf goes on with the next command
\* the configuration asks for.
AfterAuth == IF conf.DB # 0 THEN "select" ELSE "do"
AfterDial == IF conf.Password THEN "auth" ELSE AfterAuth

\* Ping: pool.Get().
Ping(c) ==
  /\ pc[c] = "idle"
  /\ app = "ready" \/ (app = "testing" /\ c = First)
  /\ Goto(c, "get")
  /\ result' = [result EXCEPT ![c] = "none"]
  /\ UNCHANGED <<app, holds, conns, idle, active>>

\* get: a stale connection at the back of the idle list is closed.
Prune(c) ==
  /\ pc[c] = "get"
  /\ conf.IdleTimeout > 0
  /\ idle # <<>>
  /\ Hold(c, idle[Len(idle)])
  /\ idle' = SubSeq(idle, 1, Len(idle) - 1)
  /\ Goto(c, "stale")
  /\ UNCHANGED <<app, result, conns, active>>

\* get: the idle connection used last is borrowed ...
Borrow(c) ==
  /\ pc[c] \in {"get", "pop"}
  /\ idle # <<>>
  /\ Hold(c, Head(idle))
  /\ idle' = Tail(idle)
  /\ Goto(c, "test")
  /\ UNCHANGED <<app, result, conns, active>>

\* ... or, when there is none, a new one is counted in before it is dialled ...
StartDial(c) ==
  /\ pc[c] \in {"get", "pop"}
  /\ idle = <<>>
  /\ conf.MaxActive <= 0 \/ active < conf.MaxActive
  /\ active' = active + 1
  /\ Goto(c, "dial")
  /\ UNCHANGED <<app, result, holds, conns, idle>>

\* ... or refused: the pool does not wait.
PoolExhausted(c) ==
  /\ pc[c] \in {"get", "pop"}
  /\ idle = <<>>
  /\ conf.MaxActive > 0 /\ active >= conf.MaxActive
  /\ result' = [result EXCEPT ![c] = "exhausted"]
  /\ Goto(c, "return")
  /\ UNCHANGED <<app, holds, conns, idle, active>>

TestOnBorrow(c) ==
  /\ pc[c] = "test"
  /\ Goto(c, IF holds[c] \in broken THEN "bad" ELSE "do")
  /\ UNCHANGED <<app, result, holds, conns, idle, active>>

-----------------------------------------------------------------------------
(* DialWithConf. *)

Dial(c) ==
  /\ pc[c] = "dial"
  /\ \/ \E k \in Conns \ open :
          /\ open' = open \cup {k}
          /\ Hold(c, k)
          /\ Goto(c, AfterDial)
          /\ UNCHANGED result
     \/ /\ Goto(c, "dialFailed")
        /\ result' = [result EXCEPT ![c] = "err"]
        /\ UNCHANGED <<open, holds>>
  /\ UNCHANGED <<app, authed, selected, broken, lapsed, idle, active>>

\* A command that fails leaves a connection that has to be closed: conn.Close()
\* comes with CloseConn.
Auth(c) ==
  /\ pc[c] = "auth"
  /\ \/ /\ holds[c] \notin broken
        /\ authed' = authed \cup {holds[c]}
        /\ Goto(c, AfterAuth)
        /\ UNCHANGED result
     \/ /\ Goto(c, "dialFailed")
        /\ result' = [result EXCEPT ![c] = "err"]
        /\ UNCHANGED authed
  /\ UNCHANGED <<app, holds, open, selected, broken, lapsed, idle, active>>

Select(c) ==
  /\ pc[c] = "select"
  /\ \/ /\ holds[c] \notin broken
        /\ selected' = selected \cup {holds[c]}
        /\ Goto(c, "do")
        /\ UNCHANGED result
     \/ /\ Goto(c, "dialFailed")
        /\ result' = [result EXCEPT ![c] = "err"]
        /\ UNCHANGED selected
  /\ UNCHANGED <<app, holds, open, authed, broken, lapsed, idle, active>>

-----------------------------------------------------------------------------
(* The rest of Ping. *)

\* conn.Do("PING") with the connection, then its deferred Close.
Do(c) ==
  /\ pc[c] = "do"
  /\ result' = [result EXCEPT ![c] = IF holds[c] \in broken THEN "err" ELSE "pong"]
  /\ Goto(c, "put")
  /\ UNCHANGED <<app, holds, conns, idle, active>>

\* put: a connection that failed is closed; another one becomes idle, and drives
\* out the oldest idle one when there are more than MaxIdle.
Put(c) ==
  /\ pc[c] = "put"
  /\ LET more == <<holds[c]>> \o idle IN
     IF holds[c] \in broken
       THEN /\ Goto(c, "evict")
            /\ UNCHANGED <<holds, idle>>
       ELSE IF Len(more) > conf.MaxIdle
         THEN /\ Goto(c, "evict")
              /\ Hold(c, more[Len(more)])
              /\ idle' = SubSeq(more, 1, Len(more) - 1)
         ELSE /\ Goto(c, "return")
              /\ Hold(c, NoConn)
              /\ idle' = more
  /\ UNCHANGED <<app, result, conns, active>>

\* A connection is closed first, and then no longer counted.
CloseConn(c) ==
  /\ pc[c] \in Dropping
  /\ holds[c] # NoConn
  /\ open' = open \ {holds[c]}
  /\ authed' = authed \ {holds[c]}
  /\ selected' = selected \ {holds[c]}
  /\ broken' = broken \ {holds[c]}
  /\ lapsed' = lapsed \ {holds[c]}
  /\ Hold(c, NoConn)
  /\ UNCHANGED <<app, pc, result, idle, active>>

Uncount(c) ==
  /\ pc[c] \in Dropping
  /\ holds[c] = NoConn
  /\ active' = active - 1
  /\ Goto(c, CASE pc[c] = "stale" -> "get"
               [] pc[c] = "bad"   -> "pop"
               [] OTHER           -> "return")
  /\ UNCHANGED <<app, result, holds, conns, idle>>

\* NewRedisPool hands on the error of its Ping, which ends the process.
Return(c) ==
  /\ pc[c] = "return"
  /\ Goto(c, "idle")
  /\ app' = CASE app # "testing"     -> app
              [] result[c] = "pong" -> "ready"
              [] OTHER              -> "failed"
  /\ UNCHANGED <<result, holds, conns, idle, active>>

\* The server closes a connection, or its network fails.
Break(k) ==
  /\ k \in open \ broken
  /\ broken' = broken \cup {k}
  /\ lapsed' = IF k \in IdleSet THEN lapsed \cup {k} ELSE lapsed
  /\ UNCHANGED <<app, pc, result, holds, open, authed, selected, idle, active>>

-----------------------------------------------------------------------------
Get(c) ==
  Prune(c) \/ Borrow(c) \/ StartDial(c) \/ PoolExhausted(c) \/ TestOnBorrow(c)

DialWithConf(c) == Dial(c) \/ Auth(c) \/ Select(c)

Next ==
  /\ \/ \E c \in Clients :
          \/ Ping(c) \/ Get(c) \/ DialWithConf(c)
          \/ Do(c) \/ Put(c) \/ CloseConn(c) \/ Uncount(c) \/ Return(c)
     \/ \E k \in Conns : Break(k)
  /\ UNCHANGED conf

Spec == Init /\ [][Next]_vars

-----------------------------------------------------------------------------
(* Properties. *)

\* Who has a connection: a client that works on it, or the idle list.
HeldSet == {holds[c] : c \in Clients} \ {NoConn}

\* Nobody loses a connection and nobody shares one: what is open is idle, once,
\* or held by one client, also when AUTH or SELECT failed half way.
NoLeakNoSharing ==
  /\ open = IdleSet \cup HeldSet
  /\ \A c, d \in Clients : holds[c] # NoConn /\ holds[c] = holds[d] => c = d
  /\ \A c \in Clients : holds[c] \notin IdleSet
  /\ \A i, j \in 1..Len(idle) : idle[i] = idle[j] => i = j

\* A connection a client uses, or finds idle, is set up as configured, and one that
\* the server closed while it was idle is never used: a Ping can fail on a connection
\* only if that broke in its hands.
SetUp(k) == (conf.Password => k \in authed) /\ (conf.DB # 0 => k \in selected)

HandedOutSetUp ==
  /\ \A k \in IdleSet : SetUp(k)
  /\ \A c \in Clients : pc[c] \in {"test", "do", "put"} => SetUp(holds[c])
  /\ \A c \in Clients : pc[c] \in {"do", "put"} => holds[c] \notin lapsed

\* The count is neither ahead of nor behind the connections: every error path
\* takes back what it counted.
Counted(c) == holds[c] # NoConn \/ pc[c] \in Dropping \cup {"dial"}

CountedSet == {c \in Clients : Counted(c)}

CountExact == active = Len(idle) + Cardinality(CountedSet)

\* No more connections are open than MaxActive allows, whatever fails.
LimitRespected == conf.MaxActive > 0 => Cardinality(open) <= conf.MaxActive

\* configuration.go says of MaxActive that it is the number of connections
\* opened before a connection request blocks: no request is refused for it.
BlocksAtLimit == \A c \in Clients : result[c] # "exhausted"

-----------------------------------------------------------------------------
(* The inductive invariant. *)

\* Where a client has a connection in hand, and how far DialWithConf is with it.
InHand ==
  \A c \in Clients :
    /\ pc[c] \in {"test", "auth", "select", "do", "put"} => holds[c] # NoConn
    /\ pc[c] \in {"idle", "get", "pop", "dial", "return"} => holds[c] = NoConn
    /\ pc[c] = "select" /\ conf.Password => holds[c] \in authed

PoolInv ==
  /\ TypeOK
  /\ NoLeakNoSharing
  /\ HandedOutSetUp
  /\ InHand
  /\ CountExact
  /\ conf.MaxActive > 0 => active <= conf.MaxActive
=============================================================================
