----------------------------- MODULE MCRedisPool -----------------------------
(* Instances of RedisPool for TLC. *)
EXTENDS RedisPool, TLC

CONSTANTS c1, c2, c3, k1, k2, k3

ThreeClients == {c1, c2, c3}
TwoClients   == {c1, c2}
ThreeConns   == {k1, k2, k3}

\* Every option given, so that every step happens and the limit is reached.
Limited ==
  [Password |-> TRUE, DB |-> 1, MaxActive |-> 2, MaxIdle |-> 1, IdleTimeout |-> 30]

\* Every option left out: no limit, no idle list, no AUTH and no SELECT.
Defaults ==
  [Password |-> FALSE, DB |-> 0, MaxActive |-> 0, MaxIdle |-> 0, IdleTimeout |-> 0]

LimitedAndDefaults == {Limited, Defaults}
OnlyLimited        == {[Limited EXCEPT !.MaxActive = 1]}

\* c1 runs NewRedisPool, the others are alike.
Symmetry == Permutations(Clients \ {First}) \cup Permutations(Conns)
=============================================================================
