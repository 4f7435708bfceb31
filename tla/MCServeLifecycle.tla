-------------------------- MODULE MCServeLifecycle --------------------------
(* An instance of ServeLifecycle for TLC: two requests, the connections they *)
(* leave open, and two more requests on these.                               *)
EXTENDS ServeLifecycle

CONSTANTS r1, r2, r3, r4

FourRequests == {r1, r2, r3, r4}
=============================================================================
