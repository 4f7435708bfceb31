---------------------------- MODULE MCServeMongo ----------------------------
(* An instance of ServeMongo for TLC. *)
EXTENDS ServeMongo

CONSTANTS r1, r2, s1

TwoRequests == {r1, r2}
OneSocket   == {s1}
=============================================================================
