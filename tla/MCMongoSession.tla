--------------------------- MODULE MCMongoSession ---------------------------
(* Instances of MongoSession for TLC. *)
EXTENDS MongoSession

CONSTANTS c1, c2, c3, s1, s2

ThreeCallers == {c1, c2, c3}
TwoSockets   == {s1, s2}
=============================================================================
