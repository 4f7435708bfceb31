-------------------------- MODULE MCRequestHandler --------------------------
(* Instances of RequestHandler for TLC. *)
EXTENDS RequestHandler

\* A success, a status without a body, and an error: the statuses the code and
\* the properties tell apart.
ThreeStatuses == {200, 304, 404}
=============================================================================
