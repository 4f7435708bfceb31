-------------------------- MODULE MCRequestContext --------------------------
(* Instances of RequestContext for TLC. *)
EXTENDS RequestContext

\* A success, a status without a body, and an error: the statuses the code and
\* the properties tell apart.
ThreeStatuses == {200, 304, 404}

\* Two fields the process has itself, and one that it has not.
ThreeFields == {"instance.id", "version", "service"}

\* Behind a proxy, behind one that sends nonsense, and without one.
ThreeRequests ==
  {[forwarded |-> "valid", real |-> "absent"],
   [forwarded |-> "invalid", real |-> "valid"],
   [forwarded |-> "absent", real |-> "absent"]}

\* The variable getName of handlers/context.go looks up.
NameVar == {"vars.name"}
=============================================================================
