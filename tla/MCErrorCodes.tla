---------------------------- MODULE MCErrorCodes ----------------------------
(* Instances of ErrorCodes for TLC. *)
EXTENDS ErrorCodes

TwoProcs    == {"server", "client"}
FourValues  == {"UNSUPPORTED", "UNKNOWN", "DENIED", "UNAVAILABLE"}
Entry(g, v, m, s) == [group |-> g, value |-> v, message |-> m, status |-> s]

\* Versions of one package that differ in message and status, a message that two
\* errors share, and a descriptor without a status.
SixEntries ==
  {Entry("errcode", "UNKNOWN", "unknown error", 500),
   Entry("errcode", "DENIED", "no", 403),
   Entry("shop", "DENIED", "unknown error", 0),
   Entry("errcode", "UNAVAILABLE", "no", 503),
   Entry("shop", "UNAVAILABLE", "no", 503),
   Entry("errcode", "UNSUPPORTED", "no", 405)}
TwoMessages == {"unknown error", "no"}

\* The bytewise order of the values.
Before(v, w) ==
  LET order == <<"DENIED", "UNAVAILABLE", "UNKNOWN", "UNSUPPORTED">> IN
  \E i, j \in 1..4 : i < j /\ order[i] = v /\ order[j] = w
=============================================================================
