--------------------------- MODULE MCUnixListener ---------------------------
(* Instances of UnixListener for TLC. *)
EXTENDS UnixListener, TLC

CONSTANTS p1, p2, p3

ThreeProcs == {p1, p2, p3}

Symmetry == Permutations(Procs)
=============================================================================
