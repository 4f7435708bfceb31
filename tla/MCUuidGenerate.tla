--------------------------- MODULE MCUuidGenerate ---------------------------
(* An instance of UuidGenerate for TLC. *)
EXTENDS UuidGenerate

\* Bytes at the bounds of the fields that hold the version and the variant.
BoundaryBytes == {0, 15, 16, 63, 64, 191, 192, 255}
=============================================================================
