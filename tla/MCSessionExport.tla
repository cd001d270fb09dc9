-------------------------- MODULE MCSessionExport ---------------------------
(* A small instance of SessionExport for TLC. *)
EXTENDS SessionExport, TLC

Interchangeable == Permutations(Writers)
=============================================================================
