------------------------- MODULE MCCommanderSession -------------------------
(* Small instances of CommanderSession for TLC. *)
EXTENDS CommanderSession

Interchangeable == Permutations(Groups) \cup Permutations(Handlers)
=============================================================================
