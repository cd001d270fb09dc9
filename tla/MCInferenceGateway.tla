------------------------- MODULE MCInferenceGateway -------------------------
(* A small instance of InferenceGateway for TLC. *)
EXTENDS InferenceGateway, TLC

Interchangeable == Permutations(Requests) \cup Permutations(Names)
=============================================================================
