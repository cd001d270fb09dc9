--------------------------- MODULE MCSeatRouting ----------------------------
(* Small instances of SeatRouting for TLC. *)
EXTENDS SeatRouting, TLC

AnySeat == [c \in Conns |-> Contributors]

Interchangeable == Permutations(Invocations) \cup Permutations(Conns)
=============================================================================
