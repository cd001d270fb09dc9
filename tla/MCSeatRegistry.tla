--------------------------- MODULE MCSeatRegistry ---------------------------
(* Small instances of SeatRegistry for TLC. *)
EXTENDS SeatRegistry, TLC

CONSTANTS MaxSpent     \* bound on what a seat spends in a behaviour

\* Every connection may register every contributor seat, as one opened with
\* the operator's bootstrap token may.
AnySeat == [c \in Conns |-> Contributors]

SpendingBounded == \A s \in Seats : seats[s].spent <= MaxSpent

\* Invocations and connections are interchangeable.
Interchangeable == Permutations(Invocations) \cup Permutations(Conns)
=============================================================================
