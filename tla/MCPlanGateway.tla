--------------------------- MODULE MCPlanGateway ---------------------------
EXTENDS PlanGateway, TLC
\* The governors of the gateway (the API's eight permits are never all used).
Governors == [s \in Seats |-> CASE s = "codex" -> 1 [] s = "claude" -> 2 [] OTHER -> 8]
\* Most goes wrong where the requests do least: answers from the corpus only
\* write what was saved.
AllButRaces == [m \in Modes |-> {"save", "leave", "restart", "change"}
                                    \cup IF m = "replay" THEN {"overtake"} ELSE {}]
Few == [m \in Modes |-> IF m = "replay" THEN 4 ELSE 1]
Interchangeable == Permutations(Requests)
=============================================================================
