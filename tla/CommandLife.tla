----------------------------- MODULE CommandLife -----------------------------
(***************************************************************************)
(* What the tick protocol promises about commands: the commander issues a  *)
(* command; the game executes it once, or refuses it; the command ends in  *)
(* the world; and the commander settles it, giving back what it reserved   *)
(* for it, only after that.                                                *)
(***************************************************************************)
EXTENDS Naturals

CONSTANT Commands

VARIABLES
    stage,      \* "unknown", "issued", "executed", "ended" or "settled"
    times       \* how often each command was executed

LifeInit ==
    /\ stage = [c \in Commands |-> "unknown"]
    /\ times = [c \in Commands |-> 0]

Issued(c) == stage[c] = "unknown" /\ stage'[c] = "issued" /\ times'[c] = times[c]
Executed(c) == stage[c] = "issued" /\ stage'[c] = "executed" /\ times'[c] = times[c] + 1
Refused(c) == stage[c] = "issued" /\ stage'[c] = "ended" /\ times'[c] = times[c]
Ended(c) == stage[c] = "executed" /\ stage'[c] = "ended" /\ times'[c] = times[c]
Settled(c) == stage[c] = "ended" /\ stage'[c] = "settled" /\ times'[c] = times[c]
Same(c) == stage'[c] = stage[c] /\ times'[c] = times[c]

\* One message may move several commands.
LifeNext ==
    \A c \in Commands :
        Same(c) \/ Issued(c) \/ Executed(c) \/ Refused(c) \/ Ended(c) \/ Settled(c)

LifeSpec == LifeInit /\ [][LifeNext]_<<stage, times>>
=============================================================================
