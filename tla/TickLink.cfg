SPECIFICATION FairLinkSpec
CONSTANTS
    Commands = {c1}
    News = {n1}
    MaxTries = 2
    MaxFaults = 2
INVARIANTS LinkInv NewsNotLost
PROPERTIES CommandsLive CommandsProgress
CHECK_DEADLOCK FALSE
