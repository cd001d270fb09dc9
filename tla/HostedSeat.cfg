SPECIFICATION FairSpec
CONSTANTS
    Requests = {r1, r2, r3}
    Accounts = {a, b}
    Concurrency = 1
    MaxQueue = 1
    MaxRotations = 2
    Faults = {"abort", "stop", "evict"}
    MaxFaults = 1
    NoCred = NoCred
INVARIANTS
    SeatInv 
    RotationIsOffered
PROPERTIES CheckpointsAreNewer RequestsEnd
CHECK_DEADLOCK FALSE
