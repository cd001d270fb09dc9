SPECIFICATION Spec
CONSTANTS
    Requests = {r1, r2}
    Names = {a, b}
    Limit = 1
    MaxGrants = 2
    MaxRevision = 2
    Faults = {"abort", "stop", "evict"}
    MaxFaults = 1
    NoName = NoName
    NoOne = NoOne
INVARIANTS GatewayInv 
PROPERTY RevokedNeverBegins
SYMMETRY Interchangeable
CHECK_DEADLOCK FALSE
