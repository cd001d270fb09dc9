SPECIFICATION FairRoutingSpec
CONSTANTS
    Seats = {s1, h1}
    Contributors = {s1}
    Removable = {}
    Invocations = {i1}
    Conns = {c1}
    Authorized <- AnySeat
    Costs = {1, 3}
    LastPeriod = 0
    Budget = 2
    Estimate = 1
    Faults = {}
    Stretch = TRUE
    MaxCrashes = 1
    NoConn = NoConn
    NoSeat = NoSeat
    Unreported = Unreported
INVARIANTS
    NoUnresolvedLease DeliveredIsBilled BilledOnce
PROPERTY DecisionsEnd
