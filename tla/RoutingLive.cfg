SPECIFICATION FairRoutingSpec
CONSTANTS
    Seats = {s1}
    Contributors = {s1}
    Removable = {s1}
    Invocations = {i1}
    Conns = {c1}
    Authorized <- AnySeat
    Costs = {1}
    LastPeriod = 1
    Budget = 2
    Estimate = 1
    Faults = {"restart", "rpc", "crash"}
    Stretch = FALSE
    MaxCrashes = 1
    NoConn = NoConn
    NoSeat = NoSeat
    Unreported = Unreported
INVARIANTS RoutingTypeOK WaitersWillHear AnswersMatchLedger
PROPERTIES DecisionsEnd Spec TerminalJobsStay
