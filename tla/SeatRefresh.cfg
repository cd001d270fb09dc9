SPECIFICATION Spec
CONSTANTS
    Seats = {h1}
    Contributors = {}
    Removable = {h1}
    Invocations = {i1, i2, i3}
    Conns = {c1}
    Authorized <- AnySeat
    Costs = {1}
    LastPeriod = 1
    Budget = 3
    Estimate = 1
    MaxSpent = 2
    Faults = {"stale", "restart", "refresh"}
    NoConn = NoConn
    NoSeat = NoSeat
    Unreported = Unreported
CONSTRAINT SpendingBounded
INVARIANT HeldByLeases
SYMMETRY Interchangeable
