SPECIFICATION Spec
CONSTANTS
    Seats = {s1}
    Contributors = {s1}
    Removable = {}
    Invocations = {i1, i2}
    Conns = {c1, c2}
    Authorized <- AnySeat
    Costs = {1}
    LastPeriod = 0
    Budget = 2
    Estimate = 1
    MaxSpent = 1
    Faults = {"stale"}
    NoConn = NoConn
    NoSeat = NoSeat
    Unreported = Unreported
CONSTRAINT SpendingBounded
INVARIANTS LeasesAreHeld HealthyIsConnected
PROPERTIES SettledOnce SuccessorUndisturbed
SYMMETRY Interchangeable
