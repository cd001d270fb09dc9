SPECIFICATION Spec
CONSTANTS
    Seats = {h1}
    Contributors = {}
    Removable = {}
    Invocations = {i1}
    Conns = {c1}
    Authorized <- AnySeat
    Costs = {1}
    LastPeriod = 0
    Budget = 2
    Estimate = 1
    MaxSpent = 2
    Faults = {"stale", "restart", "refresh", "reregister"}
    NoConn = NoConn
    NoSeat = NoSeat
    Unreported = Unreported
CONSTRAINT SpendingBounded
PROPERTY ReservationsStay
SYMMETRY Interchangeable
