SPECIFICATION PlanSpec
CONSTANTS
    Requests = {r1, r2}
    Seats = {"codex", "claude", "api"}
    Aliases = {"codex", "claude"}
    Modes = {"record", "replay"}
    Policy = "fallback"
    Concurrency <- Governors
    WindowCalls = 1
    Window = 1
    MonthlyCredit = 1
    Month = 2
    Ttl = 2
    Budgeted = {"claude"}
    MaxTime = 2
    Faults <- AllButRaces
    MaxFaults <- Few
    Nobody = Nobody
INVARIANTS PlanInv NothingLeaks UsageSurvives SwitchSurvives
SYMMETRY Interchangeable
CHECK_DEADLOCK FALSE
