SPECIFICATION SessionSpec
CONSTANTS
    Groups = {g1}
    MaxWork = 2
    MaxAttempts = 4
    MaxRestarts = 1
    Failures = {"rpc", "fiber", "accept", "save", "schedule"}
    Handlers = {h1, h2}
    Interval = 1
    KeepProcessed = 2
    KeepGroups = 1
    MaxDecisions = 0
INVARIANTS
    SessionInv NeverReissued AssessedOnce
SYMMETRY Interchangeable
