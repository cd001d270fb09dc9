SPECIFICATION FairSessionSpec
CONSTANTS
    Groups = {g1}
    MaxWork = 1
    MaxAttempts = 3
    MaxRestarts = 1
    Failures = {"disconnect"}
    Handlers = {h1}
    Interval = 2
    KeepProcessed = 1
    KeepGroups = 1
    MaxDecisions = 1
PROPERTIES DecisionsAreMade ReportsAreHeard
