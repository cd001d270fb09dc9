SPECIFICATION Spec
CONSTANTS
    Writers = {w1, w2}
    Ids = {x}
    NoId = NoId
    MaxClock = 1
    MaxTicks = 3
    MaxLogs = 1
    PageRows = 1
    InlineRows = 1
    MaxPages = 2
    Nothing = Nothing
    Failed = Failed
INVARIANTS ExportInv PublishedIsReadable ExportIsComplete
PROPERTY RegisterSpec
SYMMETRY Interchangeable
CHECK_DEADLOCK FALSE
