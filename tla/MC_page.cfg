SPECIFICATION Spec
CONSTANTS
    LinesPerSet = 2
    MaxSets = 2
    Fields = 2
    BufRows = 3
    SendRows = 2
    HeapSize = 8
    Logs <- MCLogs
    MaxAlerts = 4
    MaxViews = 2
INVARIANTS TypeOK PageShowsItsLines ExistingPageServed LeakIsBounded
CHECK_DEADLOCK FALSE
