SPECIFICATION FairSpec
CONSTANTS
    Conns = {c1, c2}
    Requests <- GoodRequests
    MaxOpen = 1
    Patient = TRUE
    Copies = TRUE
    MaxPcbs = 2
    Window = 3
    Room = 2
    Segments <- ManyAlerts
    MaxAsks = 2
    c1 = c1
    c2 = c2
    NoConn = NoConn
    Junk = Junk
INVARIANTS AnswersMatch
PROPERTIES ImplementsService
CHECK_DEADLOCK FALSE
