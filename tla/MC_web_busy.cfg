SPECIFICATION FairSpec
CONSTANTS
    Conns = {c1, c2}
    Requests <- AnyRequests
    MaxOpen = 2
    Patient = FALSE
    Copies = TRUE
    MaxPcbs = 2
    Window = 3
    Room = 2
    Segments <- TwoPerPage
    MaxAsks = 2
    c1 = c1
    c2 = c2
    NoConn = NoConn
    Junk = Junk
INVARIANTS TypeOK AtMostOneAnswer PagesWereAsked
PROPERTIES LatestIsAnswered
CHECK_DEADLOCK FALSE
