SPECIFICATION FairSpec
CONSTANTS
    BlockSize = 3
    Depth = 2
    Overruns = TRUE
INVARIANTS TypeOK AssertsHold BlockComplete PermitBelongsToCall
PROPERTY CallReturnsUntilTimeout
CHECK_DEADLOCK FALSE
