SPECIFICATION Spec
CONSTANTS
    Files = {f, g}
    Nobody = Nobody
    SectorUnits = 2
    Last = 4
    PerFat = 2
    Retry = FALSE
    MaxOpens = 3
    MaxErrors = 1
    MaxLosses = 1
INVARIANT TypeOK
INVARIANT ChainsApart
INVARIANT AckedIsDurable
INVARIANT FreeCountRight
INVARIANT NothingLost
PROPERTY StoreSpec
PROPERTY CallReturns
