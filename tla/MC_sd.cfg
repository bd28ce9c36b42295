SPECIFICATION FairSpec
CONSTANTS
    Kinds <- AllKinds
    Sectors = 2
    BlockSize = 2
    Values = {v1}
    Garbage = Garbage
    Unknown = Unknown
    MaxCount = 2
    MaxNoise = 2
    MaxRestarts = 1
    Deaf = 9
INVARIANTS TypeOK DriverKnowsCard ReadIsStored   InitNeedsNoRetry
PROPERTIES CallReturns CardComesUp
