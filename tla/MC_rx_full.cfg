SPECIFICATION FairSpec
CONSTANTS
    Count = 3
    Lengths <- AllLengths
    MaxFrames = 3
    Pool = 3
    Idle = Idle
PROPERTIES CleanFrameDelivered
