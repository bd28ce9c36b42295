SPECIFICATION FairSpec
CONSTANTS
    Count = 3
    Lengths <- FittingLengths
    MaxFrames = 3
    Pool = 3
    Idle = Idle
INVARIANTS TypeOK DeliveredOnce BufferQuiet
PROPERTIES ReceiverRearms CleanFrameDelivered
