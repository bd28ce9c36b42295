SPECIFICATION Spec
CONSTANTS
    Dests = {d1, d2}
    FlagBytes <- SynFlags
    MaxScan = 2
    MaxTime = 2
    MaxFrames = 3
    PortWrites = {"harmless"}
    None = None
INVARIANTS TypeOK CounterIsTally
