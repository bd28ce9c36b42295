SPECIFICATION Spec
CONSTANTS
    Callers = {loop}
    small = small
    large = large
    Frames = {small, large}
    Size <- SmallAndLarge
    Least = 2
    MaxSize = 3
    Nothing = Nothing
    MaxCalls = 4
INVARIANT TypeOK
INVARIANT WireIsFrame
PROPERTY NoFrameIsCut
CHECK_DEADLOCK FALSE
