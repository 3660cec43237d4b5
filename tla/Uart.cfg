SPECIFICATION Spec
CONSTANTS
    Frames <- TwoFrames
    BadBytes <- Disturbed
    Timeout = 3
    Pause = 1
    Startup = 4
    Wrap = 5
    RxSize = 3
    Quiet = 12
    MaxSends = 3
    MaxFaults = 1
INVARIANTS
    TypeOK
    FrameFits
    CallIsBounded
PROPERTY
    WholeFramesInOrder
    OwedFramesArrive
CHECK_DEADLOCK FALSE
