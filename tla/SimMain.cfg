\* Two threads, five frames, rings of two frames.
SPECIFICATION Spec
CONSTANTS
    NumNodes = 2
    RING_CAPACITY = 2
    MaxSends = 5
CHECK_DEADLOCK FALSE
INVARIANTS
    NoLostWakeup
    BusOutlivesCalls
PROPERTIES
    TotalOrder
    Terminates
