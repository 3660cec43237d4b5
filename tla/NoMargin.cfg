\* Two boards with index 0: the second is switched on just after the first claims.
SPECIFICATION Spec
CONSTANTS
    b0 = b0
    b1 = b1
    b2 = b2
    j1 = j1
    j2 = j2
    j3 = j3
    j4 = j4
    Nodes <- Boards2
    Index <- Index00
    SETUP = 4
    JITTER = 1
    LISTEN = 2
    CONFLICT = 2
    RETRY = 1
    Capacity = 8
    MaxDedup = 4
    IdMod = 8
    ClaimNonce = {1, 2, 3}
    JoinNonce <- Joins3
    EchoToSender = FALSE
    Booted <- NoneBooted
    Timely = TRUE
    DistinctNonces = TRUE
    MaxLosses = 0
    MaxPowerOffs = 0
CHECK_DEADLOCK FALSE
INVARIANTS
    SingleCoordinator
