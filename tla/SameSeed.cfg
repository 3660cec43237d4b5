\* Two boards that draw the same random numbers on every start; one is reset.
SPECIFICATION FairSpec
CONSTANTS
    b0 = b0
    b1 = b1
    b2 = b2
    j1 = j1
    j2 = j2
    j3 = j3
    j4 = j4
    Nodes <- Boards2
    Index <- Index01
    SETUP = 4
    JITTER = 1
    LISTEN = 2
    CONFLICT = 2
    RETRY = 1
    Capacity = 8
    MaxDedup = 4
    IdMod = 8
    ClaimNonce = {1}
    JoinNonce <- Joins1
    EchoToSender = FALSE
    Booted <- Boards2
    Timely = TRUE
    DistinctNonces = FALSE
    MaxLosses = 0
    MaxPowerOffs = 1
CHECK_DEADLOCK FALSE
PROPERTIES
    EveryoneSettles
