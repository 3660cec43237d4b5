\* Boards that contest the election, one of which is reset at any moment.
SPECIFICATION FairSpec
CONSTANTS
    b0 = b0
    b1 = b1
    b2 = b2
    j1 = j1
    j2 = j2
    j3 = j3
    j4 = j4
    Nodes <- Boards3
    Index <- Index001
    SETUP = 4
    JITTER = 2
    LISTEN = 2
    CONFLICT = 2
    RETRY = 1
    Capacity = 8
    MaxDedup = 4
    IdMod = 8
    ClaimNonce = {1, 2, 3, 4}
    JoinNonce <- Joins3
    EchoToSender = FALSE
    Booted <- Boards3
    Timely = TRUE
    DistinctNonces = TRUE
    MaxLosses = 0
    MaxPowerOffs = 1
CHECK_DEADLOCK FALSE
PROPERTIES
    EveryoneSettles
