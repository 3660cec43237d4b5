\* The simulator with a late node whose queue overflows before it starts to
\* listen, as nodes 14 and 15 of a 16-node simulation.
SPECIFICATION FairSpec
CONSTANTS
    b0 = b0
    b1 = b1
    b2 = b2
    j1 = j1
    j2 = j2
    j3 = j3
    j4 = j4
    Nodes <- Boards3
    Index <- Index012
    SETUP = 4
    JITTER = 3
    LISTEN = 2
    CONFLICT = 2
    RETRY = 1
    Capacity = 3
    MaxDedup = 4
    IdMod = 8
    ClaimNonce = {1, 2, 3}
    JoinNonce <- Joins3
    EchoToSender = TRUE
    Booted <- Boards3
    Timely = TRUE
    DistinctNonces = TRUE
    MaxLosses = 0
    MaxPowerOffs = 0
CHECK_DEADLOCK FALSE
PROPERTIES
    ClaimsCease
