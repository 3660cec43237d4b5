\* The simulator: every node hears itself.  Thread 0 was delayed until its start-up
\* delay ends with that of thread 1: two nodes contest the election; a third begins to listen as they claim.
SPECIFICATION FairSpec
CONSTANTS
    b0 = b0
    b1 = b1
    b2 = b2
    j1 = j1
    j2 = j2
    j3 = j3
    j4 = j4
    Nodes <- Boards3
    Index <- Index001
    SETUP = 4
    JITTER = 2
    LISTEN = 2
    CONFLICT = 2
    RETRY = 1
    Capacity = 8
    MaxDedup = 4
    IdMod = 8
    ClaimNonce = {1, 2, 3}
    JoinNonce <- Joins2
    EchoToSender = TRUE
    Booted <- Boards3
    Timely = TRUE
    DistinctNonces = TRUE
    MaxLosses = 0
    MaxPowerOffs = 0
CHECK_DEADLOCK FALSE
INVARIANTS
    SingleCoordinator
PROPERTIES
    EveryoneSettles
    ClaimsCease
