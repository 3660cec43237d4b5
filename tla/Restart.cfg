\* Three boards, short queues, one loss and one power cycle.
SPECIFICATION Spec
CONSTANTS
    b0 = b0
    b1 = b1
    b2 = b2
    j1 = j1
    j2 = j2
    j3 = j3
    j4 = j4
    Nodes <- Boards3
    Index <- Index111
    SETUP = 2
    JITTER = 0
    LISTEN = 1
    CONFLICT = 1
    RETRY = 1
    Capacity = 2
    MaxDedup = 4
    IdMod = 8
    ClaimNonce = {1, 2, 3, 4}
    JoinNonce <- Joins4
    EchoToSender = FALSE
    Booted <- Boards3
    Timely = TRUE
    DistinctNonces = TRUE
    MaxLosses = 1
    MaxPowerOffs = 1
CHECK_DEADLOCK FALSE
SYMMETRY Symmetry
INVARIANTS
    TypeOK
    MembersWereAssigned
    UniqueIds
    OneIdPerJoin
    AnswersArrive
PROPERTIES
    RoleStable
    OneRegister
