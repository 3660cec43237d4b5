\* The same table asked to keep the newest three.
SPECIFICATION Spec
CONSTANTS
    MaxDedup = 3
    Nonces = {0, 1, 2, 3, 4}
    MaxRecords = 8
CHECK_DEADLOCK FALSE
INVARIANTS
    LatestRemembered
