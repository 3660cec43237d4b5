\* A table of three slots; five nonces, every order of arrival.
SPECIFICATION Spec
CONSTANTS
    MaxDedup = 3
    Nonces = {0, 1, 2, 3, 4}
    MaxRecords = 8
CHECK_DEADLOCK FALSE
INVARIANTS
    NoFalseDuplicate
    NothingForgottenYet
    NewestRemembered
