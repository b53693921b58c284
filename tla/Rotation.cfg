CONSTANTS
    Logins = {l1, l2}
    Keys = {1, 2}
    Ttl = 2
    Timeout = 1
    MaxTime = 3
    Versions = 2
SPECIFICATION MCSpec
CHECK_DEADLOCK FALSE
INVARIANTS RotationLag FreshKeyAccepted
PROPERTY ReloadTakesEffect
