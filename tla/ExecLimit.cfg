CONSTANTS
    o1 = o1
    o2 = o2
    o3 = o3
    k1 = k1
    k2 = k2
    Free = Free
    Orders <- Retries3
    Keys <- RetryKeys
    Key <- RetryKey3
    Mode <- RetryLimit3
    PreConfirmed <- Unconfirmed
    Faults <- ClaimKeepingFaults
    MaxStarts = 3
SPECIFICATION Spec
SYMMETRY Symmetric3
INVARIANTS
    OneOrderPerLimitKey
CHECK_DEADLOCK FALSE
