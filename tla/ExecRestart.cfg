CONSTANTS
    o1 = o1
    o2 = o2
    o3 = o3
    k1 = k1
    k2 = k2
    Free = Free
    Orders <- MixedOrders
    Keys <- MixedKeys
    Key <- MixedKey
    Mode <- MixedMode
    PreConfirmed <- SecondConfirmed
    Faults <- RestartFaults
    MaxStarts = 2
SPECIFICATION Spec
INVARIANTS
    AcknowledgedIsDurable
    RecordsAreWatched
    RestingIsWatched
PROPERTIES
    RecordKeptWhileArmed
CHECK_DEADLOCK FALSE
