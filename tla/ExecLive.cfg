CONSTANTS
    o1 = o1
    o2 = o2
    o3 = o3
    k1 = k1
    k2 = k2
    Free = Free
    Orders <- MixedOrders
    Keys <- MixedKeys
    Key <- MixedKey
    Mode <- MixedMode
    PreConfirmed <- Unconfirmed
    Faults <- CrashAndShutdown
    MaxStarts = 2
SPECIFICATION FairSpec
PROPERTIES
    RecordsDrain
    ShutdownCompletes
CHECK_DEADLOCK FALSE
