CONSTANTS
    r1 = r1
    r2 = r2
    r3 = r3
    alice = alice
    bob = bob
    Requests <- MCRequests
    Users <- MCUsers
    MaxConcurrent = 2
    PerUserCap = 1
SPECIFICATION Spec
INVARIANTS
    SlotAccounting
    GlobalCap
PROPERTIES
    SlotReturned
