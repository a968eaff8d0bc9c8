CONSTANTS
  c1 = c1
  c2 = c2
  Calls = {c1, c2}
  CommandsOf <- MCCommandsOf
  Builds <- MCBuilds
  MaxInflight = 1
  Burst = 1
  MaxTroubles = 1
SPECIFICATION FairSpec
INVARIANTS
    NoPoisonedSocket
    GateConserved
    
PROPERTIES
    CallsReturn
CHECK_DEADLOCK FALSE
