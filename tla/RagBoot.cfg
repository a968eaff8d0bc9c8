SPECIFICATION FairSpec
CONSTANTS
  r1 = r1
  r2 = r2
  NoDoc = NoDoc
  Replicas = {r1, r2}
  Assets = {"master_rulebook", "smc_framework"}
  Place <- MCPlace
  Chunks <- MCChunks
  Refused = {}
  UpsertBatch = 10
  MaxFaults = 1
INVARIANTS
    IndexedOrOwed
    
PROPERTIES
    BootsComplete
CHECK_DEADLOCK FALSE
