CONSTANTS
  Conns = {c1}
  Passwords = {"right"}
  Accepted = {"right"}
  Symbols = {"eurusd"}
  Cooldown = 1
  Readiness = 2
  Threshold = 3
  Grace = 4
  MaxTroubles = 1
  MaxEdits = 1
SPECIFICATION FairSpec
INVARIANTS
    TokenMatchesRow
    FirstBootUndisturbed
PROPERTIES
    PrefixOutlivesErrors
    AttemptsSpaced
    MissingIsRebuilt
CHECK_DEADLOCK FALSE
