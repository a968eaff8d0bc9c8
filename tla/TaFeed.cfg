CONSTANTS
  Pip = 2
  LeftBars = 1
  RightBars = 1
  DominanceSteps <- MCSteps
  HtfTF = "M15"
  LtfTF = "M5"
  InversePip = 100
  RoundUnit = 1
  HTF_LOOKBACK = 50
  LTF_LOOKBACK = 150
  Histories <- MCHistories
  Moves <- MCMoves
  Growth = 2
  Memory = 5
SPECIFICATION Spec
INVARIANTS
    TradeGeometry
    
    ClosedStructureKept
CHECK_DEADLOCK FALSE
