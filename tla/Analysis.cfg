SPECIFICATION Spec
CONSTANTS
  a = a
  b = b
  ann = ann
  bob = bob
  Nobody = Nobody
  Requests = {a, b}
  Casts <- MCCasts
  PairOf <- MCPairOf
  PromptOf <- MCPromptOf
  PlatformUsers = {ann}
  Provider = "openai"
  RawFailures <- MCFailures
  Answers <- MCAnswers
  Findings <- MCFindings
  Timeframes = {"H1"}
  MaxRetries = 1
  RateMax = 1
  RateWindow = 1
  AwaitTicks = 0
  ResultTicks = 1
  TotalTicks = 1
  LockTicks = 2
  Seconds = {1}
  Faults = 1
INVARIANTS
    HoldSettled
    AnswerIsOwn
    
    DuplicatesOverlapped
    AnalysisStoredWhole
PROPERTIES
    GuardRefined
    ComesToRest
CHECK_DEADLOCK FALSE
