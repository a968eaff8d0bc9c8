CONSTANTS
    c1 = c1
    c2 = c2
    c3 = c3
    Calls <- MCTwoCalls
    Estimates = {2}
    InputSizes = {1, 3}
    OutputSizes = {1, 3}
    MaxOutput = 2
    MaxInputPerCall = 0
    DailyCap <- MCDailyCap
    MonthlyCap <- MCMonthlyCap
    SoftCapPercent = 50
    ReapLimit = 2
    MaxDay = 1
    MaxPeriod = 2
SPECIFICATION FairSpec
INVARIANTS
    MonthIsExact
    SoftCapOncePerWindow
PROPERTIES
    AdmittedWithinCaps
    HeldIsSettled
