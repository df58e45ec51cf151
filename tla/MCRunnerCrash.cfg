CONSTANTS
    m1 = m1  m2 = m2  m3 = m3
    w1 = w1  w2 = w2  a1 = a1
    absent = absent  All = All
    Modules = {m1, m2, m3}
    Registry <- MCRegistry
    Configured = {m1, m2}
    Unknown = {}
    Asked = {All}
    ManualWorkers = {w1}
    AutoWorkers = {a1}
    Counts = {2}
    MaxRequests = 2
    MaxFaults = 1
    StorageMayFail = FALSE
    MayCrash = TRUE
SPECIFICATION Spec
INVARIANT RunningMeansInProgress
