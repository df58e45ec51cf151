CONSTANTS
    t1 = t1  t2 = t2  t3 = t3
    p1 = p1  p2 = p2
    k1 = k1  k2 = k2
    v = v  w = w
    Threads = {t1, t2, t3}
    Procs = {p1, p2}
    ProcOf <- MCProcOf
    NoThread = NoThread
    NoCall = NoCall
    Keys = {k1, k2}
    NoKey = NoKey
    Cols = {"status", "message"}
    Vals = {v, w}
    Null = Null
    Batches <- MCBatches
    Upserts <- MCUpserts
    Filters <- MCFilters
    MidRowFlush = TRUE
    LastIds = {0, 1, 2, 3, 4, 5, 6}
    JunkIds = {0}
    Powers = {1, 10, 100, 1000}
    MaxCalls = 3
    MaxFaults = 1
SPECIFICATION Spec
INVARIANT AcknowledgedRowsStored
