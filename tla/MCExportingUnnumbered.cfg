CONSTANTS
    c1 = c1  c2 = c2
    k1 = k1  k2 = k2  scope = scope
    Tables = {"trigger_log", "automation_config"}
    Numbered = {"trigger_log"}
    Keys = {k1, k2, scope}
    KeysOf <- MCKeysOf
    Befores = {1}
    Filters <- MCFilters
    DayLength = 2
    Clients = {c1, c2}
    OneArchivePerSecond = FALSE
    MaxTime = 1
    MaxRows <- MCMaxRows
    MaxRequests = 3
    MaxFaults = 0
SPECIFICATION Spec
PROPERTY OnlyMatchingDeleted
