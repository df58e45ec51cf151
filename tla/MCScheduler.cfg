CONSTANTS
    c1 = c1  c2 = c2
    Scopes = {"global", "lift", "gate"}
    Clients = {c1, c2}
    Intervals = {0, 5}
    Workers = 2
    OneAtATime = TRUE
    MaxChanges = 3
    MaxStops = 2
SPECIFICATION FairSpec
INVARIANTS TypeOK ConfigMatchesJobs
PROPERTIES DisabledNeverSubmitted OffFallsSilent AutomationKeepsFiring
