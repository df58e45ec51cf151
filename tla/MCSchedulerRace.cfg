CONSTANTS
    c1 = c1  c2 = c2
    Scopes = {"global", "lift"}
    Clients = {c1, c2}
    Intervals = {0, 5}
    Workers = 1
    OneAtATime = FALSE
    MaxChanges = 2
    MaxStops = 0
SPECIFICATION Spec
INVARIANT ConfigMatchesJobs
