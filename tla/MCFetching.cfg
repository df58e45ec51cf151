\* One request with failures anywhere in the session and in every download.
SPECIFICATION FairSpec
CONSTANTS
    Starts <- MCStarts
    Zones <- MCZones
INVARIANTS TypeOK OutcomeFollowsPrimaries NothingLeftOpen
PROPERTY EveryRequestEnds
CHECK_DEADLOCK FALSE
