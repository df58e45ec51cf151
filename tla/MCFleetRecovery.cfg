\* Runs without end, all within the hour: what the stored rows do once the
\* readings are calm, and a trend over rows of one moment.
SPECIFICATION FairSpec
CONSTANTS
    MinRunsForTrend = 3
    HistoryLimit <- ShortHistory
    AisleOf <- MCAisleOf
    Readings <- RecoveryReadings
    Plants <- RecoveryPlants
    Settled <- MCSettled
    Worsenings <- MCWorsenings
    Gaps = {0}
    AgeCap = 0
    MaxRuns <- Unbounded
PROPERTY Recovers
CHECK_DEADLOCK FALSE
