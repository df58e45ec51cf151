\* Stations of the GTP area, one of them ahead of two with next to nothing.
SPECIFICATION Spec
CONSTANTS
    MinRunsForTrend = 3
    HistoryLimit <- LongHistory
    AisleOf <- MCAisleOf
    Readings <- MCReadings
    Plants <- GtpPlants
    Settled <- MCSettled
    Worsenings <- MCWorsenings
    Gaps = {24}
    AgeCap = 400
    MaxRuns = 5
INVARIANT PeersAloneFlagNoStation
CHECK_DEADLOCK FALSE
