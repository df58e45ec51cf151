\* The tile of the bin module, after a run that has fewer blocked slots.
SPECIFICATION Spec
CONSTANTS
    MinRunsForTrend = 3
    HistoryLimit <- LongHistory
    AisleOf <- MCAisleOf
    Readings <- MCReadings
    Plants <- BinPlants
    Settled <- MCSettled
    Worsenings <- MCWorsenings
    Gaps = {24}
    AgeCap = 400
    MaxRuns = 5
INVARIANT TileShowsBlockedSlots
CHECK_DEADLOCK FALSE
