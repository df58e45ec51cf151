\* Every module over five runs, a day apart, three bundles each, against its stored rows.
SPECIFICATION Spec
CONSTANTS
    MinRunsForTrend = 3
    HistoryLimit <- LongHistory
    AisleOf <- MCAisleOf
    Readings <- MCReadings
    Plants <- MCPlants
    Settled <- MCSettled
    Worsenings <- MCWorsenings
    Gaps = {24}
    AgeCap = 400
    MaxRuns = 5
INVARIANTS
    TypeOK TierFollowsScore LoneModuleStaysOk ControllerRaisesSystem BenignStaysOk
    OfflineAloneStaysWatch WorseNeverBetter FlaggedHasCause OverviewAddsUp
CHECK_DEADLOCK FALSE
