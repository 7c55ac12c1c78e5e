SPECIFICATION FairSpec
CONSTANTS
    Starters = {job}
    Stoppers = {main, ui}
    Guarded = {job, main}
    Flexible = TRUE
    FreshSession = {TRUE}
    MaxLaunch = 2
    MaxCalls = 2
    MaxLines = 2
    MaxNet = 1
INVARIANTS TypeOK NoOrphan StopLeavesNoCore ReadyIsConfirmed OutageFencesChannel ChannelFollowsInstance ReadySessionHasCore NoLeakedEngines
PROPERTIES DeathIsNoticed
CHECK_DEADLOCK FALSE
