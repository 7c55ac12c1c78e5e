SPECIFICATION FairSpec
CONSTANTS
    Threads = {t1, t2}
    Kinds = {"snapshot", "durable"}
    MaxCalls = 2
    MaxCrashes = 1
    MaxTurns = 1
    None = None
INVARIANTS TypeOK OneChangeAtATime HistoryIsTrue SentWithLiveAccess AppliedAtMostOnce LatestProbeWins
PROPERTIES UnsentIsCancelled LockIsReleased
CHECK_DEADLOCK FALSE
