SPECIFICATION Spec
CONSTANTS
    Threads = {t1, t2}
    Kinds = {"snapshot"}
    MaxCalls = 2
    MaxCrashes = 0
    MaxTurns = 1
    None = None
PROPERTIES SnapshotNeverGoesBack
CHECK_DEADLOCK FALSE
