SPECIFICATION FairSpec
CONSTANTS
    Startup = {s1}
    Recovery = {r1, r2}
    Ui = {}
    Transports = {"relay"}
    Flexible = FALSE
    MaxFaults = 1
    MaxNet = 0
    MaxBus = 2
    None = None
PROPERTIES RecoveryNeverStalls
CHECK_DEADLOCK FALSE
