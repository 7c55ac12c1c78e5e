SPECIFICATION FairSpec
CONSTANTS
    Startup = {s1}
    Recovery = {r1}
    Ui = {u1}
    Transports = {"relay"}
    Flexible = FALSE
    MaxFaults = 0
    MaxNet = 1
    MaxBus = 1
    None = None
PROPERTIES StopSettles StandbyEnds
CHECK_DEADLOCK FALSE
