SPECIFICATION Spec
CONSTANTS
    Startup = {s1}
    Recovery = {r1}
    Ui = {}
    Transports = {"relay", "direct-dpi"}
    Flexible = FALSE
    MaxFaults = 1
    MaxNet = 1
    MaxBus = 1
    None = None
INVARIANTS DisconnectStopsAll
CHECK_DEADLOCK FALSE
