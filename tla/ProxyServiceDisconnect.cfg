SPECIFICATION Spec
CONSTANTS
    Flexible = FALSE
    MaxServices = 2
    MaxStarts = 2
    MaxBus = 1
    MaxToggles = 1
INVARIANTS DisconnectStopsProxy
CHECK_DEADLOCK FALSE
