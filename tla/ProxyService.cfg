SPECIFICATION Spec
CONSTANTS
    Flexible = FALSE
    MaxServices = 1
    MaxStarts = 2
    MaxBus = 1
    MaxToggles = 1
INVARIANTS TypeOK 
CHECK_DEADLOCK FALSE
