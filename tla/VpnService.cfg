SPECIFICATION Spec
CONSTANTS
    Startup = {s1}
    Recovery = {r1, r2}
    Ui = {u1}
    Transports = {"relay", "direct-dpi"}
    Flexible = FALSE
    MaxFaults = 1
    MaxNet = 1
    MaxBus = 1
    None = None
SYMMETRY JobSymmetry
INVARIANTS TypeOK StopReachesCore OneRecovery
CHECK_DEADLOCK FALSE
