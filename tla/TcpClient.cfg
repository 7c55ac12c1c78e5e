SPECIFICATION FairSpec
CONSTANTS
    TcpWnd = 3
    SndBuf = 2
    RecvBuf = 3
    MaxUp = 5
    MaxDown = 5
INVARIANTS TypeOK PcbIsValid NeverRefused PendingIsQueued NoLostWakeup WaitsForSomething
PROPERTIES RelaySpec ClosedClientIsFreed
CHECK_DEADLOCK FALSE
