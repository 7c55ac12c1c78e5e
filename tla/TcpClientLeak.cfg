SPECIFICATION Spec
CONSTANTS
    TcpWnd = 2
    SndBuf = 2
    RecvBuf = 2
    MaxUp = 2
    MaxDown = 2
INVARIANTS NoPbufLeak
CHECK_DEADLOCK FALSE
