\* The file is closed first at shutdown, while messages still come.
CONSTANTS
    u1 = u1
    u2 = u2
    t1 = t1
    UDPMessages <- MCUDPMessages
    TCPMessages <- MCTCPMessages
    Bad = Bad
    Fault = Fault
    NoMessage = NoMessage
    QueueSize = 1
    ErrorsCap = 1
    SocketCap = 1
    MaxNoise = 2
SPECIFICATION Spec
INVARIANTS EveryAcceptedRecorded
CHECK_DEADLOCK FALSE
