\* Three messages through a channel of one, a socket of two and a queue of one.
CONSTANTS
    Configs <- MCConfigs
    FirstReading <- MCFirstReading
    Changes <- MCChanges
    ChannelCap = 1
    SocketCap = 2
    QueueCap = 1
    MaxTicks = 3
    Window = 2
    MaxSequence = 4
SPECIFICATION FairSpec
INVARIANTS GapsAreLosses PayloadsAccepted TurnsShared
PROPERTIES ProgramGoesOn
CHECK_DEADLOCK FALSE
