\* Two clients, a channel of two, and clients that disconnect at last.
CONSTANTS
    Conns = {k1, k2}
    MessagesCap = 2
    ErrorsCap = 1
    ErrorsAreRead = TRUE
    MaxEvents = 3
    MaxAcceptErrors = 1
    MaxSpoilt = 1
SPECIFICATION PatientSpec
INVARIANTS TypeOK ConnectionsTracked NoMessageLost NobodyLeftToSend ConnectionOrderKept
PROPERTIES StopReturns LinesAreRead
CHECK_DEADLOCK FALSE
