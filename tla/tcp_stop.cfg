\* A client that stays: nothing but Stop can end its handler's read.
CONSTANTS
    Conns = {k1}
    MessagesCap = 1
    ErrorsCap = 1
    ErrorsAreRead = TRUE
    MaxEvents = 1
    MaxSpoilt = 1
    MaxAcceptErrors = 0
SPECIFICATION FairSpec
PROPERTY StopReturns
CHECK_DEADLOCK FALSE
