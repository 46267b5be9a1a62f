\* As in cmd/server: nobody reads Errors().
CONSTANTS
    Conns = {k1, k2}
    MessagesCap = 1
    ErrorsCap = 1
    ErrorsAreRead = FALSE
    MaxEvents = 3
    MaxSpoilt = 3
    MaxAcceptErrors = 0
SPECIFICATION FairSpec
PROPERTY ConnectionsAreIndependent
CHECK_DEADLOCK FALSE
