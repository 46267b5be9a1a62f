\* Six sequence numbers and a window of 2: messages fall behind the window,
\* into it and ahead of it, in every order; silences come in between.
CONSTANTS
    Sensors = {s1}
    MaxSequence = 5
    Window = 2
    Timeout = 1
    MaxMessages = 5
    MaxFailures = 1
SPECIFICATION FairSpec
INVARIANTS TypeOK CountersBalance WindowRemembered LossBracketed MemoryBounded OneReportPerSilence
PROPERTIES NoFalseDuplicate SilentSensorReported
CHECK_DEADLOCK FALSE
