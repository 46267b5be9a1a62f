\* Three messages through a queue of one, one or two workers, two bad writes.
CONSTANTS
    Main = main
    Messages <- MCMessages
    Stream <- MCStream
    Callers = {main}
    TryCallers = {}
    Workers = {w1, w2}
    Stoppers = {main}
    Waiters = {main}
    Readers = {main}
    QueueSize = 1
    MaxFaults = 2
    Window = 2
    MaxSequence = 2
SPECIFICATION ReplaySpec
INVARIANTS RecordedIsReplayed ReportBracketed StateFollowsFile
PROPERTIES ReplayEnds
CHECK_DEADLOCK FALSE
