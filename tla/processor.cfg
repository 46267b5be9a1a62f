\* Two workers race on one sensor; two calls of Stop race with the callers.
CONSTANTS
    Messages <- MCMessages
    Callers = {c1}
    TryCallers = {c2}
    Workers = {w1, w2}
    Stoppers = {t1, t2}
    Waiters = {}
    QueueSize = 2
    Window = 2
    MaxSequence = 2
SPECIFICATION Spec
INVARIANTS TypeOK EveryMessageInOnePlace SequenceCountsAgree OutcomesAgree OvertakingBounded
PROPERTIES FinalAfterStop ImplementsJobQueue
SYMMETRY MCSymmetry
CHECK_DEADLOCK FALSE
