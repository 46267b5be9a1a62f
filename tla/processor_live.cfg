\* One worker behind a queue of one: callers block, wait and are woken by Stop,
\* while a reader collects its statistics.
CONSTANTS
    Messages <- MCTwoMessages
    Callers = {c1, c2}
    TryCallers = {}
    Workers = {w1}
    Stoppers = {t1}
    Waiters = {}
    Readers = {r1}
    QueueSize = 1
    Window = 2
    MaxSequence = 2
SPECIFICATION StatSpec
INVARIANTS ResponseAddsUp
PROPERTIES CallsReturn AcceptedIsProcessed
CHECK_DEADLOCK FALSE
