\* One goroutine enqueues while another stops the processor.
CONSTANTS
    Messages <- MCTwoMessages
    Callers = {c1}
    TryCallers = {}
    Workers = {w1}
    Stoppers = {t1}
    Waiters = {}
    QueueSize = 1
    Window = 2
    MaxSequence = 2
SPECIFICATION Spec
INVARIANT StopIsGraceful
CHECK_DEADLOCK FALSE
