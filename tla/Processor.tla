------------------------------ MODULE Processor ------------------------------
(***************************************************************************)
(* internal/processor: a bounded queue (the channel jobsChan) between the   *)
(* goroutines that enqueue telemetry and a pool of workers that apply it to *)
(* the state store, with Start, Stop and WaitForQuiescence.                 *)
(*                                                                          *)
(* One action is one step between two points at which another goroutine may *)
(* run: an atomic load or store, a channel operation, a method of the store *)
(* (under its mutex).  A panic that nothing recovers ends the process:      *)
(* crashed names its cause and no step follows.                             *)
(*                                                                          *)
(* Go's channels: a send on a closed channel panics, a receive from a       *)
(* closed channel drains what is buffered first, closing twice panics, and  *)
(* select takes any of the cases that are ready.                            *)
(***************************************************************************)
EXTENDS SensorEntry, FiniteSets, SequencesExt

CONSTANTS
    Messages,    \* records: id, sensor, sequence and the outcome of validation
    Callers,     \* goroutines that call Enqueue
    TryCallers,  \* goroutines that call TryEnqueue
    Workers,     \* goroutines the pool may have; Start makes NumWorkers of them
    Stoppers,    \* goroutines that call Stop, once each
    Waiters,     \* goroutines that call WaitForQuiescence, once each
    QueueSize    \* capacity of jobsChan

\* What parsing a payload by its sensor type comes to: it is sound, or a field
\* is out of range (a ValidationError), or it cannot be parsed.
Outcomes == {"sound", "anomaly", "error"}

\* What no goroutine holds.
NoMessage == [id |-> 0, sensor |-> "none", sequence |-> 0, outcome |-> "sound"]

ASSUME ProcessorAssumption ==
    /\ QueueSize \in Nat \ {0}
    /\ NoMessage \notin Messages
    /\ \A m \in Messages : m.sequence \in SequenceNumbers /\ m.outcome \in Outcomes
    /\ Callers \cap TryCallers = {}
    /\ IsFiniteSet(Workers)

Enqueuers == Callers \cup TryCallers

VARIABLES
    isRunning,     \* the atomic flag
    stopClosed,    \* stopChan is closed
    jobsClosed,    \* jobsChan is closed
    stopper,       \* where each call of Stop is
    queue,         \* what jobsChan buffers
    enqueued,      \* totalMessagesEnqueued
    queueFull,     \* queueFullEvents
    caller,        \* where each enqueuing goroutine is, and its message
    submitted,     \* history: the messages passed to Enqueue or TryEnqueue
    accepted,      \* history: the messages sent, in the order of the channel
    worker,        \* where each worker is, its message and UpdateResult
    counts,        \* the atomic counters of each worker
    sensors,       \* the state store's map
    updated,       \* history: the messages applied to the store
    finished,      \* the messages of which the latency recorders hold samples
    waiter,        \* where each call of WaitForQuiescence is
    crashed        \* "no", or the panic that ended the process

lifecycle == <<isRunning, stopClosed, jobsClosed, stopper>>
intake    == <<queue, enqueued, queueFull, caller, submitted, accepted>>
pool      == <<worker, counts, sensors, updated, finished>>
vars      == <<lifecycle, intake, pool, waiter, crashed>>

Counters == {"processed", "errors", "anomalies", "dropped", "duplicates", "outOfOrder"}

\* Enqueuing is under way from its check of isRunning to its return.
Idle == [pc |-> "idle", msg |-> NoMessage]

\* What a worker holds between two messages.
NoResult == [dropped |-> 0, duplicate |-> FALSE, outOfOrder |-> FALSE]
Free(pc) == [pc |-> pc, msg |-> NoMessage, result |-> NoResult]

\* Every goroutine is at a point of its code; the channel never holds more
\* than its capacity.
TypeOK ==
    /\ {isRunning, stopClosed, jobsClosed} \subseteq BOOLEAN
    /\ stopper \in [Stoppers ->
           {"idle", "storing", "closingStop", "closingJobs", "waiting", "returned", "noop"}]
    /\ queue \in Seq(Messages) /\ Len(queue) <= QueueSize
    /\ enqueued \in Nat /\ queueFull \in Nat
    /\ caller \in [Enqueuers -> [pc : {"idle", "selecting", "counting"},
                                 msg : Messages \cup {NoMessage}]]
    /\ submitted \subseteq Messages /\ accepted \in Seq(Messages)
    /\ worker \in [Workers ->
           [pc : {"absent", "selecting", "updating", "counting", "validating",
                  "recording", "leaving", "exited"},
            msg : Messages \cup {NoMessage},
            result : [dropped : Nat, duplicate : BOOLEAN, outOfOrder : BOOLEAN]]]
    /\ counts \in [Workers -> [Counters -> Nat]]
    /\ sensors \in [DOMAIN sensors -> Entry]
    /\ updated \subseteq Messages /\ finished \subseteq Messages
    /\ waiter \in [Waiters ->
           {"idle", "checking", "looking", "quiet", "timedOut", "notRunning"}]
    /\ crashed \in {"no", "send on closed channel", "close of closed channel"}

\* NewProcessor; the workers are made by Start.
Init ==
    /\ isRunning = FALSE /\ stopClosed = FALSE /\ jobsClosed = FALSE
    /\ stopper = [t \in Stoppers |-> "idle"]
    /\ queue = <<>> /\ enqueued = 0 /\ queueFull = 0
    /\ caller = [c \in Enqueuers |-> Idle]
    /\ submitted = {} /\ accepted = <<>>
    /\ worker = [w \in Workers |-> Free("absent")]
    /\ counts = [w \in Workers |-> [k \in Counters |-> 0]]
    /\ sensors = [s \in {} |-> NewEntry(0)]
    /\ updated = {} /\ finished = {}
    /\ waiter = [v \in Waiters |-> "idle"]
    /\ crashed = "no"

\* The workers that exist: NumWorkers of them once Start has run.
Pool == {w \in Workers : worker[w].pc # "absent"}

\* A goroutine panics, and with it the process.
Panic(cause) == crashed' = cause /\ UNCHANGED <<lifecycle, intake, pool, waiter>>

-----------------------------------------------------------------------------
(* Start and Stop.                                                          *)

\* Start, called once: it returns an error while running, and is not called
\* again after a Stop.  NumWorkers is whatever the configuration says.
Start ==
    /\ ~ isRunning /\ Pool = {}
    /\ isRunning' = TRUE
    /\ \E P \in (SUBSET Workers) \ {{}} :
           worker' = [w \in Workers |-> IF w \in P THEN Free("selecting") ELSE worker[w]]
    /\ UNCHANGED <<stopClosed, jobsClosed, stopper, counts, sensors, updated, finished,
                   intake, waiter, crashed>>

\* A call of Stop goes from one line to the next.
Stopping(t, from, to) ==
    /\ stopper[t] = from
    /\ stopper' = [stopper EXCEPT ![t] = to]
    /\ UNCHANGED <<intake, pool, waiter, crashed>>

StopCheck(t) ==
    /\ Stopping(t, "idle", IF isRunning THEN "storing" ELSE "noop")
    /\ UNCHANGED <<isRunning, stopClosed, jobsClosed>>

StopStore(t) ==
    /\ Stopping(t, "storing", "closingStop")
    /\ isRunning' = FALSE
    /\ UNCHANGED <<stopClosed, jobsClosed>>

CloseStopChan(t) ==
    /\ ~ stopClosed
    /\ Stopping(t, "closingStop", "closingJobs")
    /\ stopClosed' = TRUE
    /\ UNCHANGED <<isRunning, jobsClosed>>

\* Two calls of Stop that both saw isRunning: the second close panics.
CloseStopChanAgain(t) ==
    stopper[t] = "closingStop" /\ stopClosed /\ Panic("close of closed channel")

CloseJobsChan(t) ==
    /\ Stopping(t, "closingJobs", "waiting")
    /\ jobsClosed' = TRUE
    /\ UNCHANGED <<isRunning, stopClosed>>

\* Mutants of PoolEnded: Stop does not wait for the workers, or it waits for
\* the queue as well.
PoolSignalled == stopClosed
PoolEndedAndDrained == queue = <<>> /\ \A w \in Pool : worker[w].pc = "exited"

\* What wg.Wait waits for.
PoolEnded == \A w \in Pool : worker[w].pc = "exited"

StopReturn(t) ==
    /\ PoolEnded
    /\ Stopping(t, "waiting", "returned")
    /\ UNCHANGED <<isRunning, stopClosed, jobsClosed>>

-----------------------------------------------------------------------------
(* Enqueue and TryEnqueue.                                                  *)

\* An enqueuing goroutine goes on; its message is at hand until it returns.
Enqueuing(c, from, next) ==
    /\ caller[c].pc = from
    /\ caller' = [caller EXCEPT ![c] = next]
    /\ UNCHANGED <<lifecycle, pool, waiter, crashed>>

\* The call and its check of isRunning.
Call(c, m) ==
    /\ m \notin submitted
    /\ submitted' = submitted \cup {m}
    /\ Enqueuing(c, "idle", IF isRunning THEN [pc |-> "selecting", msg |-> m] ELSE Idle)
    /\ UNCHANGED <<queue, enqueued, queueFull, accepted>>

\* A mutant: the send does not wait for room.
AlwaysRoom == TRUE
HasRoom == Len(queue) < QueueSize

\* The select sends: there is room and jobsChan is open.
Send(c) ==
    /\ ~ jobsClosed
    /\ HasRoom
    /\ Enqueuing(c, "selecting", [caller[c] EXCEPT !.pc = "counting"])
    /\ queue' = Append(queue, caller[c].msg)
    /\ accepted' = Append(accepted, caller[c].msg)
    /\ UNCHANGED <<enqueued, queueFull, submitted>>

\* The counter follows the send, in a step of its own.
Count(c) ==
    /\ Enqueuing(c, "counting", Idle)
    /\ enqueued' = enqueued + 1
    /\ UNCHANGED <<queue, queueFull, submitted, accepted>>

\* The caller, which was not waiting in the select yet when stopChan closed, comes
\* to it with jobsChan closed.  Enqueue may also take its stopChan case then;
\* TryEnqueue has none, and a closed channel is never full.
SendOnClosed(c) ==
    caller[c].pc = "selecting" /\ jobsClosed /\ Panic("send on closed channel")

\* Enqueue returns "processor stopping".
GiveUp(c) ==
    /\ c \in Callers /\ stopClosed
    /\ Enqueuing(c, "selecting", Idle)
    /\ UNCHANGED <<queue, enqueued, queueFull, submitted, accepted>>

\* TryEnqueue returns "queue full".
Refuse(c) ==
    /\ c \in TryCallers /\ ~ jobsClosed /\ ~ HasRoom
    /\ Enqueuing(c, "selecting", Idle)
    /\ queueFull' = queueFull + 1
    /\ UNCHANGED <<queue, enqueued, submitted, accepted>>

-----------------------------------------------------------------------------
(* The workers.                                                             *)

\* A worker goes on.
Working(w, from, next) ==
    /\ worker[w].pc = from
    /\ worker' = [worker EXCEPT ![w] = next]
    /\ UNCHANGED <<lifecycle, enqueued, queueFull, caller, submitted, accepted,
                   waiter, crashed>>

\* A mutant: Run returns when there is nothing to do.
EndsWhenIdle == stopClosed \/ queue = <<>>

\* Run returns: stopChan is closed, or jobsChan is closed and drained.
RunEnds == stopClosed \/ (jobsClosed /\ queue = <<>>)

Exit(w) ==
    /\ RunEnds
    /\ Working(w, "selecting", Free("exited"))
    /\ UNCHANGED <<queue, counts, sensors, updated, finished>>

\* A mutant: a payload that does not parse is dropped before Update.
ParsesFirst(m) == IF m.outcome = "error" THEN "leaving" ELSE "updating"

\* processMessage begins with the store, whatever the payload is.
Begins(m) == "updating"

Take(w) ==
    /\ queue # <<>>
    /\ Working(w, "selecting",
               [Free(Begins(Head(queue))) EXCEPT !.msg = Head(queue)])
    /\ queue' = Tail(queue)
    /\ UNCHANGED <<counts, sensors, updated, finished>>

\* UpdateResult for a message, as Update reports it.
ResultOf(m) ==
    IF m.sensor \notin DOMAIN sensors THEN NoResult
    ELSE LET e == sensors[m.sensor] IN
         [dropped    |-> IF Advances(e, m.sequence) THEN Gap(e, m.sequence) ELSE 0,
          duplicate  |-> IsDuplicate(e, m.sequence),
          outOfOrder |-> IsOutOfOrder(e, m.sequence)]

\* store.Update: the entry of the message's sensor, made if it is the first.
UpdateStore(w) ==
    LET m == worker[w].msg
        e == IF m.sensor \in DOMAIN sensors
             THEN Updated(sensors[m.sensor], m.sequence) ELSE NewEntry(m.sequence)
    IN  /\ Working(w, "updating",
                   [worker[w] EXCEPT !.pc = "counting", !.result = ResultOf(m)])
        /\ sensors' = [s \in DOMAIN sensors \cup {m.sensor} |->
                          IF s = m.sensor THEN e ELSE sensors[s]]
        /\ updated' = updated \cup {m}
        /\ UNCHANGED <<queue, counts, finished>>

\* A mutant: a late message is added to the duplicates.
AddedMixed(n, r) ==
    [n EXCEPT !.dropped    = @ + r.dropped,
              !.duplicates = IF r.duplicate \/ r.outOfOrder THEN @ + 1 ELSE @]

\* The counters n of a worker with what Update found.
Added(n, r) ==
    [n EXCEPT !.dropped    = @ + r.dropped,
              !.duplicates = IF r.duplicate THEN @ + 1 ELSE @,
              !.outOfOrder = IF r.outOfOrder THEN @ + 1 ELSE @]

\* At most one of the three counters changes, so that this is one step.
CountSequence(w) ==
    /\ Working(w, "counting", [worker[w] EXCEPT !.pc = "validating", !.result = NoResult])
    /\ counts' = [counts EXCEPT ![w] = Added(@, worker[w].result)]
    /\ UNCHANGED <<queue, sensors, updated, finished>>

CounterOf(outcome) ==
    CASE outcome = "sound" -> "processed"
      [] outcome = "anomaly" -> "anomalies"
      [] outcome = "error" -> "errors"

\* A mutant: a failure does not return early.
FellThrough(n, outcome) ==
    [n EXCEPT ![CounterOf(outcome)] = @ + 1,
              !.processed = IF outcome = "anomaly" THEN @ + 1 ELSE @]
WithOutcome(n, outcome) == [n EXCEPT ![CounterOf(outcome)] = @ + 1]

\* The switch on the sensor type, and the counter of the outcome.
Validate(w) ==
    LET outcome == worker[w].msg.outcome IN
    /\ Working(w, "validating",
               [worker[w] EXCEPT !.pc = IF outcome = "sound" THEN "leaving" ELSE "recording"])
    /\ counts' = [counts EXCEPT ![w] = WithOutcome(@, outcome)]
    /\ UNCHANGED <<queue, sensors, updated, finished>>

\* store.RecordAnomaly or store.RecordError; the sensor is known by now.
RecordFailure(w) ==
    LET m == worker[w].msg IN
    /\ Working(w, "recording", [worker[w] EXCEPT !.pc = "leaving"])
    /\ sensors' = [sensors EXCEPT ![m.sensor] =
                       IF m.outcome = "anomaly" THEN WithAnomaly(@) ELSE WithError(@)]
    /\ UNCHANGED <<queue, counts, updated, finished>>

\* A mutant: the worker goes back to the select without dropping its message.
StillHolding(w) == [worker[w] EXCEPT !.pc = "selecting"]
Released(w) == Free("selecting")

\* The deferred latency samples, and back to the select.
Leave(w) ==
    /\ Working(w, "leaving", Released(w))
    /\ finished' = finished \cup {worker[w].msg}
    /\ UNCHANGED <<queue, counts, sensors, updated>>

-----------------------------------------------------------------------------
(* WaitForQuiescence.                                                       *)

Waiting(v, from, to) ==
    /\ waiter[v] = from
    /\ waiter' = [waiter EXCEPT ![v] = to]
    /\ UNCHANGED <<lifecycle, intake, pool, crashed>>

Wait(v) == Waiting(v, "idle", "checking")

\* isRunning is read, and the queue's length in a later step.
WaitCheck(v) ==
    Waiting(v, "checking", IF isRunning THEN "looking" ELSE "notRunning")

\* A mutant: one message left is taken for an empty queue.
LooksAlmostEmpty == Len(queue) <= 1
LooksEmpty == queue = <<>>

WaitQuiet(v) == LooksEmpty /\ Waiting(v, "looking", "quiet")

\* The queue is not empty: the deadline has passed, or the waiter sleeps.
WaitOn(v) ==
    /\ ~ LooksEmpty
    /\ \E to \in {"timedOut", "checking"} : Waiting(v, "looking", to)

-----------------------------------------------------------------------------
StopStep(t) ==
    \/ StopCheck(t) \/ StopStore(t) \/ CloseStopChan(t) \/ CloseStopChanAgain(t)
    \/ CloseJobsChan(t) \/ StopReturn(t)

EnqueueStep(c) == Send(c) \/ Count(c) \/ SendOnClosed(c) \/ GiveUp(c) \/ Refuse(c)

WorkerStep(w) ==
    \/ Exit(w) \/ Take(w) \/ UpdateStore(w) \/ CountSequence(w) \/ Validate(w)
    \/ RecordFailure(w) \/ Leave(w)

WaitStep(v) == WaitCheck(v) \/ WaitQuiet(v) \/ WaitOn(v)

Next ==
    /\ crashed = "no"
    /\ \/ Start
       \/ \E t \in Stoppers : StopStep(t)
       \/ \E c \in Enqueuers, m \in Messages : Call(c, m)
       \/ \E c \in Enqueuers : EnqueueStep(c)
       \/ \E w \in Workers : WorkerStep(w)
       \/ \E v \in Waiters : Wait(v) \/ WaitStep(v)

Spec == Init /\ [][Next]_vars

\* Goroutines that can run do run: workers, a call of Enqueue or TryEnqueue
\* once begun, a call of Stop once it has begun.  Nothing makes anybody call.
Live(step) == crashed = "no" /\ step

Fairness ==
    /\ \A w \in Workers : WF_vars(Live(WorkerStep(w)))
    /\ \A c \in Enqueuers : WF_vars(Live(EnqueueStep(c)))
    /\ \A t \in Stoppers : WF_vars(Live(stopper[t] # "idle" /\ StopStep(t)))

-----------------------------------------------------------------------------
(* Nothing is lost and nothing is counted twice.                            *)

Busy == {w \in Workers : worker[w].msg # NoMessage}

\* A message that Enqueue or TryEnqueue sent is in exactly one place, in every
\* interleaving with the workers and with Stop: still buffered, with one
\* worker, or processed (Enqueue, TryEnqueue, Run).
EveryMessageInOnePlace ==
    /\ ToSet(accepted) = ToSet(queue) \cup {worker[w].msg : w \in Busy} \cup finished
    /\ Len(accepted) = Len(queue) + Cardinality(Busy) + Cardinality(finished)

\* The workers' counters of drops, duplicates and late messages, which
\* Stats sums up, agree with the sensors' own counters but for what the
\* workers have found and not counted yet, whatever raced with whatever.
SequenceCountsAgree ==
    /\ SumFunction([w \in Workers |-> counts[w].dropped + worker[w].result.dropped])
         = SumFunction([s \in DOMAIN sensors |-> sensors[s].droppedCount])
    /\ SumFunction([w \in Workers |-> counts[w].duplicates])
         + Cardinality({w \in Workers : worker[w].result.duplicate})
         = SumFunction([s \in DOMAIN sensors |-> sensors[s].duplicateCount])
    /\ SumFunction([w \in Workers |-> counts[w].outOfOrder])
         + Cardinality({w \in Workers : worker[w].result.outOfOrder})
         = SumFunction([s \in DOMAIN sensors |-> sensors[s].outOfOrderCount])

\* The workers whose message is at one of these points, and has this outcome.
At(pcs, outcomes) ==
    Cardinality({w \in Workers : worker[w].pc \in pcs /\ worker[w].msg.outcome \in outcomes})

\* Each message has one outcome: it is processed, an error or an anomaly, and
\* the store's counters follow those of the workers.
OutcomesAgree ==
    /\ SumFunction([s \in DOMAIN sensors |-> sensors[s].messageCount])
         = SumFunction([w \in Workers |->
               counts[w].processed + counts[w].errors + counts[w].anomalies])
           + At({"counting", "validating"}, Outcomes)
    /\ SumFunction([w \in Workers |-> counts[w].errors])
         = SumFunction([s \in DOMAIN sensors |-> sensors[s].errorCount])
           + At({"recording"}, {"error"})
    /\ SumFunction([w \in Workers |-> counts[w].anomalies])
         = SumFunction([s \in DOMAIN sensors |-> sensors[s].anomalyCount])
           + At({"recording"}, {"anomaly"})

-----------------------------------------------------------------------------
(* What callers may rely on.                                                *)

Jobs == INSTANCE JobQueue WITH
    holding <- [c \in Enqueuers |->
                   IF caller[c].pc = "selecting" THEN caller[c].msg ELSE NoMessage],
    poolUp  <- \E w \in Workers : worker[w].pc \notin {"absent", "exited"}

\* To its callers the processor is a bounded queue: workers take messages in
\* the order in which they were sent, the pool ends only after Stop, Enqueue
\* fails only because of Stop and TryEnqueue only at a full queue.
ImplementsJobQueue == Jobs!Spec

-----------------------------------------------------------------------------
(* Order.                                                                   *)

\* How far the pool may reorder: when a message reaches the store, at most
\* NumWorkers - 1 of the messages sent before it have not.  A pool of one
\* worker keeps the order of the channel, so that it reports no gap and no
\* late message that the senders did not make.
OvertakingBounded ==
    \A i \in DOMAIN accepted :
        accepted[i] \in updated =>
        Cardinality({j \in 1 .. i - 1 : accepted[j] \notin updated}) < Cardinality(Pool)

-----------------------------------------------------------------------------
(* Stopping and waiting.                                                    *)

\* Once a call of Stop that waited has returned, the store, the workers'
\* counters and the queue are final: no worker is left, not even one that was
\* in the middle of a message when Stop was called.
FinalAfterStop ==
    [][(\E t \in Stoppers : stopper[t] = "returned")
       => UNCHANGED <<sensors, counts, updated, queue>>]_vars

\* What Stop's comments promise to callers that are enqueuing: they are told
\* that the processor is stopping, the process does not die.
StopIsGraceful == crashed # "send on closed channel"

\* A call of Enqueue or TryEnqueue returns, because the workers drain the queue
\* or Stop wakes the caller up; a call of Stop returns, whatever the workers
\* hold and the queue buffers.
CallsReturn ==
    /\ \A c \in Enqueuers :
           caller[c].pc = "selecting" ~> (caller[c].pc # "selecting" \/ crashed # "no")
    /\ \A t \in Stoppers :
           stopper[t] = "storing" ~> (stopper[t] = "returned" \/ crashed # "no")

\* Every accepted message is processed unless the processor is stopped.
AcceptedIsProcessed ==
    \A m \in Messages :
        m \in ToSet(accepted) ~> (m \in finished \/ stopClosed)
=============================================================================
