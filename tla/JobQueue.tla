-------------------------------- MODULE JobQueue --------------------------------
(***************************************************************************)
(* What internal/processor promises to the goroutines that feed it and to   *)
(* the one that stops it: a bounded queue between its callers and a pool of *)
(* workers.  What a worker does with a message is left out.                 *)
(*                                                                          *)
(* Processor implements this module (ImplementsJobQueue there), and Server  *)
(* is composed with it.                                                     *)
(***************************************************************************)
EXTENDS Naturals, Sequences

CONSTANTS
    Messages, NoMessage,
    Callers, TryCallers,   \* goroutines that call Enqueue, and TryEnqueue
    QueueSize

VARIABLES
    isRunning, stopClosed, jobsClosed,
    queue,      \* what is buffered
    holding,    \* the message of each goroutine that is at the select
    accepted,   \* history: the messages sent
    poolUp,     \* some worker has not ended
    crashed     \* "no", or the panic that ended the process

flags == <<isRunning, stopClosed, jobsClosed>>
vars  == <<flags, queue, holding, accepted, poolUp, crashed>>

Init ==
    /\ isRunning = FALSE /\ stopClosed = FALSE /\ jobsClosed = FALSE
    /\ queue = <<>> /\ accepted = <<>>
    /\ holding = [c \in Callers \cup TryCallers |-> NoMessage]
    /\ poolUp = FALSE
    /\ crashed = "no"

Start ==
    /\ ~ isRunning /\ ~ stopClosed
    /\ isRunning' = TRUE /\ poolUp' = TRUE
    /\ UNCHANGED <<stopClosed, jobsClosed, queue, holding, accepted, crashed>>

\* Stop: the flag, then stopChan, then jobsChan, in steps of their own.
StopStore ==
    /\ isRunning /\ isRunning' = FALSE
    /\ UNCHANGED <<stopClosed, jobsClosed, queue, holding, accepted, poolUp, crashed>>

CloseStopChan ==
    /\ poolUp /\ ~ isRunning /\ ~ stopClosed
    /\ stopClosed' = TRUE
    /\ UNCHANGED <<isRunning, jobsClosed, queue, holding, accepted, poolUp, crashed>>

CloseJobsChan ==
    /\ stopClosed /\ ~ jobsClosed
    /\ jobsClosed' = TRUE
    /\ UNCHANGED <<isRunning, stopClosed, queue, holding, accepted, poolUp, crashed>>

\* A caller whose call finds the processor running is at the select.
Call(c, m) ==
    /\ holding[c] = NoMessage
    /\ isRunning
    /\ holding' = [holding EXCEPT ![c] = m]
    /\ UNCHANGED <<flags, queue, accepted, poolUp, crashed>>

Returns(c) ==
    /\ holding[c] # NoMessage
    /\ holding' = [holding EXCEPT ![c] = NoMessage]
    /\ UNCHANGED <<flags, poolUp, crashed>>

HasRoom == Len(queue) < QueueSize

Send(c) ==
    /\ ~ jobsClosed /\ HasRoom
    /\ Returns(c)
    /\ queue' = Append(queue, holding[c])
    /\ accepted' = Append(accepted, holding[c])

\* Enqueue gives up only when the processor stops, TryEnqueue only when the
\* queue is full.
Fail(c) ==
    /\ \/ c \in Callers /\ stopClosed
       \/ c \in TryCallers /\ ~ jobsClosed /\ ~ HasRoom
    /\ Returns(c)
    /\ UNCHANGED <<queue, accepted>>

\* A worker takes the oldest message.
Take ==
    /\ poolUp /\ queue # <<>>
    /\ queue' = Tail(queue)
    /\ UNCHANGED <<flags, holding, accepted, poolUp, crashed>>

\* The last worker ends, whatever is left in the queue.
PoolEnds ==
    /\ poolUp /\ stopClosed
    /\ poolUp' = FALSE
    /\ UNCHANGED <<flags, queue, holding, accepted, crashed>>

\* What is not promised: a caller that comes to its select when jobsChan is
\* closed may panic, and so may a second Stop.
Panic ==
    /\ \/ jobsClosed /\ (\E c \in DOMAIN holding : holding[c] # NoMessage)
          /\ crashed' = "send on closed channel"
       \/ stopClosed /\ crashed' = "close of closed channel"
    /\ UNCHANGED <<flags, queue, holding, accepted, poolUp>>

Next ==
    /\ crashed = "no"
    /\ \/ Start \/ StopStore \/ CloseStopChan \/ CloseJobsChan
       \/ \E c \in Callers \cup TryCallers : \/ \E m \in Messages : Call(c, m)
                                             \/ Send(c) \/ Fail(c)
       \/ Take \/ PoolEnds \/ Panic

Spec == Init /\ [][Next]_vars
=============================================================================
