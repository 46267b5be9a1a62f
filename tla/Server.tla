--------------------------------- MODULE Server ---------------------------------
(***************************************************************************)
(* cmd/server: the UDP listener, the TCP listener, a forwarding goroutine   *)
(* for each, the recorder, the processor and the monitor, put together by   *)
(* main and taken down by its deferred calls, last in first out.            *)
(*                                                                          *)
(* The UDP listener is UDPListener, with the forwarding goroutine as the    *)
(* reader of its channel.  The processor is JobQueue, which Processor       *)
(* implements, with the forwarders as the callers of Enqueue and main as    *)
(* the caller of Stop.  Of the TCP listener only what TCPListener shows of  *)
(* it is used: messages come one after the other on a bounded channel until *)
(* it is closed, and Stop waits for the handlers, for one of a connection   *)
(* that was registered too late to be closed as long as its client stays.   *)
(* Nobody reads Errors() of either listener.  The -record flag is set.      *)
(***************************************************************************)
EXTENDS Naturals, FiniteSets, SequencesExt

CONSTANTS
    UDPMessages, TCPMessages,   \* valid messages that come by each protocol
    Bad, Fault,                 \* datagrams: rejected, or the read fails
    NoMessage,
    QueueSize,     \* the -buffer flag, which sets the capacity of all channels
    ErrorsCap,     \* capacity of the listener's errorsChan
    SocketCap,     \* bound: the datagrams that wait in the kernel
    MaxNoise       \* bound: how many datagrams are rejected or cannot be read

ASSUME ServerAssumption ==
    /\ UDPMessages \cap TCPMessages = {}
    /\ {Bad, Fault, NoMessage} \cap (UDPMessages \cup TCPMessages) = {}
    /\ {QueueSize, ErrorsCap, SocketCap} \subseteq Nat \ {0}
    /\ MaxNoise \in Nat

VARIABLES
    running, stopped, connClosed, channelsClosed, loop, datagram, socket,
    messages, errors, received, stop,   \* of UDPListener
    isRunning, stopClosed, jobsClosed, queue, holding, accepted, poolUp,
    crashed,       \* of JobQueue
    tcpMessages,   \* messagesChan of the TCP listener
    tcpClosed,     \* it is closed
    lateClient,    \* a connection was registered after Stop had closed the others
    forwarder,     \* where each forwarding goroutine is, and its message
    file,          \* the messages in the record file
    recorderOpen,  \* the file is open
    main,          \* where main is
    sent,          \* history: the messages that clients have sent
    noise          \* history: how many other datagrams arrived

Messages   == UDPMessages \cup TCPMessages
Forwarders == {"udp", "tcp"}

UDP == INSTANCE UDPListener WITH Datagrams <- UDPMessages, MessagesCap <- QueueSize
Jobs == INSTANCE JobQueue WITH Callers <- Forwarders, TryCallers <- {}

udp        == <<running, stopped, connClosed, channelsClosed, loop, datagram, socket,
                messages, errors, received, stop>>
tcp        == <<tcpMessages, tcpClosed, lateClient>>
jobs       == <<isRunning, stopClosed, jobsClosed, queue, holding, accepted, poolUp, crashed>>
recorder   == <<file, recorderOpen>>
serverVars == <<udp, tcp, jobs, recorder, forwarder, main, sent, noise>>

Forwarding(pc, m) == [pc |-> pc, msg |-> m]

\* Each goroutine is at a point of its code; no channel holds more than its
\* capacity.
TypeOK ==
    /\ UDP!TypeOK
    /\ queue \in Seq(Messages) /\ Len(queue) <= QueueSize
    /\ tcpMessages \in Seq(TCPMessages) /\ Len(tcpMessages) <= QueueSize
    /\ forwarder \in [Forwarders ->
           [pc : {"receiving", "recording", "calling", "ended"},
            msg : Messages \cup {NoMessage}]]
    /\ holding \in [Forwarders -> Messages \cup {NoMessage}]
    /\ {recorderOpen, tcpClosed, lateClient} \subseteq BOOLEAN
    /\ main \in {"starting", "serving", "closingRecorder", "stoppingTCP", "waitingTCP",
                 "stoppingUDP", "stoppingMonitor", "stoppingProcessor", "exited"}

Init ==
    /\ UDP!Init /\ Jobs!Init
    /\ tcpMessages = <<>> /\ tcpClosed = FALSE /\ lateClient = FALSE
    /\ forwarder = [f \in Forwarders |-> Forwarding("receiving", NoMessage)]
    /\ file = <<>> /\ recorderOpen = TRUE
    /\ main = "starting"
    /\ sent = {} /\ noise = 0

-----------------------------------------------------------------------------
(* What arrives.                                                            *)

\* Datagrams arrive in any order; one that was lost is one that was not sent.
ArriveUDP(m) ==
    /\ m \in UDPMessages \ sent
    /\ UDP!Arrive(m)
    /\ sent' = sent \cup {m}
    /\ UNCHANGED <<tcp, jobs, recorder, forwarder, main, noise>>

ArriveNoise ==
    /\ noise < MaxNoise
    /\ \E d \in {Bad, Fault} : UDP!Arrive(d)
    /\ noise' = noise + 1
    /\ UNCHANGED <<tcp, jobs, recorder, forwarder, main, sent>>

ArriveTCP(m) ==
    /\ m \in TCPMessages \ sent
    /\ ~ tcpClosed /\ Len(tcpMessages) < QueueSize
    /\ tcpMessages' = Append(tcpMessages, m)
    /\ sent' = sent \cup {m}
    /\ UNCHANGED <<udp, tcpClosed, lateClient, jobs, recorder, forwarder, main, noise>>

\* The client of the late connection closes it, or its handler gives up the
\* line it has read because of stopChan.
LateClientLeaves ==
    /\ lateClient
    /\ lateClient' = FALSE
    /\ UNCHANGED <<udp, tcpMessages, tcpClosed, jobs, recorder, forwarder, main, sent, noise>>

-----------------------------------------------------------------------------
(* The forwarding goroutines.                                               *)

\* A mutant: both goroutines range over the UDP listener's messages.
SameSource(f) == "udp"
Source(f) == f

Forwards(f, from, next) ==
    /\ forwarder[f].pc = from /\ holding[f] = NoMessage
    /\ forwarder' = [forwarder EXCEPT ![f] = next]
    /\ UNCHANGED <<main, sent, noise>>

Receive(f) ==
    \/ /\ Source(f) = "udp"
       /\ UDP!Taken
       /\ Forwards(f, "receiving", Forwarding("recording", Head(messages)))
       /\ UNCHANGED <<tcp, jobs, recorder>>
    \/ /\ Source(f) = "tcp" /\ tcpMessages # <<>>
       /\ tcpMessages' = Tail(tcpMessages)
       /\ Forwards(f, "receiving", Forwarding("recording", Head(tcpMessages)))
       /\ UNCHANGED <<udp, tcpClosed, lateClient, jobs, recorder>>

\* The range over a closed channel ends when it is drained.
EndRange(f) ==
    /\ IF f = "udp" THEN channelsClosed /\ messages = <<>>
                    ELSE tcpClosed /\ tcpMessages = <<>>
    /\ Forwards(f, "receiving", Forwarding("ended", NoMessage))
    /\ UNCHANGED <<udp, tcp, jobs, recorder>>

\* recorder.Record: a write to the closed file fails, which is logged and no
\* more: the message is enqueued all the same.
Record(f) ==
    /\ Forwards(f, "recording", Forwarding("calling", forwarder[f].msg))
    /\ file' = IF recorderOpen THEN Append(file, forwarder[f].msg) ELSE file
    /\ UNCHANGED <<udp, tcp, jobs, recorderOpen>>

\* proc.Enqueue: an error is printed, and the message is gone.
CallEnqueue(f) ==
    /\ Forwards(f, "calling", Forwarding("receiving", NoMessage))
    /\ IF isRunning THEN Jobs!Call(f, forwarder[f].msg) ELSE UNCHANGED jobs
    /\ UNCHANGED <<udp, tcp, recorder>>

-----------------------------------------------------------------------------
(* main, which goes from one line to the next.                              *)

Main(from, to) ==
    /\ main = from
    /\ main' = to
    /\ UNCHANGED <<forwarder, sent, noise>>

StartUp ==
    /\ Main("starting", "serving")
    /\ Jobs!Start
    /\ UNCHANGED <<udp, tcp, recorder>>

\* SIGINT or SIGTERM; final statistics are printed, and main returns.
Signal ==
    /\ Main("serving", "closingRecorder")
    /\ UNCHANGED <<udp, tcp, jobs, recorder>>

CloseRecorder ==
    /\ Main("closingRecorder", "stoppingTCP")
    /\ recorderOpen' = FALSE
    /\ UNCHANGED <<udp, tcp, jobs, file>>

\* The TCP listener's Stop up to wg.Wait: it closes the connections that are
\* in the map.  One that the accept loop holds is registered after that.
StopTCP ==
    /\ Main("stoppingTCP", "waitingTCP")
    /\ lateClient' \in BOOLEAN
    /\ UNCHANGED <<udp, tcpMessages, tcpClosed, jobs, recorder>>

\* wg.Wait has returned, and the channels are closed.
WaitTCP ==
    /\ ~ lateClient
    /\ Main("waitingTCP", "stoppingUDP")
    /\ tcpClosed' = TRUE
    /\ UNCHANGED <<udp, tcpMessages, lateClient, jobs, recorder>>

StopUDP ==
    /\ Main("stoppingUDP", IF stop = "closingChannels" THEN "stoppingMonitor" ELSE main)
    /\ UDP!StopBegin \/ UDP!StopStep
    /\ UNCHANGED <<tcp, jobs, recorder>>

\* close(stopChan) and wg.Wait, which waits for no more than a scan.
StopMonitor ==
    /\ Main("stoppingMonitor", "stoppingProcessor")
    /\ UNCHANGED <<udp, tcp, jobs, recorder>>

StopProcessor ==
    /\ Main("stoppingProcessor", main)
    /\ Jobs!StopStore \/ Jobs!CloseStopChan \/ Jobs!CloseJobsChan
    /\ UNCHANGED <<udp, tcp, recorder>>

Exit ==
    /\ Main("stoppingProcessor", "exited")
    /\ jobsClosed /\ ~ poolUp
    /\ UNCHANGED <<udp, tcp, jobs, recorder>>

-----------------------------------------------------------------------------
Forward(f) == Receive(f) \/ EndRange(f) \/ Record(f) \/ CallEnqueue(f)

\* Inside Enqueue: the select, on a closed channel too.
InEnqueue(f) ==
    /\ \/ Jobs!Send(f) \/ Jobs!Fail(f)
       \/ Jobs!Panic /\ holding[f] # NoMessage /\ crashed' = "send on closed channel"
    /\ UNCHANGED <<udp, tcp, recorder, forwarder, main, sent, noise>>

Pool ==
    /\ Jobs!Take \/ Jobs!PoolEnds
    /\ UNCHANGED <<udp, tcp, recorder, forwarder, main, sent, noise>>

UDPLoop ==
    /\ UDP!LoopStep
    /\ UNCHANGED <<tcp, jobs, recorder, forwarder, main, sent, noise>>

MainStep ==
    \/ StartUp \/ CloseRecorder \/ StopTCP \/ WaitTCP \/ StopUDP \/ StopMonitor
    \/ StopProcessor \/ Exit

\* The process is gone when main returns or a goroutine panics.
Up == crashed = "no" /\ main # "exited"
Serving == Up /\ main # "starting"

Next ==
    \/ Up /\ (Signal \/ MainStep)
    \/ Serving /\ \/ \E m \in Messages : ArriveUDP(m) \/ ArriveTCP(m)
                  \/ ArriveNoise \/ LateClientLeaves \/ UDPLoop \/ Pool
                  \/ \E f \in Forwarders : Forward(f) \/ InEnqueue(f)

Spec == Init /\ [][Next]_serverVars

\* Goroutines run when they can; nobody has to send, to leave, or to stop the
\* server.
FairSpec ==
    /\ Spec
    /\ WF_serverVars(Up /\ MainStep)
    /\ WF_serverVars(Serving /\ UDPLoop)
    /\ WF_serverVars(Serving /\ Pool)
    /\ \A f \in Forwarders : WF_serverVars(Serving /\ (Forward(f) \/ InEnqueue(f)))

-----------------------------------------------------------------------------
(* From a listener to the queue.                                            *)

\* The messages that are on their way from a listener into the queue.
OnTheirWay ==
    ToSet(messages) \cup ToSet(tcpMessages)
    \cup (IF loop = "sending" THEN {datagram} ELSE {})
    \cup {forwarder[f].msg : f \in Forwarders} \cup {holding[f] : f \in Forwarders}

\* While the server serves, it drops nothing it has read: what a listener
\* received is on its way or has been accepted, whatever queue is full.
NothingDroppedWhileServing ==
    main = "serving" =>
        LET there == OnTheirWay \cup ToSet(accepted) IN
        /\ received = Cardinality(there \cap UDPMessages)
        /\ sent \cap TCPMessages \subseteq there

\* What the -record flag and the README say: every accepted message is
\* recorded.
EveryAcceptedRecorded == ToSet(accepted) \subseteq ToSet(file)

\* Messages that came through one listener are in the same order in the file
\* and in the queue: replaying the file feeds a sensor that keeps to one
\* protocol in the order in which the processor took it.
FileKeepsOrder ==
    \A protocol \in {UDPMessages, TCPMessages} :
        \A i, j \in DOMAIN file, k, l \in DOMAIN accepted :
            /\ file[i] = accepted[k] /\ file[j] = accepted[l]
            /\ {file[i], file[j]} \subseteq protocol
            => (i < j <=> k < l)

\* A datagram that waits is read: backpressure reaches down to the loop and
\* ends, unless rejected datagrams have filled errorsChan, which nobody reads.
DatagramsAreRead ==
    socket # <<>> ~> \/ socket = <<>>
                     \/ loop = "reporting" /\ errors = ErrorsCap
                     \/ main # "serving"

\* Main waits for the handler of a late connection, whose client stays.
Held == main = "waitingTCP" /\ lateClient

\* Shutdown ends, even with a full errorsChan and full queues, unless such a
\* client holds it up; when the client has gone it goes on to its end.
ShutdownEnds == (main \notin {"starting", "serving"} /\ ~ Held) ~> (~ Up \/ Held)
=============================================================================
