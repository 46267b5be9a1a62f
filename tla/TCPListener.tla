------------------------------ MODULE TCPListener ------------------------------
(***************************************************************************)
(* internal/ingestion/tcp.go: a goroutine that accepts connections, one     *)
(* goroutine for each connection that reads lines, and Stop, which has to   *)
(* bring all of them to an end before it closes the output channels.        *)
(*                                                                          *)
(* A line is good (a valid message), bad (rejected by the parser) or        *)
(* oversized (longer than the scanner's buffer, which ends the scan); blank *)
(* lines are skipped by the code and left out here.  Clients connect, send, *)
(* stay silent and close as they like.                                      *)
(***************************************************************************)
EXTENDS Naturals, FiniteSets, Functions, Sequences

CONSTANTS
    Conns,            \* the connections that clients open
    MessagesCap,      \* capacity of messagesChan (bufferSize)
    ErrorsCap,        \* capacity of errorsChan, 10 in the code
    ErrorsAreRead,    \* whether the owner of the listener receives from Errors()
    MaxEvents,        \* bound: lines the clients send and failures of Accept
    MaxSpoilt,        \* bound: lines that are bad or oversized
    MaxAcceptErrors   \* bound: transient failures of Accept

ASSUME ListenerAssumption ==
    /\ IsFiniteSet(Conns)
    /\ MessagesCap \in Nat \ {0} /\ ErrorsCap \in Nat
    /\ ErrorsAreRead \in BOOLEAN
    /\ MaxEvents \in Nat /\ MaxSpoilt \in Nat /\ MaxAcceptErrors \in Nat

None == "none"
ASSUME NoneAssumption == None \notin Conns

VARIABLES
    isRunning, stopClosed, listenerClosed, channelsClosed,
    stopper,          \* where Stop is
    acceptor,         \* where acceptLoop is
    accepted,         \* the connection acceptLoop holds
    acceptErrors,     \* transient failures so far
    connections,      \* the map of open connections
    handler,          \* where handleConnection is, for each connection
    socket,           \* whether each connection's socket is open on this side
    client,           \* what each client does: away, connected or gone
    inbox,            \* lines sent and not yet read
    sent,             \* lines each client has sent
    received, rejected, activeConnections, totalConnections,
    messages,         \* messagesChan: the connection and number of each message
    errors,           \* errorsChan: how many it holds
    reads,            \* good lines read from each connection
    forwarded,        \* number of the last message received from messagesChan, by connection
    lost              \* history: messages given up because of stopChan

flags   == <<isRunning, stopClosed, listenerClosed, channelsClosed, stopper>>
accepts == <<acceptor, accepted, acceptErrors>>
clients == <<client, inbox, sent>>
conns   == <<connections, handler, socket>>
counts  == <<received, rejected, activeConnections, totalConnections>>
output  == <<messages, errors, reads, forwarded, lost>>
vars    == <<flags, accepts, clients, conns, counts, output>>

Kinds == {"good", "bad", "oversized"}

Message == [conn : Conns, number : Nat]

\* Every goroutine is at a point of its code; the channels never hold more
\* than their capacity, and no gauge is negative.
TypeOK ==
    /\ isRunning \in BOOLEAN /\ stopClosed \in BOOLEAN
    /\ listenerClosed \in BOOLEAN /\ channelsClosed \in BOOLEAN
    /\ stopper \in {"idle", "storing", "closingStop", "closingListener",
                    "closingConns", "waiting", "closingChannels", "returned"}
    /\ acceptor \in {"accepting", "registering", "spawning", "reporting", "exited"}
    /\ accepted \in Conns \cup {None}
    /\ acceptErrors \in 0 .. MaxAcceptErrors
    /\ connections \subseteq Conns
    /\ handler \in [Conns -> {"none", "reading", "sending", "reporting", "closing",
                              "leaving", "done"}]
    /\ socket \in [Conns -> {"none", "open", "closed"}]
    /\ client \in [Conns -> {"away", "connected", "gone"}]
    /\ inbox \in [Conns -> Seq(Kinds)]
    /\ sent \in [Conns -> 0 .. MaxEvents]
    /\ received \in Nat /\ rejected \in Nat
    /\ activeConnections \in Nat /\ totalConnections \in Nat
    /\ messages \in Seq(Message) /\ Len(messages) <= MessagesCap
    /\ errors \in 0 .. ErrorsCap
    /\ reads \in [Conns -> Nat]
    /\ forwarded \in [Conns -> Nat]
    /\ lost \in [Conns -> Nat]

\* After Start: listening, the accept loop running.
Init ==
    /\ isRunning = TRUE /\ stopClosed = FALSE
    /\ listenerClosed = FALSE /\ channelsClosed = FALSE
    /\ stopper = "idle"
    /\ acceptor = "accepting" /\ accepted = None /\ acceptErrors = 0
    /\ connections = {}
    /\ handler = [c \in Conns |-> "none"]
    /\ socket = [c \in Conns |-> "none"]
    /\ client = [c \in Conns |-> "away"]
    /\ inbox = [c \in Conns |-> <<>>]
    /\ sent = [c \in Conns |-> 0]
    /\ received = 0 /\ rejected = 0 /\ activeConnections = 0 /\ totalConnections = 0
    /\ messages = <<>> /\ errors = 0
    /\ reads = [c \in Conns |-> 0]
    /\ forwarded = [c \in Conns |-> 0]
    /\ lost = [c \in Conns |-> 0]

-----------------------------------------------------------------------------
(* The environment: clients, and the owner of the listener.                 *)

\* The connection waits in the kernel's queue until it is accepted.
Connect(c) ==
    /\ client[c] = "away" /\ ~ listenerClosed
    /\ client' = [client EXCEPT ![c] = "connected"]
    /\ socket' = [socket EXCEPT ![c] = "open"]
    /\ UNCHANGED <<inbox, sent, connections, handler, flags, accepts, counts, output>>

\* What the bounds count: everything that clients send or Accept meets; the bad
\* lines that were read, with the bad and oversized ones that wait.
Events == SumFunction(sent) + acceptErrors
Spoilt ==
    rejected + SumFunction([c \in Conns |->
        Cardinality({i \in DOMAIN inbox[c] : inbox[c][i] # "good"})])

SendLine(c, kind) ==
    /\ client[c] = "connected" /\ socket[c] = "open"
    /\ Events < MaxEvents /\ (kind # "good" => Spoilt < MaxSpoilt)
    /\ sent' = [sent EXCEPT ![c] = @ + 1]
    /\ inbox' = [inbox EXCEPT ![c] = Append(@, kind)]
    /\ UNCHANGED <<client, conns, flags, accepts, counts, output>>

Disconnect(c) ==
    /\ client[c] = "connected"
    /\ client' = [client EXCEPT ![c] = "gone"]
    /\ UNCHANGED <<inbox, sent, conns, flags, accepts, counts, output>>

\* The owner's goroutine that ranges over Messages().
Forward ==
    /\ messages # <<>>
    /\ forwarded' = [forwarded EXCEPT ![Head(messages).conn] = Head(messages).number]
    /\ messages' = Tail(messages)
    /\ UNCHANGED <<errors, reads, lost, flags, accepts, clients, conns, counts>>

\* An owner that reads Errors(); cmd/server does not.
ReadError ==
    /\ ErrorsAreRead /\ errors > 0
    /\ errors' = errors - 1
    /\ UNCHANGED <<messages, reads, forwarded, lost, flags, accepts, clients, conns, counts>>

-----------------------------------------------------------------------------
(* acceptLoop.                                                              *)

\* The accept loop goes on.
Accepting(from, to) ==
    /\ acceptor = from
    /\ acceptor' = to
    /\ UNCHANGED <<flags, clients, received, rejected, messages, reads, forwarded, lost>>

gauges == <<activeConnections, totalConnections>>

Accept(c) ==
    /\ ~ listenerClosed /\ socket[c] = "open" /\ handler[c] = "none"
    /\ Accepting("accepting", "registering")
    /\ accepted' = c
    /\ UNCHANGED <<acceptErrors, conns, gauges, errors>>

\* Accept fails: the loop ends if the listener was stopped.
AcceptStopped ==
    /\ listenerClosed /\ ~ isRunning
    /\ Accepting("accepting", "exited")
    /\ UNCHANGED <<accepted, acceptErrors, conns, gauges, errors>>

\* A transient failure is reported, unless it comes while stopping.
AcceptFails ==
    /\ ~ listenerClosed /\ acceptErrors < MaxAcceptErrors /\ Events < MaxEvents
    /\ Accepting("accepting", IF isRunning THEN "reporting" ELSE "exited")
    /\ acceptErrors' = acceptErrors + 1
    /\ UNCHANGED <<accepted, conns, gauges, errors>>

\* The select that reports it.
ReportAccept ==
    /\ \/ errors < ErrorsCap /\ errors' = errors + 1 /\ Accepting("reporting", "accepting")
       \/ stopClosed /\ Accepting("reporting", "exited") /\ UNCHANGED errors
    /\ UNCHANGED <<accepted, acceptErrors, conns, gauges>>

\* The new connection goes into the map, under the mutex.
Register ==
    /\ Accepting("registering", "spawning")
    /\ connections' = connections \cup {accepted}
    /\ UNCHANGED <<accepted, acceptErrors, handler, socket, gauges, errors>>

\* The counters, wg.Add and the handler's goroutine.
Spawn ==
    /\ Accepting("spawning", "accepting")
    /\ activeConnections' = activeConnections + 1
    /\ totalConnections' = totalConnections + 1
    /\ handler' = [handler EXCEPT ![accepted] = "reading"]
    /\ accepted' = None
    /\ UNCHANGED <<acceptErrors, connections, socket, errors>>

-----------------------------------------------------------------------------
(* handleConnection.                                                        *)

\* A handler goes on; the deferred calls begin at "closing".
Handling(c, from, to) ==
    /\ handler[c] = from
    /\ handler' = [handler EXCEPT ![c] = to]
    /\ UNCHANGED <<flags, accepts, client, sent, totalConnections, forwarded>>

\* scanner.Scan returns a line.  The scanner may still hold lines after the
\* socket was closed on this side.
ReadGood(c) ==
    /\ inbox[c] # <<>> /\ Head(inbox[c]) = "good"
    /\ Handling(c, "reading", "sending")
    /\ inbox' = [inbox EXCEPT ![c] = Tail(@)]
    /\ received' = received + 1
    /\ reads' = [reads EXCEPT ![c] = @ + 1]
    /\ UNCHANGED <<rejected, activeConnections, connections, socket, messages, errors, lost>>

ReadBad(c) ==
    /\ inbox[c] # <<>> /\ Head(inbox[c]) = "bad"
    /\ Handling(c, "reading", "reporting")
    /\ inbox' = [inbox EXCEPT ![c] = Tail(@)]
    /\ rejected' = rejected + 1
    /\ UNCHANGED <<received, activeConnections, connections, socket, messages, errors,
                   reads, lost>>

\* scanner.Scan returns false: the line is too long, the client has closed,
\* or Stop has closed the socket.
ScanEnds(c) ==
    /\ \/ inbox[c] # <<>> /\ Head(inbox[c]) = "oversized"
       \/ inbox[c] = <<>> /\ client[c] = "gone"
       \/ socket[c] = "closed"
    /\ Handling(c, "reading", "closing")
    /\ UNCHANGED <<inbox, connections, socket, received, rejected, activeConnections,
                   messages, errors, reads, lost>>

\* A mutant: the send does not look at the room there is.
AlwaysRoom == TRUE
HasRoom == Len(messages) < MessagesCap

\* A mutant: the handler selects again after it has sent.
SendAgain(c) ==
    /\ HasRoom
    /\ Handling(c, "sending", "sending")
    /\ messages' = Append(messages, [conn |-> c, number |-> reads[c]])
    /\ UNCHANGED <<inbox, connections, socket, received, rejected, activeConnections,
                   errors, reads, lost>>

\* The select on messagesChan.
SendMessage(c) ==
    /\ HasRoom
    /\ Handling(c, "sending", "reading")
    /\ messages' = Append(messages, [conn |-> c, number |-> reads[c]])
    /\ UNCHANGED <<inbox, connections, socket, received, rejected, activeConnections,
                   errors, reads, lost>>

\* A mutant: a full messagesChan makes the handler drop the message.
DropsWhenFull == stopClosed \/ ~ HasRoom
Stopped == stopClosed

\* The stopChan case: the message that was read is given up.
GiveUpMessage(c) ==
    /\ Stopped
    /\ Handling(c, "sending", "closing")
    /\ lost' = [lost EXCEPT ![c] = @ + 1]
    /\ UNCHANGED <<inbox, connections, socket, received, rejected, activeConnections,
                   messages, errors, reads>>

\* A mutant: a rejected line is never reported, the handler waits for Stop.
NeverReported == FALSE
HasErrorRoom == errors < ErrorsCap

\* The select on errorsChan.
ReportLine(c) ==
    /\ \/ HasErrorRoom /\ errors' = errors + 1 /\ Handling(c, "reporting", "reading")
       \/ stopClosed /\ Handling(c, "reporting", "closing") /\ UNCHANGED errors
    /\ UNCHANGED <<inbox, connections, socket, received, rejected, activeConnections,
                   messages, reads, lost>>

\* A mutant: the connection stays in the map.
Kept(c) == connections
Without(c) == connections \ {c}

\* The deferred function closes the socket and forgets the connection,
CloseConn(c) ==
    /\ Handling(c, "closing", "leaving")
    /\ socket' = [socket EXCEPT ![c] = "closed"]
    /\ connections' = Without(c)
    /\ UNCHANGED <<inbox, received, rejected, activeConnections, messages, errors, reads, lost>>

\* then counts it off; wg.Done comes last.
LeaveHandler(c) ==
    /\ Handling(c, "leaving", "done")
    /\ activeConnections' = activeConnections - 1
    /\ UNCHANGED <<inbox, connections, socket, received, rejected, messages, errors,
                   reads, lost>>

-----------------------------------------------------------------------------
(* Stop, called once by the owner.                                          *)

\* Stop goes from one line to the next.
Stopping(from, to) ==
    /\ stopper = from
    /\ stopper' = to
    /\ UNCHANGED <<accepts, clients, connections, handler, counts, output>>

StopBegin ==
    /\ isRunning
    /\ Stopping("idle", "storing")
    /\ UNCHANGED <<isRunning, stopClosed, listenerClosed, channelsClosed, socket>>

StopStore ==
    /\ Stopping("storing", "closingStop")
    /\ isRunning' = FALSE
    /\ UNCHANGED <<stopClosed, listenerClosed, channelsClosed, socket>>

CloseStopChan ==
    /\ Stopping("closingStop", "closingListener")
    /\ stopClosed' = TRUE
    /\ UNCHANGED <<isRunning, listenerClosed, channelsClosed, socket>>

\* A mutant: the listener's socket stays open.
LeaveListener ==
    /\ Stopping("closingListener", "closingConns")
    /\ UNCHANGED <<isRunning, stopClosed, listenerClosed, channelsClosed, socket>>

\* Connections that were not accepted yet are reset by the kernel.
CloseListener ==
    /\ Stopping("closingListener", "closingConns")
    /\ listenerClosed' = TRUE
    /\ socket' = [c \in Conns |->
           IF socket[c] = "open" /\ handler[c] = "none" /\ accepted # c
           THEN "closed" ELSE socket[c]]
    /\ UNCHANGED <<isRunning, stopClosed, channelsClosed>>

\* Every connection in the map is closed, under the mutex.
CloseConns ==
    /\ Stopping("closingConns", "waiting")
    /\ socket' = [c \in Conns |-> IF c \in connections THEN "closed" ELSE socket[c]]
    /\ UNCHANGED <<isRunning, stopClosed, listenerClosed, channelsClosed>>

Live(c) == handler[c] \in {"reading", "sending", "reporting", "closing", "leaving"}

\* A mutant: the handlers are not in the wait group.
AcceptorEnded == acceptor = "exited"

\* What wg.Wait waits for: the accept loop and every handler.
AllEnded == acceptor = "exited" /\ \A c \in Conns : ~ Live(c)

StopWait ==
    /\ AllEnded
    /\ Stopping("waiting", "closingChannels")
    /\ UNCHANGED <<isRunning, stopClosed, listenerClosed, channelsClosed, socket>>

CloseChannels ==
    /\ Stopping("closingChannels", "returned")
    /\ channelsClosed' = TRUE
    /\ UNCHANGED <<isRunning, stopClosed, listenerClosed, socket>>

-----------------------------------------------------------------------------
AcceptLoopStep ==
    \/ \E c \in Conns : Accept(c)
    \/ AcceptStopped \/ ReportAccept \/ Register \/ Spawn

HandlerStep(c) ==
    \/ ReadGood(c) \/ ReadBad(c) \/ ScanEnds(c) \/ SendMessage(c) \/ GiveUpMessage(c)
    \/ ReportLine(c) \/ CloseConn(c) \/ LeaveHandler(c)

StopStep ==
    StopStore \/ CloseStopChan \/ CloseListener \/ CloseConns \/ StopWait \/ CloseChannels

Next ==
    \/ \E c \in Conns :
          \/ Connect(c) \/ Disconnect(c) \/ HandlerStep(c)
          \/ \E kind \in Kinds : SendLine(c, kind)
    \/ Forward \/ ReadError
    \/ AcceptLoopStep \/ AcceptFails
    \/ StopBegin \/ StopStep

Spec == Init /\ [][Next]_vars

\* The goroutines of the listener and its owner run when they can; clients
\* owe nothing.
FairSpec ==
    /\ Spec
    /\ WF_vars(AcceptLoopStep)
    /\ WF_vars(StopStep)
    /\ WF_vars(Forward) /\ WF_vars(ReadError)
    /\ \A c \in Conns : WF_vars(HandlerStep(c))

\* The same, with clients that do not stay forever.
PatientSpec == FairSpec /\ \A c \in Conns : WF_vars(Disconnect(c))

-----------------------------------------------------------------------------
(* Counting.                                                                *)

\* The gauge of active connections and the map follow the handlers through
\* accept, close and Stop: a connection is counted from Spawn to the last
\* deferred step, and is in the map from Register to CloseConn.
ConnectionsTracked ==
    /\ activeConnections = Cardinality({c \in Conns : Live(c)})
    /\ totalConnections = Cardinality({c \in Conns : handler[c] # "none"})
    /\ connections =
         {c \in Conns : \/ handler[c] \in {"reading", "sending", "reporting", "closing"}
                        \/ acceptor = "spawning" /\ c = accepted}

\* The messages of connection c that messagesChan holds, up to place i.
Buffered(c, i) == {j \in 1 .. i : messages[j].conn = c}

\* A valid message is buffered, forwarded, still with its handler, or given up
\* because the listener stops, and each connection gives up one at most.
NoMessageLost ==
    /\ received = SumFunction(reads)
    /\ \A c \in Conns :
          /\ reads[c] = forwarded[c] + Cardinality(Buffered(c, Len(messages)))
                          + (IF handler[c] = "sending" THEN 1 ELSE 0) + lost[c]
          /\ lost[c] > 0 => lost[c] = 1 /\ stopClosed /\ handler[c] # "reading"

\* The messages of one connection leave in the order in which they were read,
\* none repeated and none skipped, however the handlers interleave.
ConnectionOrderKept ==
    \A i \in DOMAIN messages :
        LET c == messages[i].conn IN
        messages[i].number = forwarded[c] + Cardinality(Buffered(c, i))

-----------------------------------------------------------------------------
(* Stopping.                                                                *)

\* When the output channels are closed nobody is left who could send on them,
\* no connection is open and none is counted.
NobodyLeftToSend ==
    channelsClosed =>
        /\ acceptor = "exited"
        /\ \A c \in Conns : ~ Live(c) /\ socket[c] # "open"
        /\ connections = {} /\ activeConnections = 0

\* What Stop's comment says: it closes every open connection, so that blocked
\* reads return, and waits for all the handlers.  So it returns.
StopReturns == stopper = "storing" ~> stopper = "returned"

\* A connection's lines are read on, provided that somebody reads Errors():
\* a full messagesChan or errorsChan delays a handler and never stops it.
LinesAreRead ==
    \A c \in Conns :
        (handler[c] = "reading" /\ inbox[c] # <<>>)
        ~> (inbox[c] = <<>> \/ handler[c] = "done")

\* What the comment on TCPListener says: its own goroutine keeps a connection
\* from being blocked by any other.  A client that has sent one bad line and
\* one good one, which errorsChan has room for, gets both of them read.
ConnectionsAreIndependent ==
    \A c \in Conns :
        (handler[c] = "reading" /\ inbox[c] = <<"bad", "good">> /\ sent[c] = 2)
        ~> (inbox[c] = <<>> \/ handler[c] = "done")
=============================================================================
