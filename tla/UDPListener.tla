------------------------------ MODULE UDPListener ------------------------------
(***************************************************************************)
(* internal/ingestion/udp.go: one goroutine that reads datagrams, and Stop. *)
(*                                                                          *)
(* A datagram is one of Datagrams (a valid message), Bad (rejected by the   *)
(* parser) or Fault (the read fails although the socket is open).  Empty    *)
(* datagrams are skipped by the code and left out here.                     *)
(***************************************************************************)
EXTENDS Naturals, Sequences

CONSTANTS
    Datagrams, Bad, Fault, NoMessage,
    SocketCap,     \* bound: what the kernel's buffer holds; the rest is lost
    MessagesCap,   \* capacity of messagesChan (bufferSize)
    ErrorsCap      \* capacity of errorsChan, 10 in the code

VARIABLES
    running, stopped, connClosed, channelsClosed,   \* isRunning, stopChan, conn, both channels
    loop,       \* where receiveLoop is
    datagram,   \* the message it has read and not sent
    socket,     \* datagrams that wait in the kernel
    messages,   \* messagesChan
    errors,     \* errorsChan: how many it holds
    received,
    stop        \* where Stop is

flags == <<running, stopped, connClosed, channelsClosed>>
vars  == <<flags, loop, datagram, socket, messages, errors, received, stop>>

\* The loop is at a point of its code; the channels never hold more than their
\* capacity.
TypeOK ==
    /\ {running, stopped, connClosed, channelsClosed} \subseteq BOOLEAN
    /\ loop \in {"checking", "reading", "sending", "reporting", "exited"}
    /\ datagram \in Datagrams \cup {NoMessage}
    /\ socket \in Seq(Datagrams \cup {Bad, Fault})
    /\ messages \in Seq(Datagrams) /\ Len(messages) <= MessagesCap
    /\ errors \in 0 .. ErrorsCap
    /\ received \in Nat
    /\ stop \in {"idle", "storing", "closingStop", "closingConn", "waiting",
                 "closingChannels", "returned"}

\* After Start.
Init ==
    /\ running = TRUE /\ stopped = FALSE /\ connClosed = FALSE /\ channelsClosed = FALSE
    /\ loop = "checking" /\ datagram = NoMessage
    /\ socket = <<>> /\ messages = <<>> /\ errors = 0
    /\ received = 0
    /\ stop = "idle"

\* A datagram arrives.
Arrive(d) ==
    /\ ~ connClosed /\ Len(socket) < SocketCap
    /\ socket' = Append(socket, d)
    /\ UNCHANGED <<flags, loop, datagram, messages, errors, received, stop>>

\* The owner's goroutine takes a message.
Taken ==
    /\ messages # <<>>
    /\ messages' = Tail(messages)
    /\ UNCHANGED <<flags, loop, datagram, socket, errors, received, stop>>

-----------------------------------------------------------------------------
(* receiveLoop.                                                             *)

Loop(from, to) == loop = from /\ loop' = to /\ UNCHANGED <<flags, stop>>

Check ==
    /\ Loop("checking", IF stopped THEN "exited" ELSE "reading")
    /\ UNCHANGED <<datagram, socket, messages, errors, received>>

\* ReadFromUDP returns a datagram, which the parser accepts or rejects; or it
\* fails, which ends the loop if the listener was stopped.
Read ==
    LET d == Head(socket) IN
    /\ ~ connClosed /\ socket # <<>>
    /\ Loop("reading", IF d \in Datagrams THEN "sending"
                       ELSE IF d = Fault /\ ~ running THEN "exited" ELSE "reporting")
    /\ socket' = Tail(socket)
    /\ datagram' = IF d \in Datagrams THEN d ELSE NoMessage
    /\ received' = IF d \in Datagrams THEN received + 1 ELSE received
    /\ UNCHANGED <<messages, errors>>

ReadClosed ==
    /\ connClosed /\ ~ running
    /\ Loop("reading", "exited")
    /\ UNCHANGED <<datagram, socket, messages, errors, received>>

\* A mutant: the send does not wait for room.
AlwaysRoom == TRUE
HasRoom == Len(messages) < MessagesCap

\* The select on messagesChan.
Send ==
    /\ HasRoom
    /\ datagram' = NoMessage
    /\ Loop("sending", "checking")
    /\ messages' = Append(messages, datagram)
    /\ UNCHANGED <<socket, errors, received>>

\* A mutant: a full messagesChan makes the loop drop the message.
SkipWhenFull ==
    /\ stopped \/ ~ HasRoom
    /\ datagram' = NoMessage
    /\ Loop("sending", IF stopped THEN "exited" ELSE "checking")
    /\ UNCHANGED <<socket, messages, errors, received>>

\* The stopChan case: the message is given up.
GiveUp ==
    /\ stopped
    /\ datagram' = NoMessage
    /\ Loop("sending", "exited")
    /\ UNCHANGED <<socket, messages, errors, received>>

\* Mutants: the loop returns after a bad datagram; it reports without a
\* select on stopChan.
ReportAndReturn ==
    /\ \/ errors < ErrorsCap /\ errors' = errors + 1
       \/ stopped /\ UNCHANGED errors
    /\ Loop("reporting", "exited")
    /\ UNCHANGED <<datagram, socket, messages, received>>
ReportOnly ==
    /\ errors < ErrorsCap /\ errors' = errors + 1
    /\ Loop("reporting", "checking")
    /\ UNCHANGED <<datagram, socket, messages, received>>

\* The select on errorsChan.
Report ==
    /\ \/ errors < ErrorsCap /\ errors' = errors + 1 /\ Loop("reporting", "checking")
       \/ stopped /\ Loop("reporting", "exited") /\ UNCHANGED errors
    /\ UNCHANGED <<datagram, socket, messages, received>>

-----------------------------------------------------------------------------
(* Stop.                                                                    *)

Stopping(from, to) ==
    /\ stop = from
    /\ stop' = to
    /\ UNCHANGED <<loop, datagram, messages, errors, received>>

StopBegin == running /\ Stopping("idle", "storing") /\ UNCHANGED <<flags, socket>>

StopStore ==
    Stopping("storing", "closingStop") /\ running' = FALSE
    /\ UNCHANGED <<stopped, connClosed, channelsClosed, socket>>

CloseStopChan ==
    Stopping("closingStop", "closingConn") /\ stopped' = TRUE
    /\ UNCHANGED <<running, connClosed, channelsClosed, socket>>

\* What the socket still holds is gone.
CloseConn ==
    Stopping("closingConn", "waiting") /\ connClosed' = TRUE /\ socket' = <<>>
    /\ UNCHANGED <<running, stopped, channelsClosed>>

\* wg.Wait.
StopWait ==
    loop = "exited" /\ Stopping("waiting", "closingChannels") /\ UNCHANGED <<flags, socket>>

CloseChannels ==
    Stopping("closingChannels", "returned") /\ channelsClosed' = TRUE
    /\ UNCHANGED <<running, stopped, connClosed, socket>>

-----------------------------------------------------------------------------
LoopStep == Check \/ Read \/ ReadClosed \/ Send \/ GiveUp \/ Report
StopStep == StopStore \/ CloseStopChan \/ CloseConn \/ StopWait \/ CloseChannels

Next ==
    \/ \E d \in Datagrams \cup {Bad, Fault} : Arrive(d)
    \/ Taken \/ LoopStep \/ StopBegin \/ StopStep

Spec == Init /\ [][Next]_vars
=============================================================================
