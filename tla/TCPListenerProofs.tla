--------------------------- MODULE TCPListenerProofs ---------------------------
(***************************************************************************)
(* Theorems about TCPListener, for any finite set of connections, any       *)
(* capacities and whether or not Errors() is read.                          *)
(***************************************************************************)
EXTENDS TCPListener, FiniteSums, SequenceTheorems

-----------------------------------------------------------------------------
(* Types.                                                                   *)

HandlerPcs == {"none", "reading", "sending", "reporting", "closing", "leaving", "done"}

FlagTypes ==
    /\ isRunning \in BOOLEAN /\ stopClosed \in BOOLEAN
    /\ listenerClosed \in BOOLEAN /\ channelsClosed \in BOOLEAN
    /\ stopper \in {"idle", "storing", "closingStop", "closingListener",
                    "closingConns", "waiting", "closingChannels", "returned"}

AcceptTypes ==
    /\ acceptor \in {"accepting", "registering", "spawning", "reporting", "exited"}
    /\ accepted \in Conns \cup {None}
    /\ acceptErrors \in 0 .. MaxAcceptErrors

ClientTypes ==
    /\ client \in [Conns -> {"away", "connected", "gone"}]
    /\ inbox \in [Conns -> Seq(Kinds)]
    /\ sent \in [Conns -> 0 .. MaxEvents]

ConnTypes ==
    /\ connections \subseteq Conns
    /\ handler \in [Conns -> HandlerPcs]
    /\ socket \in [Conns -> {"none", "open", "closed"}]

CountTypes ==
    /\ received \in Nat /\ rejected \in Nat
    /\ activeConnections \in Nat /\ totalConnections \in Nat

OutputTypes ==
    /\ messages \in Seq(Message) /\ Len(messages) <= MessagesCap
    /\ errors \in 0 .. ErrorsCap
    /\ reads \in [Conns -> Nat]
    /\ forwarded \in [Conns -> Nat]
    /\ lost \in [Conns -> Nat]

\* TypeOK by the groups of variables that operations leave alone together.
LEMMA TypeParts == TypeOK <=> /\ FlagTypes /\ AcceptTypes /\ ClientTypes
                              /\ ConnTypes /\ CountTypes /\ OutputTypes
BY DEF TypeOK, FlagTypes, AcceptTypes, ClientTypes, ConnTypes, CountTypes, OutputTypes,
       HandlerPcs

\* The same of the state after a step.
LEMMA TypePartsNext == TypeOK' <=> /\ FlagTypes' /\ AcceptTypes' /\ ClientTypes'
                                   /\ ConnTypes' /\ CountTypes' /\ OutputTypes'
BY TypeParts, PTL

\* A part of TypeOK stays true as long as its variables stay the same.
LEMMA TypesKept ==
    /\ FlagTypes /\ UNCHANGED flags => FlagTypes'
    /\ AcceptTypes /\ UNCHANGED accepts => AcceptTypes'
    /\ ClientTypes /\ UNCHANGED clients => ClientTypes'
    /\ ConnTypes /\ UNCHANGED conns => ConnTypes'
    /\ CountTypes /\ UNCHANGED counts => CountTypes'
    /\ OutputTypes /\ UNCHANGED output => OutputTypes'
BY DEF FlagTypes, AcceptTypes, ClientTypes, ConnTypes, CountTypes, OutputTypes,
       flags, accepts, clients, conns, counts, output

\* What a step of a handler does to the handlers.
LEMMA HandlingFields ==
    ASSUME ConnTypes, NEW c \in Conns, NEW from, NEW to \in HandlerPcs,
           Handling(c, from, to)
    PROVE  /\ handler' \in [Conns -> HandlerPcs]
           /\ handler[c] = from /\ handler'[c] = to
           /\ \A d \in Conns \ {c} : handler'[d] = handler[d]
           /\ UNCHANGED flags /\ UNCHANGED accepts
           /\ UNCHANGED <<client, sent, totalConnections, forwarded>>
BY DEF Handling, ConnTypes

\* A client sends no more than all of them together.
LEMMA SentBounded ==
    ASSUME ClientTypes, AcceptTypes, NEW c \in Conns, Events < MaxEvents
    PROVE  sent[c] + 1 \in 0 .. MaxEvents
<1>1. /\ DOMAIN sent = Conns /\ \A d \in Conns : sent[d] \in Nat /\ sent[d] \in Int
      /\ MaxEvents \in Nat /\ IsFiniteSet(Conns)
  BY ListenerAssumption DEF ClientTypes
<1>a. acceptErrors \in Nat
  BY ListenerAssumption DEF AcceptTypes
<1>2. IsFiniteSet(Conns \ {c})
  BY <1>1, FS_Subset
<1>3. SumFunction(sent) = SumFunctionOnSet(sent, Conns)
  BY <1>1 DEF SumFunction
<1>4. SumFunctionOnSet(sent, Conns) = sent[c] + SumFunctionOnSet(sent, Conns \ {c})
  BY <1>1, SumRemove
<1>5. SumFunctionOnSet(sent, Conns \ {c}) \in Nat
  BY <1>1, <1>2, SumType
<1>6. sent[c] \in Nat
  BY <1>1
<1> QED BY <1>1, <1>a, <1>3, <1>4, <1>5, <1>6 DEF Events

-----------------------------------------------------------------------------
(* The inductive invariant.                                                 *)

\* What the flags say of the call of Stop.
Shutdown ==
    /\ isRunning <=> stopper \in {"idle", "storing"}
    /\ stopClosed <=> stopper \notin {"idle", "storing", "closingStop"}
    /\ listenerClosed <=>
         stopper \in {"closingConns", "waiting", "closingChannels", "returned"}
    /\ channelsClosed <=> stopper = "returned"
    /\ stopper \in {"closingChannels", "returned"} => AllEnded

\* What is known of a socket before, during and after its handler's life.
Sockets ==
    /\ accepted # None <=> acceptor \in {"registering", "spawning"}
    /\ accepted # None => handler[accepted] = "none" /\ socket[accepted] # "none"
    /\ \A c \in Conns :
          /\ socket[c] = "none" => handler[c] = "none"
          /\ client[c] = "away" => socket[c] = "none"
          /\ handler[c] \in {"leaving", "done"} => socket[c] = "closed"
          /\ listenerClosed /\ handler[c] = "none" /\ accepted # c => socket[c] # "open"

LiveConns    == {c \in Conns : Live(c)}
StartedConns == {c \in Conns : handler[c] # "none"}

\* NoMessageLost, and more precisely when a message may be given up.
Deliveries ==
    /\ received = SumFunction(reads)
    /\ \A c \in Conns :
          /\ reads[c] = forwarded[c] + Cardinality(Buffered(c, Len(messages)))
                          + (IF handler[c] = "sending" THEN 1 ELSE 0) + lost[c]
          /\ lost[c] > 0 => /\ lost[c] = 1 /\ stopClosed
                            /\ handler[c] \in {"closing", "leaving", "done"}

\* Types are kept by every step; a connection that is counted off is a live one.
LEMMA TypeStep == TypeOK /\ Sockets /\ ConnectionsTracked /\ [Next]_vars => TypeOK'
<1> SUFFICES ASSUME TypeOK, Sockets, ConnectionsTracked, [Next]_vars PROVE TypeOK'
  OBVIOUS
<1> USE TypeParts, TypePartsNext
<1>0. /\ FlagTypes /\ AcceptTypes /\ ClientTypes /\ ConnTypes /\ CountTypes /\ OutputTypes
  OBVIOUS
<1>1. ASSUME NEW c \in Conns, Connect(c) PROVE TypeOK'
  <2>1. ClientTypes' /\ ConnTypes'
    BY <1>0, <1>1 DEF Connect, ClientTypes, ConnTypes
  <2> QED BY <1>0, <1>1, <2>1, TypesKept DEF Connect
<1>2. ASSUME NEW c \in Conns, Disconnect(c) PROVE TypeOK'
  <2>1. ClientTypes'
    BY <1>0, <1>2 DEF Disconnect, ClientTypes
  <2> QED BY <1>0, <1>2, <2>1, TypesKept DEF Disconnect
<1>3. ASSUME NEW c \in Conns, NEW kind \in Kinds, SendLine(c, kind) PROVE TypeOK'
  <2>1. sent[c] + 1 \in 0 .. MaxEvents
    BY <1>0, <1>3, SentBounded DEF SendLine
  <2>2. Append(inbox[c], kind) \in Seq(Kinds)
    BY <1>0 DEF ClientTypes
  <2>3. ClientTypes'
    BY <1>0, <1>3, <2>1, <2>2 DEF SendLine, ClientTypes
  <2> QED BY <1>0, <1>3, <2>3, TypesKept DEF SendLine
<1>4. CASE Forward
  <2>1. /\ Head(messages) \in Message /\ Tail(messages) \in Seq(Message)
        /\ Len(Tail(messages)) = Len(messages) - 1 /\ Len(messages) \in Nat
    BY <1>0, <1>4, HeadTailProperties, LenProperties DEF Forward, OutputTypes
  <2>2. Head(messages).conn \in Conns /\ Head(messages).number \in Nat
    BY <2>1 DEF Message
  <2>3. OutputTypes'
    BY <1>0, <1>4, <2>1, <2>2, ListenerAssumption DEF Forward, OutputTypes
  <2> QED BY <1>0, <1>4, <2>3, TypesKept DEF Forward
<1>5. CASE ReadError
  <2>1. OutputTypes'
    BY <1>0, <1>5, ListenerAssumption DEF ReadError, OutputTypes
  <2> QED BY <1>0, <1>5, <2>1, TypesKept DEF ReadError
<1>6. ASSUME NEW c \in Conns, Accept(c) PROVE TypeOK'
  <2>1. AcceptTypes' /\ CountTypes' /\ OutputTypes'
    BY <1>0, <1>6 DEF Accept, Accepting, AcceptTypes, CountTypes, OutputTypes, gauges
  <2> QED BY <1>0, <1>6, <2>1, TypesKept DEF Accept, Accepting
<1>7. CASE AcceptStopped
  <2>1. AcceptTypes' /\ CountTypes' /\ OutputTypes'
    BY <1>0, <1>7 DEF AcceptStopped, Accepting, AcceptTypes, CountTypes, OutputTypes, gauges
  <2> QED BY <1>0, <1>7, <2>1, TypesKept DEF AcceptStopped, Accepting
<1>8. CASE AcceptFails
  <2>1. AcceptTypes' /\ CountTypes' /\ OutputTypes'
    BY <1>0, <1>8, ListenerAssumption
       DEF AcceptFails, Accepting, AcceptTypes, CountTypes, OutputTypes, gauges
  <2> QED BY <1>0, <1>8, <2>1, TypesKept DEF AcceptFails, Accepting
<1>9. CASE ReportAccept
  <2>1. AcceptTypes' /\ CountTypes' /\ OutputTypes'
    BY <1>0, <1>9, ListenerAssumption
       DEF ReportAccept, Accepting, AcceptTypes, CountTypes, OutputTypes, gauges
  <2> QED BY <1>0, <1>9, <2>1, TypesKept DEF ReportAccept, Accepting
<1>10. CASE Register
  <2>1. accepted \in Conns
    BY <1>0, <1>10 DEF Register, Accepting, Sockets, AcceptTypes
  <2>2. AcceptTypes' /\ ConnTypes' /\ CountTypes' /\ OutputTypes'
    BY <1>0, <1>10, <2>1
       DEF Register, Accepting, AcceptTypes, ConnTypes, CountTypes, OutputTypes, gauges
  <2> QED BY <1>0, <1>10, <2>2, TypesKept DEF Register, Accepting
<1>11. CASE Spawn
  <2>1. AcceptTypes' /\ CountTypes'
    BY <1>0, <1>11 DEF Spawn, Accepting, AcceptTypes, CountTypes
  <2>2. ConnTypes'
    BY <1>0, <1>11 DEF Spawn, ConnTypes, HandlerPcs
  <2>3. UNCHANGED output
    BY <1>11 DEF Spawn, Accepting, output
  <2> QED BY <1>0, <1>11, <2>1, <2>2, <2>3, TypesKept DEF Spawn, Accepting
<1>12. ASSUME NEW c \in Conns, HandlerStep(c) PROVE TypeOK'
  <2>0. \A to, from : to \in HandlerPcs /\ Handling(c, from, to) =>
            /\ FlagTypes' /\ AcceptTypes' /\ handler' \in [Conns -> HandlerPcs]
            /\ handler[c] = from
            /\ UNCHANGED <<client, sent, totalConnections, forwarded>>
    BY <1>0, HandlingFields, TypesKept
  <2>1. inbox[c] # <<>> => Tail(inbox[c]) \in Seq(Kinds)
    BY <1>0, HeadTailProperties DEF ClientTypes
  <2>2. CASE ReadGood(c) \/ ReadBad(c)
    <3>1. PICK to \in HandlerPcs : Handling(c, "reading", to)
      BY <2>2 DEF ReadGood, ReadBad, HandlerPcs
    <3>2. handler' \in [Conns -> HandlerPcs]
          /\ UNCHANGED <<client, sent, totalConnections, forwarded>>
      BY <2>0, <3>1
    <3>3. /\ inbox' = [inbox EXCEPT ![c] = Tail(@)] /\ Tail(inbox[c]) \in Seq(Kinds)
          /\ UNCHANGED <<connections, socket, messages, errors, lost, activeConnections>>
      BY <2>1, <2>2 DEF ReadGood, ReadBad
    <3>4. /\ received' \in Nat /\ rejected' \in Nat
          /\ reads' \in [Conns -> Nat]
      <4>1. received \in Nat /\ rejected \in Nat /\ reads \in [Conns -> Nat] /\ reads[c] \in Nat
        BY <1>0 DEF CountTypes, OutputTypes
      <4>2. CASE ReadGood(c)
        BY <4>1, <4>2 DEF ReadGood
      <4>3. CASE ReadBad(c)
        BY <4>1, <4>3 DEF ReadBad
      <4> QED BY <2>2, <4>2, <4>3
    <3>5. ClientTypes' /\ ConnTypes'
      BY <1>0, <3>2, <3>3 DEF ClientTypes, ConnTypes
    <3>6. CountTypes' /\ OutputTypes'
      BY <1>0, <3>2, <3>3, <3>4 DEF CountTypes, OutputTypes
    <3> QED BY <2>0, <3>1, <3>5, <3>6
  <2>3. CASE ScanEnds(c)
    <3>1. Handling(c, "reading", "closing") /\ "closing" \in HandlerPcs
      BY <2>3 DEF ScanEnds, HandlerPcs
    <3>2. ClientTypes' /\ ConnTypes' /\ CountTypes' /\ OutputTypes'
      BY <1>0, <2>0, <2>3, <3>1
         DEF ScanEnds, ClientTypes, ConnTypes, CountTypes, OutputTypes
    <3> QED BY <2>0, <3>1, <3>2
  <2>4. CASE SendMessage(c)
    <3>1. Handling(c, "sending", "reading") /\ "reading" \in HandlerPcs
      BY <2>4 DEF SendMessage, HandlerPcs
    <3>2. [conn |-> c, number |-> reads[c]] \in Message
      BY <1>0 DEF OutputTypes, Message
    <3>3. messages' \in Seq(Message) /\ Len(messages') <= MessagesCap
      BY <1>0, <2>4, <3>2, AppendProperties, LenProperties, ListenerAssumption
         DEF SendMessage, HasRoom, OutputTypes
    <3>4. ClientTypes' /\ ConnTypes' /\ CountTypes' /\ OutputTypes'
      BY <1>0, <2>0, <2>4, <3>1, <3>3
         DEF SendMessage, ClientTypes, ConnTypes, CountTypes, OutputTypes
    <3> QED BY <2>0, <3>1, <3>4
  <2>5. CASE GiveUpMessage(c)
    <3>1. Handling(c, "sending", "closing") /\ "closing" \in HandlerPcs
      BY <2>5 DEF GiveUpMessage, HandlerPcs
    <3>2. handler' \in [Conns -> HandlerPcs]
          /\ UNCHANGED <<client, sent, totalConnections, forwarded>>
      BY <2>0, <3>1
    <3>3. ClientTypes' /\ ConnTypes' /\ CountTypes'
      BY <1>0, <2>5, <3>2 DEF GiveUpMessage, ClientTypes, ConnTypes, CountTypes
    <3>4. OutputTypes'
      BY <1>0, <2>5, <3>2 DEF GiveUpMessage, OutputTypes
    <3> QED BY <2>0, <3>1, <3>3, <3>4
  <2>6. CASE ReportLine(c)
    <3>1. PICK to \in HandlerPcs : Handling(c, "reporting", to)
      BY <2>6 DEF ReportLine, HandlerPcs
    <3>2. errors' \in 0 .. ErrorsCap
      BY <1>0, <2>6, ListenerAssumption DEF ReportLine, HasErrorRoom, OutputTypes
    <3>3. ClientTypes' /\ ConnTypes' /\ CountTypes' /\ OutputTypes'
      BY <1>0, <2>0, <2>6, <3>1, <3>2
         DEF ReportLine, ClientTypes, ConnTypes, CountTypes, OutputTypes
    <3> QED BY <2>0, <3>1, <3>3
  <2>7. CASE CloseConn(c)
    <3>1. Handling(c, "closing", "leaving") /\ "leaving" \in HandlerPcs
      BY <2>7 DEF CloseConn, HandlerPcs
    <3>2. ClientTypes' /\ ConnTypes' /\ CountTypes' /\ OutputTypes'
      BY <1>0, <2>0, <2>7, <3>1
         DEF CloseConn, Without, ClientTypes, ConnTypes, CountTypes, OutputTypes
    <3> QED BY <2>0, <3>1, <3>2
  <2>8. CASE LeaveHandler(c)
    <3>1. Handling(c, "leaving", "done") /\ "done" \in HandlerPcs
      BY <2>8 DEF LeaveHandler, HandlerPcs
    <3>2. c \in LiveConns
      BY <2>0, <3>1 DEF LiveConns, Live
    <3>3. activeConnections = Cardinality(LiveConns) /\ IsFiniteSet(LiveConns)
      BY FS_Subset, ListenerAssumption DEF ConnectionsTracked, LiveConns
    <3>4. activeConnections - 1 \in Nat
      BY <3>2, <3>3, FS_EmptySet, FS_CardinalityType
    <3>5. ClientTypes' /\ ConnTypes' /\ CountTypes' /\ OutputTypes'
      BY <1>0, <2>0, <2>8, <3>1, <3>4
         DEF LeaveHandler, ClientTypes, ConnTypes, CountTypes, OutputTypes
    <3> QED BY <2>0, <3>1, <3>5
  <2> QED BY <1>12, <2>2, <2>3, <2>4, <2>5, <2>6, <2>7, <2>8 DEF HandlerStep
<1>13. CASE StopBegin \/ StopStep
  <2>1. UNCHANGED <<accepts, clients, connections, handler, counts, output>>
    BY <1>13 DEF StopBegin, StopStep, StopStore, CloseStopChan, CloseListener, CloseConns,
                 StopWait, CloseChannels, Stopping
  <2>2. FlagTypes'
    BY <1>0, <1>13
       DEF StopBegin, StopStep, StopStore, CloseStopChan, CloseListener, CloseConns,
           StopWait, CloseChannels, Stopping, FlagTypes
  <2>3. socket' \in [Conns -> {"none", "open", "closed"}]
    BY <1>0, <1>13
       DEF StopBegin, StopStep, StopStore, CloseStopChan, CloseListener, CloseConns,
           StopWait, CloseChannels, ConnTypes
  <2>4. ConnTypes'
    BY <1>0, <2>1, <2>3 DEF ConnTypes
  <2> QED BY <1>0, <2>1, <2>2, <2>4, TypesKept
<1>14. CASE UNCHANGED vars
  BY <1>0, <1>14, TypesKept DEF vars
<1> QED
  BY <1>1, <1>2, <1>3, <1>4, <1>5, <1>6, <1>7, <1>8, <1>9, <1>10, <1>11, <1>12, <1>13, <1>14
     DEF Next, AcceptLoopStep

\* What a step of a handler does to the handlers, the sockets and the map.
LEMMA HandlerMoves ==
    ASSUME TypeOK, NEW c \in Conns, HandlerStep(c)
    PROVE  /\ UNCHANGED <<flags, accepts, client, totalConnections, forwarded>>
           /\ Live(c) /\ handler'[c] # "none" /\ handler' \in [Conns -> HandlerPcs]
           /\ \A d \in Conns \ {c} : handler'[d] = handler[d] /\ socket'[d] = socket[d]
           /\ handler[c] = "closing" => /\ handler'[c] = "leaving" /\ socket'[c] = "closed"
                                        /\ connections' = connections \ {c}
           /\ handler[c] # "closing" => /\ handler'[c] # "leaving" /\ socket'[c] = socket[c]
                                        /\ connections' = connections
           /\ handler[c] = "leaving" => /\ handler'[c] = "done"
                                        /\ activeConnections' = activeConnections - 1
           /\ handler[c] # "leaving" => /\ handler'[c] # "done"
                                        /\ activeConnections' = activeConnections
<1>0. ConnTypes
  BY TypeParts
<1>1. \A to, from : to \in HandlerPcs /\ Handling(c, from, to) =>
          /\ handler' \in [Conns -> HandlerPcs] /\ handler[c] = from /\ handler'[c] = to
          /\ \A d \in Conns \ {c} : handler'[d] = handler[d]
          /\ UNCHANGED <<flags, accepts, client, totalConnections, forwarded>>
  BY <1>0, HandlingFields
<1>2. CASE CloseConn(c)
  <2>1. Handling(c, "closing", "leaving") /\ "leaving" \in HandlerPcs
    BY <1>2 DEF CloseConn, HandlerPcs
  <2>2. /\ socket'[c] = "closed" /\ \A d \in Conns \ {c} : socket'[d] = socket[d]
        /\ connections' = connections \ {c} /\ activeConnections' = activeConnections
    BY <1>0, <1>2 DEF CloseConn, Without, ConnTypes
  <2> QED BY <1>1, <2>1, <2>2 DEF Live
<1>3. CASE LeaveHandler(c)
  <2>1. Handling(c, "leaving", "done") /\ "done" \in HandlerPcs
    BY <1>3 DEF LeaveHandler, HandlerPcs
  <2>2. /\ UNCHANGED <<socket, connections>> /\ activeConnections' = activeConnections - 1
    BY <1>3 DEF LeaveHandler
  <2> QED BY <1>1, <2>1, <2>2 DEF Live
<1>4. CASE ~ (CloseConn(c) \/ LeaveHandler(c))
  <2>1. PICK from, to : /\ from \in {"reading", "sending", "reporting"}
                        /\ to \in {"reading", "sending", "reporting", "closing"}
                        /\ Handling(c, from, to)
    BY <1>4 DEF HandlerStep, ReadGood, ReadBad, ScanEnds, SendMessage, GiveUpMessage, ReportLine
  <2>2. UNCHANGED <<socket, connections, activeConnections>>
    BY <1>4 DEF HandlerStep, ReadGood, ReadBad, ScanEnds, SendMessage, GiveUpMessage, ReportLine
  <2>3. to \in HandlerPcs
    BY <2>1 DEF HandlerPcs
  <2>4. /\ handler[c] = from /\ handler'[c] = to
    BY <1>1, <2>1, <2>3
  <2> QED BY <1>1, <2>1, <2>2, <2>3, <2>4 DEF Live
<1> QED BY <1>2, <1>3, <1>4

\* What a step of the accept loop leaves alone, and that it is still there.
LEMMA AcceptMoves ==
    ASSUME AcceptLoopStep \/ AcceptFails
    PROVE  /\ acceptor # "exited"
           /\ UNCHANGED <<flags, clients, received, rejected, messages, reads, forwarded, lost,
                          socket>>
BY DEF AcceptLoopStep, AcceptFails, Accept, AcceptStopped, ReportAccept, Register, Spawn,
       Accepting, conns

\* What a step of Stop leaves alone.
LEMMA StopMoves ==
    ASSUME StopBegin \/ StopStep
    PROVE  UNCHANGED <<accepts, clients, connections, handler, counts, output>>
BY DEF StopBegin, StopStep, StopStore, CloseStopChan, CloseListener, CloseConns,
       StopWait, CloseChannels, Stopping

\* What a step of the clients or of the owner leaves alone.
LEMMA OutsideMoves ==
    ASSUME \/ \E c \in Conns : \/ Connect(c) \/ Disconnect(c)
                               \/ \E kind \in Kinds : SendLine(c, kind)
           \/ Forward \/ ReadError \/ UNCHANGED vars
    PROVE  UNCHANGED <<flags, accepts, connections, handler, counts, reads, lost>>
BY DEF Connect, Disconnect, SendLine, Forward, ReadError, vars, conns, output

\* Every step is one of a handler, of the accept loop, of Stop, or from outside.
LEMMA Steps ==
    ASSUME [Next]_vars
    PROVE  \/ \E c \in Conns : HandlerStep(c)
           \/ AcceptLoopStep \/ AcceptFails
           \/ StopBegin \/ StopStep
           \/ \E c \in Conns : \/ Connect(c) \/ Disconnect(c)
                               \/ \E kind \in Kinds : SendLine(c, kind)
           \/ Forward \/ ReadError \/ UNCHANGED vars
BY DEF Next

-----------------------------------------------------------------------------
(* Stopping.                                                                *)

\* A listener starts before its shutdown.
LEMMA ShutdownInit == Init => Shutdown
BY DEF Init, Shutdown

\* Every step keeps the order of the shutdown.
LEMMA ShutdownStep == TypeOK /\ Shutdown /\ [Next]_vars => Shutdown'
<1> SUFFICES ASSUME TypeOK, Shutdown, [Next]_vars PROVE Shutdown'
  OBVIOUS
<1>1. ASSUME NEW c \in Conns, HandlerStep(c) PROVE Shutdown'
  <2>1. UNCHANGED flags /\ ~ AllEnded
    BY <1>1, HandlerMoves DEF AllEnded
  <2> QED BY <2>1 DEF Shutdown, flags
<1>2. CASE AcceptLoopStep \/ AcceptFails
  <2>1. UNCHANGED flags /\ ~ AllEnded
    BY <1>2, AcceptMoves DEF AllEnded
  <2> QED BY <2>1 DEF Shutdown, flags
<1>3. CASE StopBegin \/ StopStep
  <2>1. AllEnded' <=> AllEnded
    BY <1>3, StopMoves DEF AllEnded, Live, accepts
  <2> QED
    BY <1>3, <2>1 DEF Shutdown, StopBegin, StopStep, StopStore, CloseStopChan, CloseListener,
                      CloseConns, StopWait, CloseChannels, Stopping
<1>4. CASE \/ \E c \in Conns : \/ Connect(c) \/ Disconnect(c)
                               \/ \E kind \in Kinds : SendLine(c, kind)
           \/ Forward \/ ReadError \/ UNCHANGED vars
  <2>1. UNCHANGED flags /\ (AllEnded' <=> AllEnded)
    BY <1>4, OutsideMoves DEF AllEnded, Live, accepts
  <2> QED BY <2>1 DEF Shutdown, flags
<1> QED BY <1>1, <1>2, <1>3, <1>4, Steps

-----------------------------------------------------------------------------
(* Sockets.                                                                 *)

\* No connection has a socket at first.
LEMMA SocketsInit == Init => Sockets
BY NoneAssumption DEF Init, Sockets

\* Every step keeps sockets and handlers in step.
LEMMA SocketsStep == TypeOK /\ Sockets /\ ConnectionsTracked /\ [Next]_vars => Sockets'
<1> SUFFICES ASSUME TypeOK, Sockets, ConnectionsTracked, [Next]_vars PROVE Sockets'
  OBVIOUS
<1>0. FlagTypes /\ AcceptTypes /\ ClientTypes /\ ConnTypes
  BY TypeParts
<1>1. ASSUME NEW c \in Conns, HandlerStep(c) PROVE Sockets'
  <2>1. /\ UNCHANGED <<accepted, acceptor, listenerClosed, client>>
        /\ accepted # c /\ socket[c] # "none"
    BY <1>1, HandlerMoves, NoneAssumption DEF Sockets, flags, accepts, Live
  <2>2. accepted # None => handler'[accepted] = "none" /\ socket'[accepted] # "none"
    BY <1>0, <1>1, <2>1, HandlerMoves DEF Sockets, AcceptTypes
  <2>3. \A d \in Conns \ {c} : handler'[d] = handler[d] /\ socket'[d] = socket[d]
    BY <1>1, HandlerMoves
  <2>4. /\ socket'[c] # "none" /\ handler'[c] # "none"
        /\ handler'[c] \in {"leaving", "done"} => socket'[c] = "closed"
    BY <1>1, <2>1, HandlerMoves DEF Sockets
  <2> QED BY <2>1, <2>2, <2>3, <2>4 DEF Sockets
<1>2. ASSUME NEW c \in Conns, Accept(c) PROVE Sockets'
  BY <1>0, <1>2, NoneAssumption DEF Sockets, Accept, Accepting, flags, clients, conns
<1>3. CASE AcceptStopped \/ ReportAccept \/ AcceptFails
  BY <1>3 DEF Sockets, AcceptStopped, ReportAccept, AcceptFails, Accepting, flags, clients, conns
<1>4. CASE Register
  BY <1>4 DEF Sockets, Register, Accepting, flags, clients
<1>5. CASE Spawn
  <2>1. accepted \in Conns /\ accepted' = None /\ acceptor' = "accepting"
    BY <1>0, <1>5 DEF Sockets, Spawn, Accepting, AcceptTypes
  <2>2. /\ handler'[accepted] = "reading"
        /\ \A d \in Conns \ {accepted} : handler'[d] = handler[d]
        /\ UNCHANGED <<socket, client, listenerClosed>>
    BY <1>0, <1>5, <2>1 DEF Spawn, Accepting, ConnTypes, flags, clients
  <2> QED BY <2>1, <2>2, NoneAssumption DEF Sockets
<1>6. CASE CloseListener
  <2>1. /\ \A c \in Conns : socket'[c] = "none" => socket[c] = "none"
        /\ \A c \in Conns : socket[c] \in {"none", "closed"} => socket'[c] = socket[c]
        /\ \A c \in Conns : handler[c] = "none" /\ accepted # c => socket'[c] # "open"
    BY <1>6 DEF CloseListener
  <2>2. UNCHANGED <<accepted, acceptor, client, handler>>
    BY <1>6 DEF CloseListener, Stopping, accepts, clients
  <2>3. accepted # None => socket'[accepted] # "none"
    BY <1>0, <2>1 DEF Sockets, AcceptTypes
  <2> QED BY <2>1, <2>2, <2>3 DEF Sockets
<1>7. CASE CloseConns
  <2>1. \A c \in Conns : socket'[c] \in {socket[c], "closed"}
    BY <1>7 DEF CloseConns
  <2>2. UNCHANGED <<accepted, acceptor, client, handler, listenerClosed>>
    BY <1>7 DEF CloseConns, Stopping, accepts, clients
  <2>3. accepted # None => socket'[accepted] # "none"
    BY <1>0, <2>1 DEF Sockets, AcceptTypes
  <2>4. \A c \in Conns : client[c] = "away" => socket'[c] = "none"
    <3>1. \A c \in connections : socket[c] # "none"
      BY DEF ConnectionsTracked, Sockets
    <3> QED BY <1>7, <3>1 DEF CloseConns, Sockets
  <2> QED BY <2>1, <2>2, <2>3, <2>4 DEF Sockets
<1>8. CASE StopBegin \/ StopStore \/ CloseStopChan \/ StopWait \/ CloseChannels
  BY <1>8 DEF Sockets, StopBegin, StopStore, CloseStopChan, StopWait, CloseChannels, Stopping,
              accepts, clients
<1>9. ASSUME NEW c \in Conns, Connect(c) PROVE Sockets'
  <2>1. /\ socket[c] = "none" /\ handler[c] = "none" /\ accepted # c /\ ~ listenerClosed
        /\ UNCHANGED <<accepted, acceptor, listenerClosed, handler>>
    BY <1>9, NoneAssumption DEF Sockets, Connect, accepts, flags
  <2>2. /\ client'[c] = "connected" /\ socket'[c] = "open"
        /\ \A d \in Conns \ {c} : client'[d] = client[d] /\ socket'[d] = socket[d]
    BY <1>0, <1>9 DEF Connect, ClientTypes, ConnTypes
  <2>3. accepted # None => socket'[accepted] # "none"
    BY <1>0, <2>1, <2>2 DEF Sockets, AcceptTypes
  <2> QED BY <2>1, <2>2, <2>3 DEF Sockets
<1>10. ASSUME NEW c \in Conns, Disconnect(c) PROVE Sockets'
  <2>1. /\ UNCHANGED <<accepted, acceptor, listenerClosed, handler, socket>>
        /\ \A d \in Conns : client'[d] = "away" => client[d] = "away"
    BY <1>0, <1>10 DEF Disconnect, ClientTypes, accepts, flags, conns
  <2> QED BY <2>1 DEF Sockets
<1>11. CASE \/ \E c \in Conns, kind \in Kinds : SendLine(c, kind)
            \/ Forward \/ ReadError \/ UNCHANGED vars
  <2>1. UNCHANGED <<accepted, acceptor, listenerClosed, handler, socket, client>>
    BY <1>11 DEF SendLine, Forward, ReadError, vars, flags, accepts, clients, conns
  <2> QED BY <2>1 DEF Sockets
<1> QED
  BY <1>1, <1>2, <1>3, <1>4, <1>5, <1>6, <1>7, <1>8, <1>9, <1>10, <1>11, Steps
     DEF AcceptLoopStep, StopStep

-----------------------------------------------------------------------------
(* Counting connections.                                                    *)

\* No connection is tracked at first.
LEMMA TrackedInit == Init => ConnectionsTracked
<1> SUFFICES ASSUME Init PROVE ConnectionsTracked
  OBVIOUS
<1>1. LiveConns = {} /\ StartedConns = {} /\ Cardinality({}) = 0
  BY FS_EmptySet DEF Init, LiveConns, StartedConns, Live
<1>2. connections = {} /\ \A c \in Conns : handler[c] = "none"
  BY DEF Init
<1>3. acceptor = "accepting" /\ activeConnections = 0 /\ totalConnections = 0
  BY DEF Init
<1> QED BY <1>1, <1>2, <1>3 DEF ConnectionsTracked, LiveConns, StartedConns

\* The map, the gauge and the total after a step that leaves the handlers alone.
LEMMA TrackedKept ==
    ASSUME ConnectionsTracked, UNCHANGED <<handler, activeConnections, totalConnections>>,
           connections' =
             {c \in Conns : \/ handler[c] \in {"reading", "sending", "reporting", "closing"}
                            \/ acceptor' = "spawning" /\ c = accepted'}
    PROVE  ConnectionsTracked'
BY DEF ConnectionsTracked, Live

\* Every step keeps the tracked connections those whose handlers run.
LEMMA TrackedStep == TypeOK /\ Sockets /\ ConnectionsTracked /\ [Next]_vars => ConnectionsTracked'
<1> SUFFICES ASSUME TypeOK, Sockets, ConnectionsTracked, [Next]_vars PROVE ConnectionsTracked'
  OBVIOUS
<1>0. /\ ConnTypes /\ IsFiniteSet(LiveConns) /\ IsFiniteSet(StartedConns)
      /\ activeConnections = Cardinality(LiveConns)
      /\ totalConnections = Cardinality(StartedConns)
  BY TypeParts, FS_Subset, ListenerAssumption
     DEF ConnectionsTracked, LiveConns, StartedConns
<1>1. ASSUME NEW c \in Conns, HandlerStep(c) PROVE ConnectionsTracked'
  <2>1. /\ handler' \in [Conns -> HandlerPcs]
        /\ Live(c) /\ handler[c] \in HandlerPcs /\ handler'[c] \in HandlerPcs
        /\ handler'[c] # "none"
        /\ \A d \in Conns \ {c} : handler'[d] = handler[d]
        /\ UNCHANGED <<acceptor, accepted, totalConnections>>
    BY <1>0, <1>1, HandlerMoves DEF ConnTypes, accepts
  <2>2. LiveConns \ {c} = LiveConns' \ {c} /\ c \in LiveConns
    BY <2>1 DEF LiveConns, Live
  <2>3. c \in LiveConns' <=> handler'[c] # "done"
    BY <2>1 DEF LiveConns, Live, HandlerPcs
  <2>4. /\ c \in LiveConns' => Cardinality(LiveConns') = Cardinality(LiveConns)
        /\ c \notin LiveConns' => Cardinality(LiveConns') = Cardinality(LiveConns) - 1
    BY <1>0, <2>2, CountChange
  <2>5. activeConnections' = Cardinality(LiveConns')
    BY <1>0, <1>1, <2>3, <2>4, HandlerMoves
  <2>6. StartedConns' = StartedConns
    BY <2>1 DEF StartedConns, Live
  <2>7. accepted # c
    BY <2>1, NoneAssumption DEF Sockets, Live
  <2>8. connections' = {d \in Conns :
              \/ handler'[d] \in {"reading", "sending", "reporting", "closing"}
              \/ acceptor' = "spawning" /\ d = accepted'}
    <3>1. CASE handler[c] = "closing"
      <4>1. handler'[c] = "leaving" /\ connections' = connections \ {c}
        BY <1>1, <3>1, HandlerMoves
      <4> QED BY <2>1, <2>7, <4>1 DEF ConnectionsTracked
    <3>2. CASE handler[c] = "leaving"
      <4>1. handler'[c] = "done" /\ connections' = connections
        BY <1>1, <3>2, HandlerMoves
      <4> QED BY <2>1, <2>7, <3>2, <4>1 DEF ConnectionsTracked
    <3>3. CASE handler[c] \notin {"closing", "leaving"}
      <4>1. handler'[c] \notin {"leaving", "done"} /\ connections' = connections
        BY <1>1, <3>3, HandlerMoves
      <4> QED BY <2>1, <2>7, <3>3, <4>1 DEF ConnectionsTracked, Live, HandlerPcs
    <3> QED BY <3>1, <3>2, <3>3
  <2> QED BY <1>0, <2>1, <2>5, <2>6, <2>8 DEF ConnectionsTracked, LiveConns, StartedConns
<1>2. CASE \/ \E c \in Conns : Accept(c)
           \/ AcceptStopped \/ ReportAccept \/ AcceptFails
  <2>1. acceptor # "spawning" /\ acceptor' # "spawning"
    BY <1>2 DEF Accept, AcceptStopped, ReportAccept, AcceptFails, Accepting
  <2>2. UNCHANGED <<handler, activeConnections, totalConnections, connections>>
    BY <1>2 DEF Accept, AcceptStopped, ReportAccept, AcceptFails, gauges, conns
  <2> QED BY <2>1, <2>2, TrackedKept DEF ConnectionsTracked
<1>3. CASE Register
  <2>1. /\ acceptor = "registering" /\ acceptor' = "spawning" /\ accepted' = accepted
        /\ connections' = connections \cup {accepted}
        /\ UNCHANGED <<handler, activeConnections, totalConnections>>
    BY <1>3 DEF Register, Accepting, gauges
  <2>2. accepted \in Conns
    BY <2>1, TypeParts DEF Sockets, AcceptTypes
  <2>3. connections = {c \in Conns : handler[c] \in {"reading", "sending", "reporting", "closing"}}
    BY <2>1 DEF ConnectionsTracked
  <2>4. connections' =
             {c \in Conns : \/ handler[c] \in {"reading", "sending", "reporting", "closing"}
                            \/ acceptor' = "spawning" /\ c = accepted'}
    BY <2>1, <2>2, <2>3
  <2> QED BY <2>1, <2>4, TrackedKept
<1>4. CASE Spawn
  <2>1. /\ acceptor = "spawning" /\ acceptor' = "accepting" /\ connections' = connections
        /\ activeConnections' = activeConnections + 1
        /\ totalConnections' = totalConnections + 1
    BY <1>4 DEF Spawn, Accepting
  <2>2. accepted \in Conns /\ handler[accepted] = "none"
    BY <2>1, TypeParts DEF Sockets, AcceptTypes
  <2>3. /\ handler'[accepted] = "reading"
        /\ \A d \in Conns \ {accepted} : handler'[d] = handler[d]
    BY <1>0, <1>4, <2>2 DEF Spawn, ConnTypes
  <2>4. /\ LiveConns \ {accepted} = LiveConns' \ {accepted}
        /\ accepted \notin LiveConns /\ accepted \in LiveConns'
        /\ StartedConns \ {accepted} = StartedConns' \ {accepted}
        /\ accepted \notin StartedConns /\ accepted \in StartedConns'
    BY <2>2, <2>3 DEF LiveConns, StartedConns, Live
  <2>5. /\ Cardinality(LiveConns') = Cardinality(LiveConns) + 1
        /\ Cardinality(StartedConns') = Cardinality(StartedConns) + 1
    BY <1>0, <2>4, CountChange
  <2>6. connections' = {c \in Conns :
              \/ handler'[c] \in {"reading", "sending", "reporting", "closing"}
              \/ acceptor' = "spawning" /\ c = accepted'}
    BY <2>1, <2>2, <2>3 DEF ConnectionsTracked
  <2> QED BY <1>0, <2>1, <2>5, <2>6 DEF ConnectionsTracked, LiveConns, StartedConns
<1>5. CASE StopBegin \/ StopStep
  <2>1. UNCHANGED <<acceptor, accepted, handler, activeConnections, totalConnections,
                    connections>>
    BY <1>5, StopMoves DEF accepts, counts
  <2> QED BY <2>1, TrackedKept DEF ConnectionsTracked
<1>6. CASE \/ \E c \in Conns : \/ Connect(c) \/ Disconnect(c)
                               \/ \E kind \in Kinds : SendLine(c, kind)
           \/ Forward \/ ReadError \/ UNCHANGED vars
  <2>1. UNCHANGED <<acceptor, accepted, handler, activeConnections, totalConnections,
                    connections>>
    BY <1>6, OutsideMoves DEF accepts, counts
  <2> QED BY <2>1, TrackedKept DEF ConnectionsTracked
<1> QED BY <1>1, <1>2, <1>3, <1>4, <1>5, <1>6, Steps DEF AcceptLoopStep

\* Types, sockets and counters support each other.
LEMMA Tracked ==
    Spec => [](TypeOK /\ Shutdown /\ Sockets /\ ConnectionsTracked)
<1>1. ASSUME Init PROVE TypeOK
  <2>1. FlagTypes
    BY <1>1 DEF Init, FlagTypes
  <2>5. AcceptTypes
    BY <1>1, ListenerAssumption DEF Init, AcceptTypes
  <2>2. ConnTypes /\ CountTypes
    BY <1>1 DEF Init, ConnTypes, CountTypes, HandlerPcs
  <2>3. ClientTypes
    BY <1>1, ListenerAssumption, EmptySeq DEF Init, ClientTypes
  <2>4. OutputTypes
    BY <1>1, ListenerAssumption, EmptySeq DEF Init, OutputTypes
  <2> QED BY <2>1, <2>2, <2>3, <2>4, <2>5, TypeParts
<1>2. Init => TypeOK /\ Shutdown /\ Sockets /\ ConnectionsTracked
  BY <1>1, ShutdownInit, SocketsInit, TrackedInit
<1>3. TypeOK /\ Shutdown /\ Sockets /\ ConnectionsTracked /\ [Next]_vars
        => (TypeOK /\ Shutdown /\ Sockets /\ ConnectionsTracked)'
  BY TypeStep, ShutdownStep, SocketsStep, TrackedStep
<1> QED BY <1>2, <1>3, PTL DEF Spec

\* Every goroutine is at a point of its code, the channels never hold more than
\* their capacity, and no gauge is negative.
THEOREM TypeCorrect == Spec => []TypeOK
BY Tracked, PTL

\* However connections, handlers and Stop interleave, the gauge counts the
\* handlers that run and the map holds what Stop has to close.
THEOREM ConnectionsTrackedCorrect == Spec => []ConnectionsTracked
BY Tracked, PTL

\* When Stop has closed the output channels nobody is left who could send.
THEOREM NobodyLeftToSendCorrect == Spec => []NobodyLeftToSend
<1>1. ASSUME TypeOK, Shutdown, Sockets, ConnectionsTracked PROVE NobodyLeftToSend
  <2> SUFFICES ASSUME channelsClosed PROVE NobodyLeftToSend
    BY DEF NobodyLeftToSend
  <2>1. AllEnded /\ listenerClosed
    BY <1>1 DEF Shutdown
  <2>2. acceptor = "exited" /\ accepted = None
    BY <1>1, <2>1 DEF AllEnded, Sockets
  <2>3. \A c \in Conns : handler[c] \in {"none", "done"} /\ accepted # c
    BY <1>1, <2>1, <2>2, NoneAssumption, TypeParts DEF AllEnded, Live, ConnTypes, HandlerPcs
  <2>4. \A c \in Conns : socket[c] # "open"
    BY <1>1, <2>1, <2>3 DEF Sockets
  <2>5. LiveConns = {} /\ activeConnections = 0
    BY <1>1, <2>1, FS_EmptySet DEF ConnectionsTracked, LiveConns, AllEnded
  <2>6. connections = {}
    BY <1>1, <2>2, <2>3 DEF ConnectionsTracked
  <2> QED BY <2>1, <2>2, <2>4, <2>5, <2>6 DEF NobodyLeftToSend, AllEnded
<1> QED BY <1>1, Tracked, PTL

-----------------------------------------------------------------------------
(* Counting messages.                                                       *)

\* The messages of connection c in the first i places of s.
OfConn(s, c, i) == {j \in 1 .. i : s[j].conn = c}

\* t begins with the first n of s; the first n of t come second in s.
Extends(t, s, n) == \A j \in 1 .. n : t[j] = s[j]
Shifted(t, s, n) == \A j \in 1 .. n : t[j] = s[j + 1]

\* The messages of a connection in the channel are finitely many places.
LEMMA OfConnFinite ==
    ASSUME NEW s, NEW c, NEW i \in Nat
    PROVE  IsFiniteSet(OfConn(s, c, i)) /\ Cardinality(OfConn(s, c, i)) \in Nat
<1>1. IsFiniteSet(1 .. i)
  BY FS_Interval
<1> QED BY <1>1, FS_Subset, FS_CardinalityType DEF OfConn

\* One more message at the end.
LEMMA OfConnAppend ==
    ASSUME NEW s, NEW t, NEW n \in Nat, Extends(t, s, n), NEW c
    PROVE  /\ \A i \in 1 .. n : OfConn(t, c, i) = OfConn(s, c, i)
           /\ t[n + 1].conn = c =>
                Cardinality(OfConn(t, c, n + 1)) = Cardinality(OfConn(s, c, n)) + 1
           /\ t[n + 1].conn # c =>
                Cardinality(OfConn(t, c, n + 1)) = Cardinality(OfConn(s, c, n))
<1>1. \A i \in 1 .. n : OfConn(t, c, i) = OfConn(s, c, i)
  BY DEF OfConn, Extends
<1>2. OfConn(s, c, n) \ {n + 1} = OfConn(t, c, n + 1) \ {n + 1}
  BY DEF OfConn, Extends
<1>3. /\ n + 1 \notin OfConn(s, c, n)
      /\ n + 1 \in OfConn(t, c, n + 1) <=> t[n + 1].conn = c
  BY DEF OfConn
<1> QED BY <1>1, <1>2, <1>3, OfConnFinite, CountChange

\* One message less at the front.
LEMMA OfConnTail ==
    ASSUME NEW s, NEW t, NEW i \in Nat, Shifted(t, s, i), NEW c
    PROVE  /\ s[1].conn = c =>
                Cardinality(OfConn(t, c, i)) = Cardinality(OfConn(s, c, i + 1)) - 1
           /\ s[1].conn # c =>
                Cardinality(OfConn(t, c, i)) = Cardinality(OfConn(s, c, i + 1))
<1> DEFINE A == OfConn(t, c, i)
           B == OfConn(s, c, i + 1) \ {1}
           f == [j \in A |-> j + 1]
<1>1. f \in Bijection(A, B)
  <2>1. \A j \in A : j + 1 \in B
    BY DEF OfConn, Shifted
  <2>2. \A k \in B : k - 1 \in A /\ k = (k - 1) + 1
    BY DEF OfConn, Shifted
  <2>3. f \in Injection(A, B)
    <3>1. \A j, k \in A : f[j] = f[k] => j = k
      BY DEF OfConn
    <3>2. f \in [A -> B]
      BY <2>1
    <3> QED BY <3>1, <3>2 DEF Injection, IsInjective
  <2>4. f \in Surjection(A, B)
    <3>1. \A k \in B : \E j \in A : f[j] = k
      BY <2>2
    <3>2. f \in [A -> B]
      BY <2>1
    <3> QED BY <3>1, <3>2 DEF Surjection
  <2> QED BY <2>3, <2>4 DEF Bijection
<1>2. IsFiniteSet(A) /\ IsFiniteSet(OfConn(s, c, i + 1))
  BY OfConnFinite
<1>3. Cardinality(B) = Cardinality(A)
  BY <1>1, <1>2, FS_Bijection DEF ExistsBijection
<1>4. OfConn(s, c, i + 1) \ {1} = B \ {1} /\ 1 \notin B
  OBVIOUS
<1>5. 1 \in OfConn(s, c, i + 1) <=> s[1].conn = c
  BY DEF OfConn
<1> HIDE DEF A, B, f
<1>6. /\ s[1].conn = c => Cardinality(B) = Cardinality(OfConn(s, c, i + 1)) - 1
      /\ s[1].conn # c => Cardinality(B) = Cardinality(OfConn(s, c, i + 1))
  BY <1>2, <1>4, <1>5, CountChange
<1> QED BY <1>3, <1>6 DEF A

\* What messagesChan holds of connection c.
InChannel(c) == Cardinality(OfConn(messages, c, Len(messages)))

\* What a connection owes: the message its handler is about to send.
Owed(c) == IF handler[c] = "sending" THEN 1 ELSE 0

\* The same as NoMessageLost and ConnectionOrderKept in these terms.
Balance(c) ==
    /\ reads[c] = forwarded[c] + InChannel(c) + Owed(c) + lost[c]
    /\ lost[c] > 0 => /\ lost[c] = 1 /\ stopClosed
                      /\ handler[c] \in {"closing", "leaving", "done"}

Numbered ==
    \A i \in 1 .. Len(messages) :
        messages[i].number = forwarded[messages[i].conn]
                               + Cardinality(OfConn(messages, messages[i].conn, i))

Carried == received = SumFunction(reads) /\ Numbered /\ \A c \in Conns : Balance(c)

\* What the invariant says of the messages implies the two properties.
LEMMA CarriedMeans == TypeOK /\ Carried => NoMessageLost /\ ConnectionOrderKept
<1> SUFFICES ASSUME TypeOK, Carried PROVE NoMessageLost /\ ConnectionOrderKept
  OBVIOUS
<1>1. \A c, i : Buffered(c, i) = OfConn(messages, c, i)
  BY DEF Buffered, OfConn
<1>2. DOMAIN messages = 1 .. Len(messages)
  BY LenProperties, TypeParts DEF OutputTypes
<1>3. ConnectionOrderKept
  BY <1>1, <1>2 DEF Carried, Numbered, ConnectionOrderKept
<1>4. received = SumFunction(reads)
  BY DEF Carried
<1>5. ASSUME NEW c \in Conns
      PROVE  /\ reads[c] = forwarded[c] + Cardinality(Buffered(c, Len(messages)))
                             + (IF handler[c] = "sending" THEN 1 ELSE 0) + lost[c]
             /\ lost[c] > 0 => lost[c] = 1 /\ stopClosed /\ handler[c] # "reading"
  <2>1. Buffered(c, Len(messages)) = OfConn(messages, c, Len(messages))
    BY <1>1
  <2>2. Balance(c)
    BY DEF Carried
  <2>3. reads[c] = forwarded[c] + Cardinality(Buffered(c, Len(messages)))
                             + (IF handler[c] = "sending" THEN 1 ELSE 0) + lost[c]
    BY <2>1, <2>2, Zenon DEF Balance, InChannel, Owed
  <2> QED BY <2>2, <2>3 DEF Balance
<1> QED BY <1>3, <1>4, <1>5 DEF NoMessageLost

\* Nothing has been read at first.
LEMMA CarriedInit == Init => Carried
<1> SUFFICES ASSUME Init PROVE Carried
  OBVIOUS
<1>1. messages = <<>> /\ Len(messages) = 0
  BY EmptySeq DEF Init
<1>2. \A c \in Conns : /\ reads[c] = 0 /\ forwarded[c] = 0 /\ lost[c] = 0
                       /\ handler[c] = "none"
  BY DEF Init
<1>3. \A c \in Conns : InChannel(c) = 0
  <2>1. \A c : OfConn(messages, c, 0) = {}
    BY DEF OfConn
  <2> QED BY <1>1, <2>1, FS_EmptySet DEF InChannel
<1>4. \A c \in Conns : Owed(c) = 0
  BY <1>2 DEF Owed
<1>5. \A c \in Conns : Balance(c)
  BY <1>2, <1>3, <1>4 DEF Balance
<1>6. Numbered
  BY <1>1 DEF Numbered
<1>7. received = SumFunction(reads)
  <2>1. DOMAIN reads = Conns /\ received = 0
    BY DEF Init
  <2> QED BY <1>2, <2>1, SumZero, ListenerAssumption DEF SumFunction
<1> QED BY <1>5, <1>6, <1>7 DEF Carried

\* What is known of one connection's numbers.
LEMMA NumberTypes ==
    ASSUME TypeOK, NEW c \in Conns
    PROVE  /\ reads[c] \in Nat /\ forwarded[c] \in Nat /\ lost[c] \in Nat
           /\ Len(messages) \in Nat /\ InChannel(c) \in Nat /\ Owed(c) \in Nat
           /\ handler[c] = "sending" => Owed(c) = 1
           /\ handler[c] # "sending" => Owed(c) = 0
<1>1. reads[c] \in Nat /\ forwarded[c] \in Nat /\ lost[c] \in Nat /\ Len(messages) \in Nat
  BY TypeParts, LenProperties DEF OutputTypes
<1>2. InChannel(c) \in Nat
  BY <1>1, OfConnFinite DEF InChannel
<1> QED BY <1>1, <1>2 DEF Owed

\* A step that moves no message.
LEMMA CarriedKept ==
    ASSUME TypeOK, Carried, UNCHANGED <<messages, forwarded, reads, lost, received>>,
           stopClosed => stopClosed',
           \A c \in Conns : /\ handler'[c] = "sending" <=> handler[c] = "sending"
                            /\ lost[c] > 0 => handler'[c] \in {"closing", "leaving", "done"}
    PROVE  Carried'
<1>1. \A c \in Conns : InChannel(c)' = InChannel(c) /\ Owed(c)' = Owed(c)
  BY DEF InChannel, Owed, OfConn
<1>2. \A c \in Conns : Balance(c)'
  BY <1>1 DEF Carried, Balance
<1>3. Numbered'
  BY DEF Carried, Numbered, OfConn
<1> QED BY <1>2, <1>3 DEF Carried

\* Every step keeps the balance and the numbering of the messages.
LEMMA CarriedStep ==
    TypeOK /\ TypeOK' /\ Shutdown /\ Sockets /\ Carried /\ [Next]_vars => Carried'
<1> SUFFICES ASSUME TypeOK, TypeOK', Shutdown, Sockets, Carried, [Next]_vars PROVE Carried'
  OBVIOUS
<1>0. /\ OutputTypes /\ ConnTypes /\ OutputTypes' /\ IsFiniteSet(Conns)
      /\ MessagesCap \in Nat
  BY TypeParts, TypePartsNext, ListenerAssumption
<1>a. \A c \in Conns : lost[c] > 0 => handler[c] \in {"closing", "leaving", "done"}
  BY DEF Carried, Balance
<1>1. ASSUME NEW c \in Conns, ReadGood(c) PROVE Carried'
  <2>1. /\ handler[c] = "reading" /\ handler'[c] = "sending"
        /\ \A d \in Conns \ {c} : handler'[d] = handler[d]
        /\ UNCHANGED <<stopClosed, messages, forwarded, lost>>
        /\ received' = received + 1
        /\ reads'[c] = reads[c] + 1 /\ \A d \in Conns \ {c} : reads'[d] = reads[d]
    BY <1>0, <1>1, HandlingFields DEF ReadGood, HandlerPcs, OutputTypes, flags
  <2>2. \A d \in Conns : InChannel(d)' = InChannel(d)
    BY <2>1 DEF InChannel, OfConn
  <2>3. Owed(c) = 0 /\ Owed(c)' = 1 /\ lost[c] = 0 /\ \A d \in Conns \ {c} : Owed(d)' = Owed(d)
    BY <1>a, <2>1, NumberTypes DEF Owed
  <2>4. Balance(c)'
    BY <2>1, <2>2, <2>3, NumberTypes DEF Carried, Balance
  <2>5. \A d \in Conns \ {c} : Balance(d)'
    BY <2>1, <2>2, <2>3 DEF Carried, Balance
  <2>6. Numbered'
    BY <2>1 DEF Carried, Numbered, OfConn
  <2>7. received' = SumFunction(reads')
    <3>1. /\ DOMAIN reads = Conns /\ DOMAIN reads' = Conns
          /\ \A d \in Conns : reads[d] \in Int /\ reads'[d] \in Int
      BY <1>0 DEF OutputTypes
    <3>2. SumFunctionOnSet(reads', Conns) = SumFunctionOnSet(reads, Conns) - reads[c] + reads'[c]
      BY <1>0, <2>1, <3>1, SumChange
    <3>3. SumFunctionOnSet(reads, Conns) \in Int /\ reads[c] \in Int
      BY <1>0, <3>1, SumType
    <3>4. received = SumFunctionOnSet(reads, Conns)
      BY <3>1 DEF Carried, SumFunction
    <3> QED BY <2>1, <3>1, <3>2, <3>3, <3>4 DEF SumFunction
  <2> QED BY <2>4, <2>5, <2>6, <2>7 DEF Carried
<1>2. ASSUME NEW c \in Conns, SendMessage(c) PROVE Carried'
  <2> DEFINE n == Len(messages)
             m == [conn |-> c, number |-> reads[c]]
  <2>1. /\ handler[c] = "sending" /\ handler'[c] = "reading"
        /\ \A d \in Conns \ {c} : handler'[d] = handler[d]
        /\ UNCHANGED <<stopClosed, forwarded, reads, lost, received>>
    BY <1>0, <1>2, HandlingFields DEF SendMessage, HandlerPcs, flags
  <2>2. m \in Message /\ n \in Nat /\ messages' = Append(messages, m)
    BY <1>0, <1>2, LenProperties DEF SendMessage, OutputTypes, Message
  <2>3. /\ Len(messages') = n + 1 /\ messages'[n + 1] = m
        /\ \A i \in 1 .. n : messages'[i] = messages[i]
    BY <1>0, <2>2, AppendProperties DEF OutputTypes
  <2> HIDE DEF n
  <2>4. \A d : /\ \A i \in 1 .. n : OfConn(messages', d, i) = OfConn(messages, d, i)
               /\ d = c => Cardinality(OfConn(messages', d, n + 1))
                             = Cardinality(OfConn(messages, d, n)) + 1
               /\ d # c => Cardinality(OfConn(messages', d, n + 1))
                             = Cardinality(OfConn(messages, d, n))
    <3> TAKE d
    <3>1. messages'[n + 1].conn = c /\ Extends(messages', messages, n) /\ n \in Nat
      BY <2>2, <2>3 DEF Extends
    <3>2. /\ \A i \in 1 .. n : OfConn(messages', d, i) = OfConn(messages, d, i)
          /\ messages'[n + 1].conn = d => Cardinality(OfConn(messages', d, n + 1))
                                            = Cardinality(OfConn(messages, d, n)) + 1
          /\ messages'[n + 1].conn # d => Cardinality(OfConn(messages', d, n + 1))
                                            = Cardinality(OfConn(messages, d, n))
      BY <3>1, OfConnAppend
    <3> QED BY <3>1, <3>2, Zenon
  <2>5. /\ InChannel(c)' = InChannel(c) + 1
        /\ \A d \in Conns \ {c} : InChannel(d)' = InChannel(d)
    BY <2>3, <2>4 DEF InChannel, n
  <2>6. /\ Owed(c) = 1 /\ Owed(c)' = 0 /\ lost[c] = 0
        /\ \A d \in Conns \ {c} : Owed(d)' = Owed(d)
    BY <1>a, <2>1, NumberTypes DEF Owed
  <2>7. reads[c] = forwarded[c] + InChannel(c) + 1
    BY <2>6, NumberTypes DEF Carried, Balance
  <2>8. Balance(c)'
    BY <2>1, <2>5, <2>6, <2>7, NumberTypes DEF Balance
  <2>9. \A d \in Conns \ {c} : Balance(d)'
    BY <2>1, <2>5, <2>6 DEF Carried, Balance
  <2>10. ASSUME NEW i \in 1 .. n + 1
         PROVE  messages'[i].number = forwarded'[messages'[i].conn]
                   + Cardinality(OfConn(messages', messages'[i].conn, i))
    <3>1. CASE i \in 1 .. n
      BY <2>1, <2>3, <2>4, <3>1 DEF Carried, Numbered, n
    <3>2. CASE i = n + 1
      <4>1. messages'[i].number = reads[c] /\ messages'[i].conn = c
        BY <2>3, <3>2
      <4>2. Cardinality(OfConn(messages', c, i)) = InChannel(c) + 1
        BY <2>4, <3>2 DEF InChannel, n
      <4>3. messages'[i].number = forwarded'[c] + Cardinality(OfConn(messages', c, i))
        BY <2>1, <2>7, <4>1, <4>2, NumberTypes
      <4> QED BY <4>1, <4>3, Zenon
    <3>3. i \in 1 .. n \/ i = n + 1
      BY <2>2
    <3> QED BY <3>1, <3>2, <3>3, Zenon
  <2>11. Numbered'
    BY <2>3, <2>10 DEF Numbered
  <2>12. received' = SumFunction(reads')
    BY <2>1 DEF Carried
  <2> QED BY <2>8, <2>9, <2>11, <2>12 DEF Carried
<1>3. ASSUME NEW c \in Conns, GiveUpMessage(c) PROVE Carried'
  <2>1. /\ handler[c] = "sending" /\ handler'[c] = "closing" /\ stopClosed
        /\ \A d \in Conns \ {c} : handler'[d] = handler[d]
        /\ UNCHANGED <<stopClosed, forwarded, reads, messages, received>>
        /\ lost'[c] = lost[c] + 1 /\ \A d \in Conns \ {c} : lost'[d] = lost[d]
    BY <1>0, <1>3, HandlingFields DEF GiveUpMessage, HandlerPcs, flags, OutputTypes, Stopped
  <2>2. \A d \in Conns : InChannel(d)' = InChannel(d)
    BY <2>1 DEF InChannel, OfConn
  <2>3. Owed(c) = 1 /\ Owed(c)' = 0 /\ lost[c] = 0 /\ \A d \in Conns \ {c} : Owed(d)' = Owed(d)
    BY <1>a, <2>1, NumberTypes DEF Owed
  <2>4. Balance(c)'
    BY <2>1, <2>2, <2>3, NumberTypes DEF Carried, Balance
  <2>5. \A d \in Conns \ {c} : Balance(d)'
    BY <2>1, <2>2, <2>3 DEF Carried, Balance
  <2>6. Numbered' /\ received' = SumFunction(reads')
    BY <2>1 DEF Carried, Numbered, OfConn
  <2> QED BY <2>4, <2>5, <2>6 DEF Carried
<1>4. ASSUME NEW c \in Conns,
             ReadBad(c) \/ ScanEnds(c) \/ ReportLine(c) \/ CloseConn(c) \/ LeaveHandler(c)
      PROVE  Carried'
  <2>1. UNCHANGED <<messages, forwarded, reads, lost, received, stopClosed>>
    BY <1>4 DEF ReadBad, ScanEnds, ReportLine, CloseConn, LeaveHandler, Handling, flags
  <2>2. PICK from, to :
           /\ Handling(c, from, to) /\ from # "sending"
           /\ to \in HandlerPcs \ {"sending"}
           /\ from \in {"closing", "leaving", "done"} => to \in {"closing", "leaving", "done"}
    BY <1>4 DEF ReadBad, ScanEnds, ReportLine, CloseConn, LeaveHandler, HandlerPcs
  <2>3. /\ handler[c] = from /\ handler'[c] = to
        /\ \A d \in Conns \ {c} : handler'[d] = handler[d]
    BY <1>0, <2>2, HandlingFields
  <2> QED BY <1>a, <2>1, <2>2, <2>3, CarriedKept
<1>5. CASE AcceptLoopStep \/ AcceptFails
  <2>1. UNCHANGED <<messages, forwarded, reads, lost, received, stopClosed>>
    BY <1>5, AcceptMoves DEF flags
  <2>2. CASE Spawn
    <3>1. accepted \in Conns /\ handler[accepted] = "none"
      BY <2>2, TypeParts DEF Spawn, Accepting, Sockets, AcceptTypes
    <3>2. /\ handler'[accepted] = "reading"
          /\ \A d \in Conns \ {accepted} : handler'[d] = handler[d]
      BY <1>0, <2>2, <3>1 DEF Spawn, ConnTypes
    <3> QED BY <1>a, <2>1, <3>1, <3>2, CarriedKept
  <2>3. CASE ~ Spawn
    <3>1. UNCHANGED handler
      BY <1>5, <2>3 DEF AcceptLoopStep, AcceptFails, Accept, AcceptStopped, ReportAccept,
                        Register, conns
    <3> QED BY <1>a, <2>1, <3>1, CarriedKept
  <2> QED BY <2>2, <2>3
<1>6. CASE StopBegin \/ StopStep
  <2>1. UNCHANGED <<messages, forwarded, reads, lost, received, handler>>
    BY <1>6, StopMoves DEF counts, output
  <2>2. stopClosed => stopClosed'
    BY <1>6 DEF StopBegin, StopStep, StopStore, CloseStopChan, CloseListener, CloseConns,
                StopWait, CloseChannels
  <2> QED BY <1>a, <2>1, <2>2, CarriedKept
<1>7. CASE Forward
  <2> DEFINE h == messages[1]
             n == Len(messages)
  <2>1. /\ messages # <<>> /\ messages' = Tail(messages)
        /\ forwarded' = [forwarded EXCEPT ![Head(messages).conn] = Head(messages).number]
        /\ UNCHANGED <<reads, lost, received, handler, stopClosed>>
    BY <1>7 DEF Forward, flags, conns, counts
  <2>2. /\ Head(messages) = h /\ h \in Message /\ n \in Nat \ {0}
        /\ Len(messages') = n - 1 /\ \A i \in 1 .. n - 1 : messages'[i] = messages[i + 1]
    BY <1>0, <2>1, HeadTailProperties, LenProperties, EmptySeq DEF OutputTypes
  <2>3. h.conn \in Conns /\ h.number \in Nat
    BY <2>2 DEF Message
  <2>4. h.number = forwarded[h.conn] + 1
    <3>1. OfConn(messages, h.conn, 1) = {1}
      BY DEF OfConn
    <3>2. Cardinality(OfConn(messages, h.conn, 1)) = 1
      BY <3>1, FS_Singleton
    <3>3. 1 \in 1 .. Len(messages)
      BY <2>2
    <3> QED BY <3>2, <3>3 DEF Carried, Numbered
  <2>5. /\ forwarded'[h.conn] = forwarded[h.conn] + 1
        /\ \A d \in Conns \ {h.conn} : forwarded'[d] = forwarded[d]
    BY <1>0, <2>1, <2>2, <2>3, <2>4 DEF OutputTypes
  <2> HIDE DEF h, n
  <2>6. ASSUME NEW i \in 0 .. n - 1, NEW c \in Conns
        PROVE  forwarded'[c] + Cardinality(OfConn(messages', c, i))
                 = forwarded[c] + Cardinality(OfConn(messages, c, i + 1))
    <3>1. i \in Nat /\ i + 1 \in Nat /\ Shifted(messages', messages, i)
      BY <2>2 DEF Shifted
    <3>2. /\ messages[1].conn = c => Cardinality(OfConn(messages', c, i))
                                       = Cardinality(OfConn(messages, c, i + 1)) - 1
          /\ messages[1].conn # c => Cardinality(OfConn(messages', c, i))
                                       = Cardinality(OfConn(messages, c, i + 1))
      BY <3>1, OfConnTail
    <3>3. /\ Cardinality(OfConn(messages', c, i)) \in Nat
          /\ Cardinality(OfConn(messages, c, i + 1)) \in Nat /\ forwarded[c] \in Nat
      BY <3>1, OfConnFinite, NumberTypes
    <3> QED BY <2>5, <3>2, <3>3 DEF h
  <2>7. \A c \in Conns : forwarded'[c] + InChannel(c)' = forwarded[c] + InChannel(c)
    <3> TAKE c \in Conns
    <3>1. n - 1 \in 0 .. n - 1 /\ (n - 1) + 1 = n
      BY <2>2
    <3> QED BY <2>2, <2>6, <3>1 DEF InChannel, n
  <2>8. ASSUME NEW c \in Conns PROVE Balance(c)'
    <3>1. /\ forwarded'[c] \in Nat /\ InChannel(c)' \in Nat /\ Owed(c)' = Owed(c)
      BY <1>0, <2>1, OfConnFinite, LenProperties DEF OutputTypes, InChannel, Owed
    <3>2. Balance(c)
      BY DEF Carried
    <3>3. reads[c] = forwarded'[c] + InChannel(c)' + Owed(c)' + lost[c]
      BY <2>7, <3>1, <3>2, NumberTypes DEF Balance
    <3> QED BY <2>1, <3>2, <3>3 DEF Balance
  <2>9. ASSUME NEW i \in 1 .. n - 1
        PROVE  messages'[i].number = forwarded'[messages'[i].conn]
                   + Cardinality(OfConn(messages', messages'[i].conn, i))
    <3>1. i \in 0 .. n - 1 /\ i + 1 \in 1 .. Len(messages) /\ messages'[i] = messages[i + 1]
      BY <2>2 DEF n
    <3>2. messages[i + 1].conn \in Conns
      <4>1. messages[i + 1] \in Message
        BY <1>0, <3>1, ElementOfSeq DEF OutputTypes
      <4> QED BY <4>1 DEF Message
    <3>3. messages[i + 1].number = forwarded[messages[i + 1].conn]
                   + Cardinality(OfConn(messages, messages[i + 1].conn, i + 1))
      BY <3>1 DEF Carried, Numbered
    <3> QED BY <2>6, <3>1, <3>2, <3>3
  <2>10. Numbered'
    BY <2>2, <2>9 DEF Numbered
  <2>11. received' = SumFunction(reads')
    BY <2>1 DEF Carried
  <2> QED BY <2>8, <2>10, <2>11 DEF Carried
<1>8. CASE \/ \E c \in Conns : \/ Connect(c) \/ Disconnect(c)
                               \/ \E kind \in Kinds : SendLine(c, kind)
           \/ ReadError \/ UNCHANGED vars
  <2>1. UNCHANGED <<messages, forwarded, reads, lost, received, handler, stopClosed>>
    BY <1>8 DEF Connect, Disconnect, SendLine, ReadError, vars, flags, conns, counts, output
  <2> QED BY <1>a, <2>1, CarriedKept
<1> QED BY <1>1, <1>2, <1>3, <1>4, <1>5, <1>6, <1>7, <1>8, Steps DEF HandlerStep

\* Every message is accounted for, in every state.
LEMMA AlwaysCarried == Spec => [](TypeOK /\ Carried)
<1> DEFINE Others == TypeOK /\ Shutdown /\ Sockets /\ ConnectionsTracked
<1>1. Init => Carried
  BY CarriedInit
<1>2. Others /\ Others' /\ Carried /\ [Next]_vars => Carried'
  BY CarriedStep
<1>3. Spec => []Others
  BY Tracked
<1>4. Others => TypeOK
  OBVIOUS
<1> HIDE DEF Others
<1> QED BY <1>1, <1>2, <1>3, <1>4, PTL DEF Spec

\* However handlers interleave, a valid message is buffered, forwarded, with its
\* handler or given up because of Stop, one for each connection at most.
THEOREM NoMessageLostCorrect == Spec => []NoMessageLost
BY AlwaysCarried, CarriedMeans, PTL

\* The messages of a connection keep their order through the shared channel.
THEOREM ConnectionOrderKeptCorrect == Spec => []ConnectionOrderKept
BY AlwaysCarried, CarriedMeans, PTL
===============================================================================
