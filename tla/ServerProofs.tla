----------------------------- MODULE ServerProofs -----------------------------
(***************************************************************************)
(* Theorems about Server, for any sets of messages and any capacities: its  *)
(* listener and its queue behave as their own modules say, while it serves  *)
(* it drops nothing, and its file keeps the order of each listener.         *)
(***************************************************************************)
EXTENDS Server, FiniteSetTheorems, SequenceTheorems, TLAPS

-----------------------------------------------------------------------------
(* The parts of the state.                                                  *)

ForwarderStates ==
    [pc : {"receiving", "recording", "calling", "ended"}, msg : Messages \cup {NoMessage}]

ListenerOK ==
    /\ UDP!TypeOK
    /\ loop = "sending" => datagram \in UDPMessages

QueueOK ==
    /\ queue \in Seq(Messages) /\ Len(queue) <= QueueSize
    /\ accepted \in Seq(Messages)
    /\ holding \in [Forwarders -> Messages \cup {NoMessage}]

TCPOK ==
    /\ tcpMessages \in Seq(TCPMessages) /\ Len(tcpMessages) <= QueueSize
    /\ tcpClosed \in BOOLEAN /\ lateClient \in BOOLEAN

\* A forwarding goroutine has a message exactly between Receive and CallEnqueue.
ForwardersOK ==
    /\ forwarder \in [Forwarders -> ForwarderStates]
    /\ \A f \in Forwarders :
           forwarder[f].pc \in {"recording", "calling"} <=> forwarder[f].msg # NoMessage

MainOK ==
    /\ recorderOpen \in BOOLEAN
    /\ main \in {"starting", "serving", "closingRecorder", "stoppingTCP", "waitingTCP",
                 "stoppingUDP", "stoppingMonitor", "stoppingProcessor", "exited"}

Parts == ListenerOK /\ QueueOK /\ TCPOK /\ ForwardersOK /\ MainOK

\* The parts say what TypeOK says.
LEMMA PartsTypes == Parts => TypeOK
BY DEF Parts, TypeOK, ListenerOK, QueueOK, TCPOK, ForwardersOK, ForwarderStates, MainOK

\* No message is one of the marks.
LEMMA Marks ==
    /\ Bad \notin Messages /\ Fault \notin Messages /\ NoMessage \notin Messages
    /\ UDPMessages \subseteq Messages /\ TCPMessages \subseteq Messages
    /\ QueueSize \in Nat /\ QueueSize > 0
BY ServerAssumption DEF Messages

-----------------------------------------------------------------------------
(* The listener and the queue in the server are those of their modules.     *)

\* To the listener, a step of the server is one of its own or none.
LEMMA ListenerMoves == [Next]_serverVars => [UDP!Next]_(UDP!vars)
<1> SUFFICES ASSUME [Next]_serverVars PROVE UDP!Next \/ UNCHANGED udp
  BY DEF udp, UDP!vars, UDP!flags
<1>1. CASE UNCHANGED serverVars
  BY <1>1 DEF serverVars
<1>2. CASE Signal \/ StartUp \/ CloseRecorder \/ StopTCP \/ WaitTCP \/ StopMonitor \/ StopProcessor \/ Exit
  BY <1>2 DEF Signal, StartUp, CloseRecorder, StopTCP, WaitTCP, StopMonitor, StopProcessor, Exit
<1>3. CASE StopUDP
  BY <1>3 DEF StopUDP, UDP!Next
<1>4. ASSUME NEW m \in Messages, ArriveUDP(m) PROVE UDP!Next
  BY <1>4 DEF ArriveUDP, UDP!Next
<1>5. ASSUME NEW m \in Messages, ArriveTCP(m) PROVE UNCHANGED udp
  BY <1>5 DEF ArriveTCP
<1>6. CASE ArriveNoise
  BY <1>6 DEF ArriveNoise, UDP!Next
<1>7. CASE UDPLoop
  BY <1>7 DEF UDPLoop, UDP!Next
<1>8. CASE Pool \/ LateClientLeaves
  BY <1>8 DEF Pool, LateClientLeaves
<1>9. ASSUME NEW f \in Forwarders, Forward(f) \/ InEnqueue(f) PROVE UDP!Next \/ UNCHANGED udp
  BY <1>9 DEF Forward, Receive, EndRange, Record, CallEnqueue, InEnqueue, UDP!Next
<1> QED BY <1>1, <1>2, <1>3, <1>4, <1>5, <1>6, <1>7, <1>8, <1>9 DEF Next, MainStep

\* To the queue too, for the forwarders call it with messages.
LEMMA QueueMoves ==
    ForwardersOK /\ [Next]_serverVars => [Jobs!Next]_(Jobs!vars)
<1> SUFFICES ASSUME ForwardersOK, [Next]_serverVars PROVE Jobs!Next \/ UNCHANGED jobs
  BY DEF jobs, Jobs!vars, Jobs!flags
<1>1. CASE UNCHANGED serverVars
  BY <1>1 DEF serverVars
<1>2. CASE Next
  <2>0. crashed = "no"
    BY <1>2 DEF Next, Up, Serving
  <2>1. CASE Signal \/ CloseRecorder \/ StopTCP \/ WaitTCP \/ StopUDP \/ StopMonitor \/ Exit
    BY <2>1 DEF Signal, CloseRecorder, StopTCP, WaitTCP, StopUDP, StopMonitor, Exit
  <2>2. CASE StartUp
    BY <2>0, <2>2 DEF StartUp, Jobs!Next
  <2>3. CASE StopProcessor
    BY <2>0, <2>3 DEF StopProcessor, Jobs!Next
  <2>4. CASE \/ ArriveNoise \/ LateClientLeaves \/ UDPLoop
             \/ \E m \in Messages : ArriveUDP(m) \/ ArriveTCP(m)
    BY <2>4 DEF ArriveNoise, LateClientLeaves, UDPLoop, ArriveUDP, ArriveTCP
  <2>5. CASE Pool
    BY <2>0, <2>5 DEF Pool, Jobs!Next
  <2>6. ASSUME NEW f \in Forwarders, InEnqueue(f) PROVE Jobs!Next
    BY <2>0, <2>6 DEF InEnqueue, Jobs!Next
  <2>7. ASSUME NEW f \in Forwarders, Receive(f) \/ EndRange(f) \/ Record(f)
        PROVE  UNCHANGED jobs
    BY <2>7 DEF Receive, EndRange, Record
  <2>8. ASSUME NEW f \in Forwarders, CallEnqueue(f) PROVE Jobs!Next \/ UNCHANGED jobs
    <3>1. forwarder[f].msg \in Messages
      BY <2>8 DEF CallEnqueue, Forwards, ForwardersOK, ForwarderStates
    <3> QED BY <2>0, <2>8, <3>1 DEF CallEnqueue, Jobs!Next
  <2> QED BY <1>2, <2>1, <2>2, <2>3, <2>4, <2>5, <2>6, <2>7, <2>8 DEF Next, MainStep, Forward
<1> QED BY <1>1, <1>2

-----------------------------------------------------------------------------
(* Types.                                                                   *)

\* What is left of a sequence.
LEMMA TailShorter ==
    ASSUME NEW S, NEW s \in Seq(S), s # <<>>
    PROVE  Head(s) \in S /\ Tail(s) \in Seq(S) /\ Len(Tail(s)) = Len(s) - 1 /\ Len(s) \in Nat
BY HeadTailProperties, LenProperties

\* The listener's loop sends only what it has read, and waits for room.
LEMMA ListenerStep == ListenerOK /\ [UDP!Next]_(UDP!vars) => ListenerOK'
<1> SUFFICES ASSUME ListenerOK, [UDP!Next]_(UDP!vars) PROVE ListenerOK'
  OBVIOUS
<1> USE DEF ListenerOK, UDP!TypeOK
<1>1. ASSUME NEW d \in UDPMessages \cup {Bad, Fault}, UDP!Arrive(d) PROVE ListenerOK'
  BY <1>1 DEF UDP!Arrive, UDP!flags
<1>2. CASE UDP!Taken
  <2>1. Tail(messages) \in Seq(UDPMessages) /\ Len(Tail(messages)) <= QueueSize
    BY <1>2, TailShorter, Marks DEF UDP!Taken
  <2> QED BY <1>2, <2>1 DEF UDP!Taken, UDP!flags
<1>3. CASE UDP!Check
  BY <1>3 DEF UDP!Check, UDP!Loop, UDP!flags
<1>4. CASE UDP!Read
  <2>1. Tail(socket) \in Seq(UDPMessages \cup {Bad, Fault})
    BY <1>4, TailShorter DEF UDP!Read
  <2> QED BY <1>4, <2>1 DEF UDP!Read, UDP!Loop, UDP!flags
<1>5. CASE UDP!ReadClosed \/ UDP!GiveUp
  BY <1>5 DEF UDP!ReadClosed, UDP!GiveUp, UDP!Loop, UDP!flags
<1>6. CASE UDP!Send
  BY <1>6, Marks DEF UDP!Send, UDP!HasRoom, UDP!Loop, UDP!flags
<1>7. CASE UDP!Report
  BY <1>7, ServerAssumption DEF UDP!Report, UDP!Loop, UDP!flags
<1>8. CASE UDP!StopBegin \/ UDP!StopStore \/ UDP!CloseStopChan
  BY <1>8 DEF UDP!StopBegin, UDP!StopStore, UDP!CloseStopChan, UDP!Stopping, UDP!flags
<1>9. CASE UDP!StopWait \/ UDP!CloseChannels
  BY <1>9 DEF UDP!StopWait, UDP!CloseChannels, UDP!Stopping, UDP!flags
<1>11. CASE UDP!CloseConn
  <2>1. socket' \in Seq(UDPMessages \cup {Bad, Fault})
    BY <1>11, EmptySeq DEF UDP!CloseConn
  <2> QED BY <1>11, <2>1 DEF UDP!CloseConn, UDP!Stopping, UDP!flags
<1>10. CASE UNCHANGED UDP!vars
  BY <1>10 DEF UDP!vars, UDP!flags
<1> QED BY <1>1, <1>2, <1>3, <1>4, <1>5, <1>6, <1>7, <1>8, <1>9, <1>10, <1>11
        DEF UDP!Next, UDP!LoopStep, UDP!StopStep

\* The queue holds messages, and never more than it has room for.
LEMMA QueueStep == QueueOK /\ [Jobs!Next]_(Jobs!vars) => QueueOK'
<1> SUFFICES ASSUME QueueOK, [Jobs!Next]_(Jobs!vars) PROVE QueueOK'
  OBVIOUS
<1> USE DEF QueueOK
<1>1. CASE \/ Jobs!Start \/ Jobs!StopStore \/ Jobs!CloseStopChan \/ Jobs!CloseJobsChan
           \/ Jobs!PoolEnds \/ Jobs!Panic \/ UNCHANGED Jobs!vars
  BY <1>1 DEF Jobs!Start, Jobs!StopStore, Jobs!CloseStopChan, Jobs!CloseJobsChan,
              Jobs!PoolEnds, Jobs!Panic, Jobs!vars, Jobs!flags
<1>2. ASSUME NEW c \in Forwarders, NEW m \in Messages, Jobs!Call(c, m) PROVE QueueOK'
  BY <1>2 DEF Jobs!Call, Jobs!flags
<1>3. ASSUME NEW c \in Forwarders, Jobs!Send(c) PROVE QueueOK'
  <2>1. holding[c] \in Messages
    BY <1>3 DEF Jobs!Send, Jobs!Returns
  <2> QED BY <1>3, <2>1, Marks DEF Jobs!Send, Jobs!Returns, Jobs!HasRoom, Jobs!flags
<1>4. ASSUME NEW c \in Forwarders, Jobs!Fail(c) PROVE QueueOK'
  BY <1>4 DEF Jobs!Fail, Jobs!Returns, Jobs!flags
<1>5. CASE Jobs!Take
  <2>1. Tail(queue) \in Seq(Messages) /\ Len(Tail(queue)) <= QueueSize
    BY <1>5, TailShorter, Marks DEF Jobs!Take
  <2> QED BY <1>5, <2>1 DEF Jobs!Take, Jobs!flags
<1> QED BY <1>1, <1>2, <1>3, <1>4, <1>5 DEF Jobs!Next

\* The rest of the state follows the forwarders and main.
LEMMA RestStep ==
    Parts /\ [Next]_serverVars => TCPOK' /\ ForwardersOK' /\ MainOK'
<1> SUFFICES ASSUME Parts, [Next]_serverVars PROVE TCPOK' /\ ForwardersOK' /\ MainOK'
  OBVIOUS
<1>0. TCPOK /\ ForwardersOK /\ MainOK
  BY DEF Parts
<1>1. CASE UNCHANGED serverVars
  BY <1>0, <1>1 DEF serverVars, tcp, recorder, TCPOK, ForwardersOK, MainOK
<1>2. CASE Signal \/ MainStep
  <2>1. TCPOK' /\ UNCHANGED forwarder
    BY <1>0, <1>2 DEF TCPOK, tcp, Signal, MainStep, StartUp, CloseRecorder, StopTCP, WaitTCP, StopUDP,
                      StopMonitor, StopProcessor, Exit, Main
  <2>2. MainOK'
    BY <1>0, <1>2 DEF MainOK, recorder, Signal, MainStep, StartUp, CloseRecorder, StopTCP, WaitTCP,
                      StopUDP, StopMonitor, StopProcessor, Exit, Main
  <2> QED BY <1>0, <2>1, <2>2 DEF ForwardersOK
<1>3. CASE \/ ArriveNoise \/ UDPLoop \/ Pool \/ \E m \in Messages : ArriveUDP(m)
           \/ \E f \in Forwarders : InEnqueue(f)
  <2>1. UNCHANGED <<tcp, recorder, forwarder, main>>
    BY <1>3 DEF ArriveUDP, ArriveNoise, UDPLoop, Pool, InEnqueue
  <2> QED BY <1>0, <2>1 DEF tcp, recorder, TCPOK, ForwardersOK, MainOK
<1>6. CASE LateClientLeaves
  BY <1>0, <1>6 DEF LateClientLeaves, recorder, TCPOK, ForwardersOK, MainOK
<1>4. ASSUME NEW m \in Messages, ArriveTCP(m) PROVE TCPOK' /\ ForwardersOK' /\ MainOK'
  <2>1. UNCHANGED <<recorder, forwarder, main, tcpClosed, lateClient>>
    BY <1>4 DEF ArriveTCP
  <2>2. TCPOK'
    BY <1>0, <1>4, Marks DEF ArriveTCP, TCPOK
  <2> QED BY <1>0, <2>1, <2>2 DEF recorder, ForwardersOK, MainOK
<1>5. ASSUME NEW f \in Forwarders, Forward(f) PROVE TCPOK' /\ ForwardersOK' /\ MainOK'
  <2>1. MainOK'
    BY <1>0, <1>5 DEF Forward, Receive, EndRange, Record, CallEnqueue, Forwards, recorder, MainOK
  <2>3. TCPOK'
    <3>1. CASE UNCHANGED tcp
      BY <1>0, <3>1 DEF tcp, TCPOK
    <3>2. CASE tcpMessages # <<>> /\ tcpMessages' = Tail(tcpMessages)
              /\ UNCHANGED <<tcpClosed, lateClient>>
      <4>1. Tail(tcpMessages) \in Seq(TCPMessages) /\ Len(Tail(tcpMessages)) <= QueueSize
        BY <1>0, <3>2, TailShorter, Marks DEF TCPOK
      <4> QED BY <1>0, <3>2, <4>1 DEF TCPOK
    <3> QED BY <1>5, <3>1, <3>2 DEF Forward, Receive, EndRange, Record, CallEnqueue
  <2>2. ForwardersOK'
    <3>1. ASSUME NEW from, NEW next \in ForwarderStates, Forwards(f, from, next),
                 next.pc \in {"recording", "calling"} <=> next.msg # NoMessage
          PROVE  ForwardersOK'
      BY <1>0, <3>1 DEF Forwards, ForwardersOK
    <3>2. CASE Receive(f)
      <4>1. CASE messages # <<>> /\ Forwards(f, "receiving", Forwarding("recording", Head(messages)))
        <5>1. Head(messages) \in Messages
          BY <4>1, Marks DEF Parts, ListenerOK, UDP!TypeOK
        <5> QED BY <3>1, <4>1, <5>1, Marks DEF Forwarding, ForwarderStates
      <4>2. CASE tcpMessages # <<>> /\ Forwards(f, "receiving", Forwarding("recording", Head(tcpMessages)))
        <5>1. Head(tcpMessages) \in Messages
          BY <1>0, <4>2, Marks DEF TCPOK
        <5> QED BY <3>1, <4>2, <5>1, Marks DEF Forwarding, ForwarderStates
      <4> QED BY <3>2, <4>1, <4>2 DEF Receive, UDP!Taken
    <3>3. CASE EndRange(f)
      BY <3>1, <3>3 DEF EndRange, Forwarding, ForwarderStates
    <3>4. CASE Record(f)
      <4>1. forwarder[f].msg \in Messages /\ forwarder[f].msg # NoMessage
        BY <1>0, <3>4, Marks DEF Record, Forwards, ForwardersOK, ForwarderStates
      <4> QED BY <3>1, <3>4, <4>1 DEF Record, Forwarding, ForwarderStates
    <3>5. CASE CallEnqueue(f)
      BY <3>1, <3>5 DEF CallEnqueue, Forwarding, ForwarderStates
    <3> QED BY <1>5, <3>2, <3>3, <3>4, <3>5 DEF Forward
  <2> QED BY <2>1, <2>2, <2>3
<1> QED BY <1>1, <1>2, <1>3, <1>4, <1>5, <1>6 DEF Next

\* Every state of the server is made of well-formed parts.
LEMMA AlwaysParts == Spec => []Parts
<1>1. Init => Parts
  <2> SUFFICES ASSUME Init PROVE Parts
    OBVIOUS
  <2>1. ListenerOK
    <3>1. UDP!Init
      BY DEF Init
    <3>2. socket = <<>> /\ messages = <<>> /\ errors = 0 /\ loop = "checking"
      BY <3>1 DEF UDP!Init
    <3>3. socket \in Seq(UDPMessages \cup {Bad, Fault})
      BY <3>2, EmptySeq
    <3>4. messages \in Seq(UDPMessages) /\ Len(messages) <= QueueSize
      BY <3>2, EmptySeq, Marks
    <3>5. errors \in 0 .. ErrorsCap
      BY <3>2, ServerAssumption
    <3> QED BY <3>1, <3>2, <3>3, <3>4, <3>5 DEF UDP!Init, ListenerOK, UDP!TypeOK
  <2>2. QueueOK
    <3>1. Jobs!Init
      BY DEF Init
    <3>2. queue = <<>> /\ accepted = <<>>
      BY <3>1 DEF Jobs!Init
    <3>3. queue \in Seq(Messages) /\ Len(queue) <= QueueSize /\ accepted \in Seq(Messages)
      BY <3>2, EmptySeq, Marks
    <3>4. holding \in [Forwarders -> Messages \cup {NoMessage}]
      BY <3>1 DEF Jobs!Init
    <3> QED BY <3>3, <3>4 DEF QueueOK
  <2>3. TCPOK
    <3>1. tcpMessages = <<>> /\ tcpClosed = FALSE /\ lateClient = FALSE
      BY DEF Init
    <3>2. tcpMessages \in Seq(TCPMessages) /\ Len(tcpMessages) <= QueueSize
      BY <3>1, EmptySeq, Marks
    <3> QED BY <3>1, <3>2 DEF TCPOK
  <2>4. ForwardersOK /\ MainOK
    BY DEF Init, ForwardersOK, MainOK, ForwarderStates, Forwarding
  <2> QED BY <2>1, <2>2, <2>3, <2>4 DEF Parts
<1>2. Parts /\ [Next]_serverVars => Parts'
  BY ListenerMoves, ListenerStep, QueueMoves, QueueStep, RestStep DEF Parts
<1> QED BY <1>1, <1>2, PTL DEF Spec

\* Every goroutine of the server is at a point of its code, and no channel holds
\* more than the -buffer flag allows, for every value of the flag.
THEOREM TypeCorrect == Spec => []TypeOK
BY AlwaysParts, PartsTypes, PTL

\* main starts, feeds and stops the listener as UDPListener allows: what is true of
\* the listener by itself is true of it in the server.
THEOREM ListenerBehaves == Spec => UDP!Spec
<1>1. Init => UDP!Init
  BY DEF Init
<1>2. [Next]_serverVars => [UDP!Next]_(UDP!vars)
  BY ListenerMoves
<1> QED BY <1>1, <1>2, PTL DEF Spec, UDP!Spec

\* The forwarders and main use the processor as JobQueue allows, which Processor
\* implements: putting the queue in place of the processor is sound.
THEOREM QueueBehaves == Spec => Jobs!Spec
<1>1. Init => Jobs!Init
  BY DEF Init
<1>2. Parts /\ [Next]_serverVars => [Jobs!Next]_(Jobs!vars)
  BY QueueMoves DEF Parts
<1> QED BY <1>1, <1>2, AlwaysParts, PTL DEF Spec, Jobs!Spec

-----------------------------------------------------------------------------
(* Nothing is dropped.                                                      *)

\* What the server holds of the messages it has read, up to the queue's history.
There == OnTheirWay \cup ToSet(accepted)

\* The received messages are accounted for.
Accounted ==
    /\ IsFiniteSet(There \cap UDPMessages)
    /\ received = Cardinality(There \cap UDPMessages)
    /\ There \cap UDPMessages \subseteq sent
    /\ sent \cap TCPMessages \subseteq There

\* A message that waits in the kernel waits there once, and has not been read.
Waiting ==
    /\ \A i \in DOMAIN socket : socket[i] \in UDPMessages => socket[i] \in sent \ There
    /\ \A i, j \in DOMAIN socket : socket[i] \in UDPMessages /\ socket[i] = socket[j] => i = j

\* The signal has not come.
BeforeSignal == main \in {"starting", "serving"}

Undisturbed ==
    BeforeSignal => /\ stopped = FALSE /\ stopClosed = FALSE /\ jobsClosed = FALSE
                    /\ main = "serving" => isRunning = TRUE

Kept == BeforeSignal => Accounted /\ Waiting

\* The places in which a message that was read can be.
Placed(x) ==
    \/ x \in ToSet(messages) \/ x \in ToSet(tcpMessages) \/ x \in ToSet(accepted)
    \/ loop = "sending" /\ x = datagram
    \/ \E f \in Forwarders : x = forwarder[f].msg
    \/ \E f \in Forwarders : x = holding[f]

\* Placed, before and after a step.
LEMMA PlacedMeans == \A x : (x \in There <=> Placed(x)) /\ (x \in There' <=> Placed(x)')
BY DEF There, OnTheirWay, Placed

\* Append adds its element,
LEMMA AppendSet ==
    ASSUME NEW S, NEW s \in Seq(S), NEW e \in S
    PROVE  ToSet(Append(s, e)) = ToSet(s) \cup {e}
<1>1. /\ Len(s) \in Nat /\ DOMAIN s = 1 .. Len(s)
      /\ DOMAIN Append(s, e) = 1 .. Len(s) + 1
      /\ \A i \in 1 .. Len(s) : Append(s, e)[i] = s[i]
      /\ Append(s, e)[Len(s) + 1] = e
  BY AppendProperties, LenProperties
<1>2. \A i \in 1 .. Len(s) + 1 : i \in 1 .. Len(s) \/ i = Len(s) + 1
  BY <1>1
<1>3. Len(s) + 1 \in 1 .. Len(s) + 1 /\ 1 .. Len(s) \subseteq 1 .. Len(s) + 1
  BY <1>1
<1> QED BY <1>1, <1>2, <1>3, Zenon DEF ToSet

\* and Tail leaves all but the head.
LEMMA TailSet ==
    ASSUME NEW S, NEW s \in Seq(S), s # <<>>
    PROVE  ToSet(s) = ToSet(Tail(s)) \cup {Head(s)}
<1>1. /\ Len(s) \in Nat /\ Len(s) > 0 /\ DOMAIN s = 1 .. Len(s) /\ Head(s) = s[1]
      /\ DOMAIN Tail(s) = 1 .. Len(s) - 1
      /\ \A i \in 1 .. Len(s) - 1 : Tail(s)[i] = s[i + 1]
  BY HeadTailProperties, LenProperties
<1>2. ASSUME NEW x PROVE x \in ToSet(s) <=> x \in ToSet(Tail(s)) \cup {Head(s)}
  <2>1. ASSUME NEW i \in 1 .. Len(s), x = s[i] PROVE x \in ToSet(Tail(s)) \cup {Head(s)}
    <3>1. CASE i = 1
      BY <1>1, <2>1, <3>1
    <3>2. CASE i # 1
      <4>1. i - 1 \in 1 .. Len(s) - 1 /\ Tail(s)[i - 1] = s[i]
        BY <1>1, <3>2
      <4> QED BY <1>1, <2>1, <4>1 DEF ToSet
    <3> QED BY <3>1, <3>2
  <2>2. ASSUME NEW i \in 1 .. Len(s) - 1, x = Tail(s)[i] PROVE x \in ToSet(s)
    <3>1. i + 1 \in 1 .. Len(s) /\ x = s[i + 1]
      BY <1>1, <2>2
    <3> QED BY <1>1, <3>1 DEF ToSet
  <2>3. Head(s) \in ToSet(s)
    <3>1. 1 \in 1 .. Len(s)
      BY <1>1
    <3> QED BY <1>1, <3>1 DEF ToSet
  <2> QED BY <1>1, <2>1, <2>2, <2>3 DEF ToSet
<1> QED BY <1>2

\* What goes on beside main while the process is up.
BesideMain ==
    \/ ArriveNoise \/ LateClientLeaves \/ UDPLoop \/ Pool
    \/ \E m \in Messages : ArriveUDP(m) \/ ArriveTCP(m)
    \/ \E f \in Forwarders : Forward(f) \/ InEnqueue(f)

\* The steps of main, and those beside it.
LEMMA Steps ==
    [Next]_serverVars =>
        UNCHANGED serverVars \/ Signal \/ MainStep \/ (main # "starting" /\ BesideMain)
BY DEF Next, Serving, Up, BesideMain

\* Nobody but main stops anything.
LEMMA OnlyMainStops ==
    BesideMain => UNCHANGED <<stopped, stopClosed, jobsClosed, isRunning, main>>
<1> SUFFICES ASSUME BesideMain
             PROVE  UNCHANGED <<stopped, stopClosed, jobsClosed, isRunning, main>>
  OBVIOUS
<1> USE DEF UDP!flags, Jobs!flags, jobs, udp
<1>1. CASE \/ ArriveNoise \/ LateClientLeaves
           \/ \E m \in Messages : ArriveUDP(m) \/ ArriveTCP(m)
  BY <1>1 DEF ArriveNoise, LateClientLeaves, ArriveUDP, ArriveTCP, UDP!Arrive
<1>2. CASE UDPLoop
  BY <1>2 DEF UDPLoop, UDP!LoopStep, UDP!Check, UDP!Read, UDP!ReadClosed, UDP!Send, UDP!GiveUp,
              UDP!Report, UDP!Loop
<1>3. CASE Pool
  BY <1>3 DEF Pool, Jobs!Take, Jobs!PoolEnds
<1>4. ASSUME NEW f \in Forwarders, InEnqueue(f)
      PROVE  UNCHANGED <<stopped, stopClosed, jobsClosed, isRunning, main>>
  BY <1>4 DEF InEnqueue, Jobs!Send, Jobs!Fail, Jobs!Returns, Jobs!Panic
<1>5. ASSUME NEW f \in Forwarders, Forward(f)
      PROVE  UNCHANGED <<stopped, stopClosed, jobsClosed, isRunning, main>>
  BY <1>5 DEF Forward, Receive, EndRange, Record, CallEnqueue, Forwards, UDP!Taken, Jobs!Call
<1> QED BY <1>1, <1>2, <1>3, <1>4, <1>5 DEF BesideMain

\* main leaves BeforeSignal with its next step, unless that is the start.
LEMMA MainMoves ==
    Signal \/ MainStep => \/ ~ BeforeSignal'
                          \/ StartUp /\ main = "starting" /\ main' = "serving"
BY DEF Signal, MainStep, StartUp, CloseRecorder, StopTCP, WaitTCP, StopUDP, StopMonitor, StopProcessor,
       Exit, Main, BeforeSignal

\* Every step leaves the processor open and the listener running until the signal.
LEMMA UndisturbedStep == Undisturbed /\ [Next]_serverVars => Undisturbed'
<1> SUFFICES ASSUME Undisturbed, [Next]_serverVars PROVE Undisturbed'
  OBVIOUS
<1>1. CASE UNCHANGED serverVars
  BY <1>1 DEF serverVars, udp, jobs, Undisturbed, BeforeSignal
<1>2. CASE StartUp /\ main = "starting" /\ main' = "serving"
  BY <1>2 DEF StartUp, Jobs!Start, udp, Undisturbed, BeforeSignal
<1>3. CASE ~ BeforeSignal'
  BY <1>3 DEF Undisturbed
<1>4. CASE BesideMain
  BY <1>4, OnlyMainStops DEF Undisturbed, BeforeSignal
<1> QED BY <1>1, <1>2, <1>3, <1>4, Steps, MainMoves

-----------------------------------------------------------------------------
(* Steps that leave every message where it is, or move it on.               *)

NobodyLost == \A x \in Messages : x \in There' <=> x \in There

\* Such a step keeps the accounts.
LEMMA KeptSame ==
    Accounted /\ Waiting /\ NobodyLost /\ UNCHANGED <<received, sent, socket>>
        => Accounted' /\ Waiting'
<1> SUFFICES ASSUME Accounted, Waiting, NobodyLost, UNCHANGED <<received, sent, socket>>
             PROVE  Accounted' /\ Waiting'
  OBVIOUS
<1>1. There' \cap UDPMessages = There \cap UDPMessages
  BY Marks DEF NobodyLost
<1>2. There' \cap TCPMessages = There \cap TCPMessages
  BY Marks DEF NobodyLost
<1>3. Accounted'
  BY <1>1, <1>2 DEF Accounted
<1>4. Waiting'
  BY <1>1 DEF Waiting
<1> QED BY <1>3, <1>4

\* A forwarder moves a message from its listener's channel to the recorder and on
\* to Enqueue.
LEMMA ForwardKeeps ==
    ASSUME Parts, Undisturbed, BeforeSignal, main # "starting", NEW f \in Forwarders, Forward(f)
    PROVE  NobodyLost /\ UNCHANGED <<received, sent, socket>>
<1> USE DEF Parts, ForwardersOK
<1>1. UNCHANGED <<received, sent, socket>>
  BY DEF Forward, Receive, EndRange, Record, CallEnqueue, Forwards, udp, UDP!Taken
<1>2. isRunning = TRUE
  BY DEF Undisturbed, BeforeSignal
<1>3. \A g \in Forwarders : forwarder[g].pc \in {"receiving", "ended"} => forwarder[g].msg = NoMessage
  BY DEF ForwarderStates
<1>4. CASE Receive(f)
  <2>1. CASE UDP!Taken /\ Forwards(f, "receiving", Forwarding("recording", Head(messages)))
               /\ UNCHANGED <<tcp, jobs>>
    <3>1. ToSet(messages) = ToSet(messages') \cup {Head(messages)}
      BY <2>1, TailSet DEF UDP!Taken, ListenerOK, UDP!TypeOK
    <3>2. /\ \A g \in Forwarders : g # f => forwarder'[g].msg = forwarder[g].msg
          /\ forwarder[f].msg = NoMessage /\ forwarder'[f].msg = Head(messages)
      BY <1>3, <2>1 DEF Forwards, Forwarding
    <3>3. UNCHANGED <<tcpMessages, accepted, loop, datagram, holding>>
      BY <2>1 DEF UDP!Taken, tcp, jobs
    <3> QED BY <1>1, <3>1, <3>2, <3>3, Marks, PlacedMeans DEF Placed, NobodyLost
  <2>2. CASE /\ tcpMessages # <<>> /\ tcpMessages' = Tail(tcpMessages)
             /\ Forwards(f, "receiving", Forwarding("recording", Head(tcpMessages)))
             /\ UNCHANGED <<udp, jobs>>
    <3>1. ToSet(tcpMessages) = ToSet(tcpMessages') \cup {Head(tcpMessages)}
      BY <2>2, TailSet DEF TCPOK
    <3>2. /\ \A g \in Forwarders : g # f => forwarder'[g].msg = forwarder[g].msg
          /\ forwarder[f].msg = NoMessage /\ forwarder'[f].msg = Head(tcpMessages)
      BY <1>3, <2>2 DEF Forwards, Forwarding
    <3>3. UNCHANGED <<messages, accepted, loop, datagram, holding>>
      BY <2>2 DEF udp, jobs
    <3> QED BY <1>1, <3>1, <3>2, <3>3, Marks, PlacedMeans DEF Placed, NobodyLost
  <2> QED BY <1>4, <2>1, <2>2 DEF Receive
<1>5. CASE EndRange(f) \/ Record(f)
  <2>1. \A g \in Forwarders : forwarder'[g].msg = forwarder[g].msg
    BY <1>3, <1>5 DEF EndRange, Record, Forwards, Forwarding
  <2>2. UNCHANGED <<messages, tcpMessages, accepted, loop, datagram, holding>>
    BY <1>5 DEF EndRange, Record, udp, tcp, jobs
  <2> QED BY <1>1, <2>1, <2>2, PlacedMeans DEF Placed, NobodyLost
<1>6. CASE CallEnqueue(f)
  <2>1. /\ \A g \in Forwarders : g # f => forwarder'[g].msg = forwarder[g].msg
        /\ forwarder'[f].msg = NoMessage
    BY <1>6 DEF CallEnqueue, Forwards, Forwarding
  <2>2. /\ \A g \in Forwarders : g # f => holding'[g] = holding[g]
        /\ holding[f] = NoMessage /\ holding'[f] = forwarder[f].msg
    BY <1>2, <1>6 DEF CallEnqueue, Jobs!Call, QueueOK
  <2>3. UNCHANGED <<messages, tcpMessages, accepted, loop, datagram>>
    BY <1>2, <1>6 DEF CallEnqueue, Jobs!Call, udp, tcp
  <2> QED BY <1>1, <2>1, <2>2, <2>3, Marks, PlacedMeans DEF Placed, NobodyLost
<1> QED BY <1>1, <1>4, <1>5, <1>6 DEF Forward

\* Enqueue's select moves a message into the queue: it does not give up before
\* stopChan is closed.  A worker takes messages that the history remembers.
LEMMA QueueKeeps ==
    ASSUME Parts, Undisturbed, BeforeSignal, main # "starting",
           Pool \/ \E f \in Forwarders : InEnqueue(f)
    PROVE  NobodyLost /\ UNCHANGED <<received, sent, socket>>
<1>1. UNCHANGED <<received, sent, socket, messages, tcpMessages, loop, datagram, forwarder>>
  BY DEF Pool, InEnqueue, udp, tcp
<1>2. stopClosed = FALSE /\ jobsClosed = FALSE
  BY DEF Undisturbed, BeforeSignal
<1>3. CASE UNCHANGED <<holding, accepted>>
  BY <1>1, <1>3, PlacedMeans DEF Placed, NobodyLost
<1>4. ASSUME NEW f \in Forwarders, Jobs!Send(f) PROVE NobodyLost
  <2>1. holding[f] \in Messages /\ accepted' = Append(accepted, holding[f])
    BY <1>4 DEF Jobs!Send, Jobs!Returns, Parts, QueueOK
  <2>2. ToSet(accepted') = ToSet(accepted) \cup {holding[f]}
    BY <2>1, AppendSet DEF Parts, QueueOK
  <2>3. /\ \A g \in Forwarders : g # f => holding'[g] = holding[g]
        /\ holding'[f] = NoMessage
    BY <1>4 DEF Jobs!Send, Jobs!Returns, Parts, QueueOK
  <2> QED BY <1>1, <2>1, <2>2, <2>3, Marks, PlacedMeans DEF Placed, NobodyLost
<1>5. Pool => UNCHANGED <<holding, accepted>>
  BY DEF Pool, Jobs!Take, Jobs!PoolEnds
<1>6. ASSUME NEW f \in Forwarders, InEnqueue(f)
      PROVE  Jobs!Send(f) \/ UNCHANGED <<holding, accepted>>
  BY <1>2, <1>6 DEF InEnqueue, Jobs!Fail, Jobs!Panic
<1> QED BY <1>1, <1>3, <1>4, <1>5, <1>6

\* The listener's loop waits for room in the channel; only a read adds a message.
LEMMA LoopKeeps ==
    ASSUME Parts, Undisturbed, BeforeSignal, main # "starting", UDPLoop, ~ UDP!Read
    PROVE  NobodyLost /\ UNCHANGED <<received, sent, socket>>
<1>1. UNCHANGED <<received, sent, socket, tcpMessages, accepted, forwarder, holding>>
  BY DEF UDPLoop, UDP!LoopStep, UDP!Check, UDP!ReadClosed, UDP!Send, UDP!GiveUp, UDP!Report,
         UDP!Loop, jobs, tcp
<1>2. stopped = FALSE
  BY DEF Undisturbed, BeforeSignal
<1>3. CASE UDP!Send
  <2>1. datagram \in UDPMessages /\ loop = "sending" /\ loop' = "checking"
        /\ messages' = Append(messages, datagram)
    BY <1>3 DEF UDP!Send, UDP!Loop, Parts, ListenerOK
  <2>2. ToSet(messages') = ToSet(messages) \cup {datagram}
    BY <2>1, AppendSet DEF Parts, ListenerOK, UDP!TypeOK
  <2> QED BY <1>1, <2>1, <2>2, PlacedMeans DEF Placed, NobodyLost
<1>4. CASE UDP!Check \/ UDP!ReadClosed \/ UDP!Report
  <2>1. loop # "sending" /\ loop' # "sending" /\ UNCHANGED messages
    BY <1>4 DEF UDP!Check, UDP!ReadClosed, UDP!Report, UDP!Loop
  <2> QED BY <1>1, <2>1, PlacedMeans DEF Placed, NobodyLost
<1>5. ~ UDP!GiveUp
  BY <1>2 DEF UDP!GiveUp
<1> QED BY <1>1, <1>3, <1>4, <1>5 DEF UDPLoop, UDP!LoopStep

-----------------------------------------------------------------------------
(* Steps that bring a message.                                              *)

\* A datagram that is read leaves the kernel, and is accounted for if it is a message.
LEMMA ReadKeeps ==
    ASSUME Parts, Accounted, Waiting, UDPLoop, UDP!Read
    PROVE  Accounted' /\ Waiting'
<1> DEFINE d == Head(socket)
<1>1. UNCHANGED <<sent, messages, tcpMessages, accepted, forwarder, holding>>
  BY DEF UDPLoop, UDP!Read, UDP!Loop, jobs, tcp
<1>2. /\ loop = "reading" /\ socket # <<>> /\ socket' = Tail(socket)
      /\ d \in UDPMessages => loop' = "sending" /\ datagram' = d /\ received' = received + 1
      /\ d \notin UDPMessages => loop' # "sending" /\ received' = received
  BY DEF UDP!Read, UDP!Loop
<1>3. /\ Len(socket) \in Nat /\ Len(socket) > 0 /\ DOMAIN socket = 1 .. Len(socket)
      /\ d = socket[1] /\ DOMAIN socket' = 1 .. Len(socket) - 1
      /\ \A i \in 1 .. Len(socket) - 1 : socket'[i] = socket[i + 1]
  <2>1. socket \in Seq(UDPMessages \cup {Bad, Fault})
    BY DEF Parts, ListenerOK, UDP!TypeOK
  <2> QED BY <1>2, <2>1, HeadTailProperties, LenProperties
<1>4. 1 \in DOMAIN socket /\ \A i \in DOMAIN socket' : i + 1 \in DOMAIN socket /\ i + 1 # 1
  BY <1>3
<1>5. \A x \in Messages : x \in There' <=> x \in There \/ (d \in UDPMessages /\ x = d)
  BY <1>1, <1>2, PlacedMeans DEF Placed
<1>6. CASE d \in UDPMessages
  <2>1. There' \cap UDPMessages = (There \cap UDPMessages) \cup {d}
    BY <1>5, <1>6, Marks
  <2>2. There' \cap TCPMessages = There \cap TCPMessages
    BY <1>5, <1>6, Marks, ServerAssumption
  <2>3. d \in sent /\ d \notin There
    BY <1>3, <1>4, <1>6 DEF Waiting
  <2>4. IsFiniteSet(There' \cap UDPMessages)
        /\ Cardinality(There' \cap UDPMessages) = Cardinality(There \cap UDPMessages) + 1
    BY <2>1, <2>3, FS_AddElement DEF Accounted
  <2>5. Accounted'
    BY <1>1, <1>2, <1>6, <2>1, <2>2, <2>3, <2>4 DEF Accounted
  <2>6. ASSUME NEW i \in DOMAIN socket', socket'[i] \in UDPMessages
        PROVE  socket'[i] \in sent' \ There'
    <3>1. socket'[i] = socket[i + 1] /\ i + 1 \in DOMAIN socket /\ i + 1 # 1
      BY <1>3, <1>4
    <3>2. socket'[i] \in sent \ There /\ socket'[i] # d
      BY <1>3, <1>4, <2>6, <3>1 DEF Waiting
    <3> QED BY <1>1, <1>5, <2>6, <3>2, Marks
  <2>7. ASSUME NEW i \in DOMAIN socket', NEW j \in DOMAIN socket',
               socket'[i] \in UDPMessages, socket'[i] = socket'[j]
        PROVE  i = j
    <3>1. i + 1 = j + 1
      BY <1>3, <1>4, <2>7 DEF Waiting
    <3> QED BY <1>3, <3>1
  <2> QED BY <2>5, <2>6, <2>7 DEF Waiting
<1>7. CASE d \notin UDPMessages
  <2>1. There' \cap UDPMessages = There \cap UDPMessages
        /\ There' \cap TCPMessages = There \cap TCPMessages
    BY <1>5, <1>7, Marks
  <2>2. Accounted'
    BY <1>1, <1>2, <1>7, <2>1 DEF Accounted
  <2>3. ASSUME NEW i \in DOMAIN socket', socket'[i] \in UDPMessages
        PROVE  socket'[i] \in sent' \ There'
    BY <1>1, <1>3, <1>4, <2>1, <2>3 DEF Waiting
  <2>4. ASSUME NEW i \in DOMAIN socket', NEW j \in DOMAIN socket',
               socket'[i] \in UDPMessages, socket'[i] = socket'[j]
        PROVE  i = j
    <3>1. i + 1 = j + 1
      BY <1>3, <1>4, <2>4 DEF Waiting
    <3> QED BY <1>3, <3>1
  <2> QED BY <2>2, <2>3, <2>4 DEF Waiting
<1> QED BY <1>6, <1>7

\* A datagram that arrives waits behind the others; a message is new.
LEMMA ArrivalKeeps ==
    ASSUME Parts, Accounted, Waiting, NEW d \in Messages \cup {Bad, Fault}, UDP!Arrive(d),
           UNCHANGED <<tcp, jobs, forwarder>>,
           \/ d \in UDPMessages \ sent /\ sent' = sent \cup {d}
           \/ d \notin UDPMessages /\ sent' = sent
    PROVE  Accounted' /\ Waiting'
<1>1. UNCHANGED <<received, messages, loop, datagram, tcpMessages, accepted, holding, forwarder>>
  BY DEF UDP!Arrive, tcp, jobs
<1>2. There' = There
  BY <1>1 DEF There, OnTheirWay
<1>3. sent \subseteq sent' /\ sent' \cap TCPMessages = sent \cap TCPMessages
  BY ServerAssumption
<1>4. Accounted'
  BY <1>1, <1>2, <1>3 DEF Accounted
<1>5. /\ Len(socket) \in Nat /\ DOMAIN socket = 1 .. Len(socket)
      /\ DOMAIN socket' = 1 .. Len(socket) + 1
      /\ \A i \in 1 .. Len(socket) : socket'[i] = socket[i]
      /\ socket'[Len(socket) + 1] = d
  <2>1. socket \in Seq(UDPMessages \cup {Bad, Fault, d}) /\ socket' = Append(socket, d)
    <3>1. socket \in Seq(UDPMessages \cup {Bad, Fault})
      BY DEF Parts, ListenerOK, UDP!TypeOK
    <3> QED BY <3>1, SeqMonotonic DEF UDP!Arrive
  <2> QED BY <2>1, AppendProperties, LenProperties
<1>6. ASSUME NEW i \in DOMAIN socket'
      PROVE  \/ i \in DOMAIN socket /\ socket'[i] = socket[i]
             \/ i = Len(socket) + 1 /\ socket'[i] = d
  BY <1>5
<1>7. d \in UDPMessages => d \in sent' /\ d \notin There
  BY DEF Accounted
<1>8. ASSUME NEW i \in DOMAIN socket', socket'[i] \in UDPMessages
      PROVE  socket'[i] \in sent' \ There'
  BY <1>2, <1>3, <1>6, <1>7, <1>8 DEF Waiting
<1>9. ASSUME NEW i \in DOMAIN socket', NEW j \in DOMAIN socket',
             socket'[i] \in UDPMessages, socket'[i] = socket'[j]
      PROVE  i = j
  <2>1. d \in UDPMessages => \A k \in DOMAIN socket : socket[k] # d
    BY DEF Waiting
  <2> QED BY <1>6, <1>9, <2>1 DEF Waiting
<1> QED BY <1>4, <1>8, <1>9 DEF Waiting

\* A message that comes by TCP is in the channel, and new.
LEMMA TCPArrivalKeeps ==
    ASSUME Parts, Accounted, Waiting, NEW m \in Messages, ArriveTCP(m)
    PROVE  Accounted' /\ Waiting'
<1>1. /\ UNCHANGED <<received, socket, messages, loop, datagram, accepted, holding, forwarder>>
      /\ m \in TCPMessages /\ sent' = sent \cup {m} /\ tcpMessages' = Append(tcpMessages, m)
  BY DEF ArriveTCP, udp, jobs
<1>2. ToSet(tcpMessages') = ToSet(tcpMessages) \cup {m}
  BY <1>1, AppendSet DEF Parts, TCPOK
<1>3. There' = There \cup {m}
  <2>1. \A x : x \in There' <=> x \in There \/ x = m
    BY <1>1, <1>2, PlacedMeans DEF Placed
  <2> QED BY <2>1
<1>4. m \notin UDPMessages
  BY <1>1, ServerAssumption
<1>5. There' \cap UDPMessages = There \cap UDPMessages
  BY <1>3, <1>4
<1>6. Accounted'
  BY <1>1, <1>3, <1>5 DEF Accounted
<1>7. Waiting'
  BY <1>1, <1>3, <1>4 DEF Waiting
<1> QED BY <1>6, <1>7

\* Every step before the signal keeps the accounts.
LEMMA KeptStep == Parts /\ Undisturbed /\ Kept /\ [Next]_serverVars => Kept'
<1> SUFFICES ASSUME Parts, Undisturbed, Kept, [Next]_serverVars, BeforeSignal'
             PROVE  Accounted' /\ Waiting'
  BY DEF Kept
<1>1. CASE UNCHANGED serverVars
  <2>1. BeforeSignal /\ There' = There /\ UNCHANGED <<received, sent, socket>>
    BY <1>1 DEF serverVars, udp, tcp, jobs, BeforeSignal, There, OnTheirWay
  <2> QED BY <2>1, KeptSame DEF Kept, NobodyLost
<1>2. CASE StartUp /\ main = "starting"
  <2>1. UNCHANGED <<udp, tcp, holding, accepted, forwarder, sent>>
    BY <1>2 DEF StartUp, Main, Jobs!Start
  <2>2. BeforeSignal /\ There' = There /\ UNCHANGED <<received, sent, socket>>
    BY <1>2, <2>1 DEF udp, tcp, BeforeSignal, There, OnTheirWay
  <2> QED BY <2>2, KeptSame DEF Kept, NobodyLost
<1>3. CASE main # "starting" /\ BesideMain
  <2>1. BeforeSignal
    BY <1>3, OnlyMainStops DEF BeforeSignal
  <2>2. Accounted /\ Waiting
    BY <2>1 DEF Kept
  <2>3. CASE Pool \/ \E f \in Forwarders : InEnqueue(f)
    BY <1>3, <2>1, <2>2, <2>3, QueueKeeps, KeptSame
  <2>4. ASSUME NEW f \in Forwarders, Forward(f) PROVE Accounted' /\ Waiting'
    BY <1>3, <2>1, <2>2, <2>4, ForwardKeeps, KeptSame
  <2>5. CASE UDPLoop
    <3>1. CASE UDP!Read
      BY <2>2, <2>5, <3>1, ReadKeeps
    <3>2. CASE ~ UDP!Read
      BY <1>3, <2>1, <2>2, <2>5, <3>2, LoopKeeps, KeptSame
    <3> QED BY <3>1, <3>2
  <2>6. CASE ArriveNoise
    <3>1. PICK d \in {Bad, Fault} : UDP!Arrive(d)
      BY <2>6 DEF ArriveNoise
    <3>2. UNCHANGED <<tcp, jobs, forwarder, sent>> /\ d \notin UDPMessages
      BY <2>6, Marks DEF ArriveNoise
    <3> QED BY <2>2, <3>1, <3>2, ArrivalKeeps
  <2>7. ASSUME NEW m \in Messages, ArriveUDP(m) PROVE Accounted' /\ Waiting'
    <3>1. /\ UDP!Arrive(m) /\ m \in UDPMessages \ sent /\ sent' = sent \cup {m}
          /\ UNCHANGED <<tcp, jobs, forwarder>>
      BY <2>7 DEF ArriveUDP
    <3> QED BY <2>2, <3>1, ArrivalKeeps
  <2>8. ASSUME NEW m \in Messages, ArriveTCP(m) PROVE Accounted' /\ Waiting'
    BY <2>2, <2>8, TCPArrivalKeeps
  <2>9. CASE LateClientLeaves
    <3>1. UNCHANGED <<udp, tcpMessages, jobs, forwarder, sent>>
      BY <2>9 DEF LateClientLeaves
    <3>2. There' = There /\ UNCHANGED <<received, sent, socket>>
      BY <3>1 DEF udp, jobs, There, OnTheirWay
    <3> QED BY <2>1, <2>2, <3>2, KeptSame DEF NobodyLost
  <2> QED BY <1>3, <2>3, <2>4, <2>5, <2>6, <2>7, <2>8, <2>9 DEF BesideMain
<1> QED BY <1>1, <1>2, <1>3, Steps, MainMoves

\* Nothing is on its way, or has been sent, at first.
LEMMA KeptInit == Init => Kept /\ Undisturbed
<1> SUFFICES ASSUME Init PROVE Kept /\ Undisturbed
  OBVIOUS
<1>1. /\ messages = <<>> /\ socket = <<>> /\ loop = "checking" /\ received = 0
      /\ accepted = <<>> /\ holding = [f \in Forwarders \cup {} |-> NoMessage]
      /\ tcpMessages = <<>> /\ sent = {}
      /\ forwarder = [f \in Forwarders |-> Forwarding("receiving", NoMessage)]
  BY DEF Init, UDP!Init, Jobs!Init
<1>2. \A x \in Messages : x \notin There
  <2>1. ToSet(<<>>) = {}
    BY DEF ToSet
  <2>2. \A f \in Forwarders : forwarder[f].msg = NoMessage /\ holding[f] = NoMessage
    BY <1>1 DEF Forwarding
  <2> QED BY <1>1, <2>1, <2>2, Marks, PlacedMeans DEF Placed
<1>3. There \cap UDPMessages = {}
  BY <1>2, Marks
<1>4. Accounted
  BY <1>1, <1>3, FS_EmptySet DEF Accounted
<1>5. Waiting
  BY <1>1 DEF Waiting
<1>6. Undisturbed
  BY DEF Init, UDP!Init, Jobs!Init, Undisturbed
<1> QED BY <1>4, <1>5, <1>6 DEF Kept

\* While the server serves, nothing that it has read is dropped, whatever channel or
\* queue is full and however its goroutines interleave: every message that the UDP
\* listener counts as received, and every one that came by TCP, is in a channel, with
\* a goroutine or accepted by the processor.
THEOREM NothingDroppedCorrect == Spec => []NothingDroppedWhileServing
<1>1. Parts /\ Undisturbed /\ Kept /\ [Next]_serverVars => Undisturbed' /\ Kept'
  BY UndisturbedStep, KeptStep
<1>2. Kept => NothingDroppedWhileServing
  BY DEF Kept, BeforeSignal, Accounted, NothingDroppedWhileServing, There
<1> QED BY <1>1, <1>2, KeptInit, AlwaysParts, PTL DEF Spec

-----------------------------------------------------------------------------
(* The order of the file.                                                   *)

Own(f) == IF f = "udp" THEN UDPMessages ELSE TCPMessages

\* Where a message can be, from the socket to the queue: at first it is not
\* recorded.
InSocket    == ToSet(socket) \cap UDPMessages
InLoop      == IF loop = "sending" THEN {datagram} ELSE {}
InChannel   == ToSet(messages) \cup ToSet(tcpMessages)
InRecording == {m \in Messages : \E f \in Forwarders :
                    forwarder[f].pc = "recording" /\ forwarder[f].msg = m}

\* The message at hand is before Enqueue or inside it.
AtHand == {m \in Messages : \E f \in Forwarders :
               holding[f] = m \/ (forwarder[f].pc = "calling" /\ forwarder[f].msg = m)}

Past4 == AtHand \cup ToSet(accepted) \cup ToSet(file)
Past3 == InRecording \cup Past4
Past2 == InChannel \cup Past3
Past1 == InLoop \cup Past2

\* A message is in one place only; where it was before it will not come again.
Apart ==
    /\ InSocket \cap Past1 = {} /\ InLoop \cap Past2 = {}
    /\ InChannel \cap Past3 = {} /\ InRecording \cap Past4 = {}
    /\ AtHand \cap ToSet(accepted) = {}
    /\ InSocket \cup Past1 \subseteq sent

\* No message is anywhere twice.
NoRepeats ==
    /\ \A i, j \in DOMAIN socket : socket[i] = socket[j] /\ socket[i] \in UDPMessages => i = j
    /\ IsInjective(messages) /\ IsInjective(tcpMessages)
    /\ file \in Seq(Messages) /\ IsInjective(file) /\ IsInjective(accepted)

\* A forwarder has the messages of its protocol, one at a time.
OneAtATime ==
    \A f \in Forwarders :
        /\ forwarder[f].msg \in Own(f) \cup {NoMessage}
        /\ holding[f] \in Own(f) \cup {NoMessage}
        /\ holding[f] # NoMessage => forwarder[f].pc = "receiving"

\* What is at hand was recorded last of its protocol, if at all.
LastRecorded ==
    \A f \in Forwarders : \A m \in AtHand \cap Own(f), i, j \in DOMAIN file :
        file[i] = m /\ file[j] \in Own(f) => j <= i

InOrder == Apart /\ NoRepeats /\ OneAtATime /\ LastRecorded /\ FileKeepsOrder

\* A sequence without repetitions stays one when it grows by something new, and
\* without its head.
LEMMA AppendNew ==
    ASSUME NEW S, NEW s \in Seq(S), NEW e \in S, e \notin ToSet(s), IsInjective(s)
    PROVE  IsInjective(Append(s, e))
<1>1. /\ Len(s) \in Nat /\ DOMAIN s = 1 .. Len(s)
      /\ DOMAIN Append(s, e) = 1 .. Len(s) + 1
      /\ \A i \in 1 .. Len(s) : Append(s, e)[i] = s[i]
      /\ Append(s, e)[Len(s) + 1] = e
  BY AppendProperties, LenProperties
<1> DEFINE n == Len(s)
           r == Append(s, e)
<1> HIDE DEF n, r
<1>2. \A i \in 1 .. n : r[i] = s[i] /\ s[i] # e
  BY <1>1 DEF n, r, ToSet
<1>3. n \in Nat /\ DOMAIN s = 1 .. n /\ DOMAIN r = 1 .. n + 1 /\ r[n + 1] = e
  BY <1>1 DEF n, r
<1>4. IsInjective(r)
  BY <1>2, <1>3 DEF IsInjective
<1> QED BY <1>4 DEF r

LEMMA TailNew ==
    ASSUME NEW S, NEW s \in Seq(S), s # <<>>, IsInjective(s)
    PROVE  IsInjective(Tail(s)) /\ Head(s) \notin ToSet(Tail(s))
<1>1. /\ Len(s) \in Nat /\ Len(s) > 0 /\ DOMAIN s = 1 .. Len(s) /\ Head(s) = s[1]
      /\ DOMAIN Tail(s) = 1 .. Len(s) - 1
      /\ \A i \in 1 .. Len(s) - 1 : Tail(s)[i] = s[i + 1]
  BY HeadTailProperties, LenProperties
<1> DEFINE n == Len(s)
           r == Tail(s)
<1> HIDE DEF n, r
<1>2. /\ n \in Nat /\ n > 0 /\ DOMAIN s = 1 .. n /\ Head(s) = s[1] /\ DOMAIN r = 1 .. n - 1
      /\ \A i \in 1 .. n - 1 : r[i] = s[i + 1] /\ i + 1 \in 1 .. n /\ 1 \in 1 .. n
  BY <1>1 DEF n, r
<1>3. ASSUME NEW i \in DOMAIN r, NEW j \in DOMAIN r, r[i] = r[j] PROVE i = j
  <2>1. s[i + 1] = s[j + 1] /\ i + 1 \in DOMAIN s /\ j + 1 \in DOMAIN s
    BY <1>2, <1>3
  <2>2. i + 1 = j + 1
    BY <2>1 DEF IsInjective
  <2> QED BY <1>2, <2>2
<1>4. ASSUME NEW i \in DOMAIN r, r[i] = Head(s) PROVE FALSE
  <2>1. s[i + 1] = s[1] /\ i + 1 \in DOMAIN s /\ 1 \in DOMAIN s
    BY <1>2, <1>4
  <2>2. i + 1 = 1
    BY <2>1 DEF IsInjective
  <2> QED BY <1>2, <2>2
<1> QED BY <1>3, <1>4 DEF r, IsInjective, ToSet

\* Nothing moves.
Places == <<socket, loop, datagram, messages, tcpMessages, forwarder, holding, file, accepted, sent>>

LEMMA PlacesStay == InOrder /\ UNCHANGED Places => InOrder'
BY DEF InOrder, Apart, NoRepeats, OneAtATime, LastRecorded, FileKeepsOrder, Places, InSocket,
       InLoop, InChannel, InRecording, AtHand, Past4, Past3, Past2, Past1

\* Messages are given up before the queue.
GivenUp ==
    /\ UNCHANGED <<file, accepted, sent>>
    /\ InSocket' \subseteq InSocket /\ InLoop' \subseteq InLoop /\ InChannel' \subseteq InChannel
    /\ InRecording' \subseteq InRecording /\ AtHand' \subseteq AtHand

LEMMA GivenUpInOrder == InOrder /\ GivenUp /\ NoRepeats' /\ OneAtATime' => InOrder'
<1> SUFFICES ASSUME InOrder, GivenUp, NoRepeats', OneAtATime' PROVE InOrder'
  OBVIOUS
<1>1. Past4' \subseteq Past4 /\ Past3' \subseteq Past3 /\ Past2' \subseteq Past2 /\ Past1' \subseteq Past1
  BY DEF GivenUp, Past4, Past3, Past2, Past1
<1>2. Apart'
  BY <1>1 DEF InOrder, Apart, GivenUp
<1>3. LastRecorded'
  BY DEF InOrder, LastRecorded, GivenUp, Own
<1>4. FileKeepsOrder'
  BY DEF InOrder, FileKeepsOrder, GivenUp
<1> QED BY <1>2, <1>3, <1>4 DEF InOrder

-----------------------------------------------------------------------------
\* A message that arrives is new everywhere.
LEMMA ArriveUDPInOrder ==
    ASSUME Parts, InOrder, NEW m \in Messages, ArriveUDP(m) PROVE InOrder'
<1>1. /\ m \in UDPMessages \ sent /\ socket' = Append(socket, m) /\ sent' = sent \cup {m}
      /\ UNCHANGED <<loop, datagram, messages, tcpMessages, forwarder, holding, file, accepted>>
  BY DEF ArriveUDP, UDP!Arrive, tcp, jobs, recorder
<1>2. socket \in Seq(UDPMessages \cup {Bad, Fault})
  BY DEF Parts, ListenerOK, UDP!TypeOK
<1>3. InSocket' = InSocket \cup {m}
  <2>1. ToSet(socket') = ToSet(socket) \cup {m}
    BY <1>1, <1>2, AppendSet
  <2> QED BY <1>1, <2>1 DEF InSocket
<1>4. /\ InLoop' = InLoop /\ InChannel' = InChannel /\ InRecording' = InRecording /\ AtHand' = AtHand
      /\ Past4' = Past4 /\ Past3' = Past3 /\ Past2' = Past2 /\ Past1' = Past1
  BY <1>1 DEF InLoop, InChannel, InRecording, AtHand, Past4, Past3, Past2, Past1
<1>5. Apart'
  BY <1>1, <1>3, <1>4 DEF InOrder, Apart
<1>6. NoRepeats'
  <2> DEFINE n == Len(socket)
  <2>1. /\ n \in Nat /\ DOMAIN socket = 1 .. n /\ DOMAIN socket' = 1 .. n + 1
        /\ \A i \in 1 .. n : socket'[i] = socket[i]
        /\ socket'[n + 1] = m
    BY <1>1, <1>2, AppendProperties, LenProperties
  <2> HIDE DEF n
  <2>2. \A i \in 1 .. n : socket[i] # m
    BY <1>1, <2>1 DEF InOrder, Apart, InSocket, ToSet
  <2>3. \A i, j \in DOMAIN socket' : socket'[i] = socket'[j] /\ socket'[i] \in UDPMessages => i = j
    BY <2>1, <2>2 DEF InOrder, NoRepeats
  <2> QED BY <1>1, <2>3 DEF InOrder, NoRepeats
<1>7. OneAtATime' /\ LastRecorded' /\ FileKeepsOrder'
  BY <1>1, <1>4 DEF InOrder, OneAtATime, LastRecorded, FileKeepsOrder
<1> QED BY <1>5, <1>6, <1>7 DEF InOrder

LEMMA ArriveTCPInOrder ==
    ASSUME Parts, InOrder, NEW m \in Messages, ArriveTCP(m) PROVE InOrder'
<1>1. /\ m \in TCPMessages \ sent /\ tcpMessages' = Append(tcpMessages, m) /\ sent' = sent \cup {m}
      /\ UNCHANGED <<socket, loop, datagram, messages, forwarder, holding, file, accepted>>
  BY DEF ArriveTCP, udp, jobs, recorder
<1>2. tcpMessages \in Seq(TCPMessages)
  BY DEF Parts, TCPOK
<1>3. ToSet(tcpMessages') = ToSet(tcpMessages) \cup {m}
  BY <1>1, <1>2, AppendSet
<1>4. /\ InSocket' = InSocket /\ InLoop' = InLoop /\ InChannel' = InChannel \cup {m}
      /\ InRecording' = InRecording /\ AtHand' = AtHand
  BY <1>1, <1>3 DEF InSocket, InLoop, InChannel, InRecording, AtHand
<1>5. Apart'
  BY <1>1, <1>4 DEF InOrder, Apart, Past4, Past3, Past2, Past1
<1>6. NoRepeats'
  <2>1. m \notin ToSet(tcpMessages)
    BY <1>1 DEF InOrder, Apart, InChannel, Past2, Past1
  <2>2. IsInjective(tcpMessages')
    BY <1>1, <1>2, <2>1, AppendNew DEF InOrder, NoRepeats
  <2> QED BY <1>1, <2>2 DEF InOrder, NoRepeats
<1>7. OneAtATime' /\ LastRecorded' /\ FileKeepsOrder'
  BY <1>1, <1>4 DEF InOrder, OneAtATime, LastRecorded, FileKeepsOrder
<1> QED BY <1>5, <1>6, <1>7 DEF InOrder


-----------------------------------------------------------------------------
\* The listener's loop: a datagram that is read leaves the socket, and one that is
\* sent leaves the loop.
LEMMA ReadInOrder ==
    ASSUME Parts, InOrder, UDPLoop, UDP!Read PROVE InOrder'
<1> DEFINE d == Head(socket)
           n == Len(socket)
<1>1. /\ loop = "reading" /\ socket # <<>> /\ socket' = Tail(socket)
      /\ d \in UDPMessages => loop' = "sending" /\ datagram' = d
      /\ d \notin UDPMessages => loop' # "sending"
      /\ UNCHANGED <<messages, tcpMessages, forwarder, holding, file, accepted, sent>>
  BY DEF UDPLoop, UDP!Read, UDP!Loop, tcp, jobs, recorder
<1>2. /\ n \in Nat /\ n > 0 /\ DOMAIN socket = 1 .. n
      /\ d = socket[1] /\ DOMAIN socket' = 1 .. n - 1
      /\ \A i \in 1 .. n - 1 : socket'[i] = socket[i + 1]
  <2>1. socket \in Seq(UDPMessages \cup {Bad, Fault})
    BY DEF Parts, ListenerOK, UDP!TypeOK
  <2> QED BY <1>1, <2>1, HeadTailProperties, LenProperties
<1> HIDE DEF n, d
<1>3. 1 \in DOMAIN socket /\ \A i \in DOMAIN socket' : i + 1 \in DOMAIN socket /\ i + 1 # 1
  BY <1>2
<1>4. ASSUME NEW i \in DOMAIN socket', NEW j \in DOMAIN socket', socket'[i] = socket'[j],
             socket'[i] \in UDPMessages
      PROVE  i = j
  <2>1. i + 1 = j + 1
    BY <1>2, <1>3, <1>4 DEF InOrder, NoRepeats
  <2> QED BY <1>2, <2>1
<1>5. NoRepeats'
  BY <1>1, <1>4 DEF InOrder, NoRepeats
<1>6. ASSUME NEW x \in InSocket' PROVE x \in InSocket /\ x # d
  <2>1. PICK i \in DOMAIN socket' : socket'[i] = x
    BY DEF InSocket, ToSet
  <2>2. socket[i + 1] = x /\ x \in UDPMessages
    BY <1>2, <2>1 DEF InSocket
  <2>3. x # d
    BY <1>2, <1>3, <2>1, <2>2 DEF InOrder, NoRepeats
  <2> QED BY <1>3, <2>1, <2>2, <2>3 DEF InSocket, ToSet
<1>7. d \in UDPMessages => d \in InSocket
  BY <1>2, <1>3 DEF InSocket, ToSet
<1>8. InLoop = {} /\ InLoop' \subseteq {d} \cap UDPMessages
  BY <1>1 DEF InLoop
<1>9. /\ InChannel' = InChannel /\ InRecording' = InRecording /\ AtHand' = AtHand
      /\ Past4' = Past4 /\ Past3' = Past3 /\ Past2' = Past2
  BY <1>1 DEF InChannel, InRecording, AtHand, Past4, Past3, Past2
<1>10. Past1' = InLoop' \cup Past2 /\ Past1 = Past2
  BY <1>8, <1>9 DEF Past1
<1>11. Apart'
  BY <1>1, <1>6, <1>7, <1>8, <1>9, <1>10 DEF InOrder, Apart
<1>12. OneAtATime' /\ LastRecorded' /\ FileKeepsOrder'
  BY <1>1, <1>9 DEF InOrder, OneAtATime, LastRecorded, FileKeepsOrder
<1> QED BY <1>5, <1>11, <1>12 DEF InOrder

LEMMA SendInOrder ==
    ASSUME Parts, InOrder, UDPLoop, UDP!Send PROVE InOrder'
<1>1. /\ loop = "sending" /\ loop' = "checking" /\ messages' = Append(messages, datagram)
      /\ UNCHANGED <<socket, tcpMessages, forwarder, holding, file, accepted, sent>>
  BY DEF UDPLoop, UDP!Send, UDP!Loop, tcp, jobs, recorder
<1>2. messages \in Seq(UDPMessages) /\ datagram \in UDPMessages
  BY <1>1 DEF Parts, ListenerOK, UDP!TypeOK
<1>3. ToSet(messages') = ToSet(messages) \cup {datagram}
  BY <1>1, <1>2, AppendSet
<1>4. /\ InSocket' = InSocket /\ InLoop = {datagram} /\ InLoop' = {}
      /\ InChannel' = InChannel \cup {datagram}
      /\ InRecording' = InRecording /\ AtHand' = AtHand
  BY <1>1, <1>3 DEF InSocket, InLoop, InChannel, InRecording, AtHand
<1>5. Apart'
  BY <1>1, <1>4 DEF InOrder, Apart, Past4, Past3, Past2, Past1
<1>6. NoRepeats'
  <2>1. datagram \notin ToSet(messages)
    BY <1>4 DEF InOrder, Apart, InChannel, Past2
  <2>2. IsInjective(messages')
    BY <1>1, <1>2, <2>1, AppendNew DEF InOrder, NoRepeats
  <2> QED BY <1>1, <2>2 DEF InOrder, NoRepeats
<1>7. OneAtATime' /\ LastRecorded' /\ FileKeepsOrder'
  BY <1>1, <1>4 DEF InOrder, OneAtATime, LastRecorded, FileKeepsOrder
<1> QED BY <1>5, <1>6, <1>7 DEF InOrder

LEMMA LoopInOrder ==
    ASSUME Parts, InOrder, UDPLoop, ~ UDP!Read, ~ UDP!Send PROVE InOrder'
<1>1. UNCHANGED <<socket, messages, tcpMessages, forwarder, holding, file, accepted, sent>>
  BY DEF UDPLoop, UDP!LoopStep, UDP!Check, UDP!ReadClosed, UDP!GiveUp, UDP!Report, UDP!Loop,
         tcp, jobs, recorder
<1>2. loop' # "sending"
  BY DEF UDPLoop, UDP!LoopStep, UDP!Check, UDP!ReadClosed, UDP!GiveUp, UDP!Report, UDP!Loop
<1>3. GivenUp
  BY <1>1, <1>2 DEF GivenUp, InSocket, InLoop, InChannel, InRecording, AtHand
<1>4. NoRepeats' /\ OneAtATime'
  BY <1>1 DEF InOrder, NoRepeats, OneAtATime
<1> QED BY <1>3, <1>4, GivenUpInOrder

\* What is rejected is no message.
LEMMA NoiseInOrder ==
    ASSUME Parts, InOrder, ArriveNoise PROVE InOrder'
<1>1. PICK d \in {Bad, Fault} : UDP!Arrive(d)
  BY DEF ArriveNoise
<1>2. /\ d \notin UDPMessages /\ socket' = Append(socket, d)
      /\ UNCHANGED <<loop, datagram, messages, tcpMessages, forwarder, holding, file, accepted, sent>>
  BY <1>1, Marks DEF ArriveNoise, UDP!Arrive, tcp, jobs, recorder
<1>3. socket \in Seq(UDPMessages \cup {Bad, Fault})
  BY DEF Parts, ListenerOK, UDP!TypeOK
<1>4. InSocket' = InSocket
  <2>1. ToSet(socket') = ToSet(socket) \cup {d}
    BY <1>2, <1>3, AppendSet
  <2> QED BY <1>2, <2>1 DEF InSocket
<1>5. GivenUp
  BY <1>2, <1>4 DEF GivenUp, InLoop, InChannel, InRecording, AtHand
<1>6. NoRepeats'
  <2> DEFINE n == Len(socket)
  <2>1. /\ n \in Nat /\ DOMAIN socket = 1 .. n /\ DOMAIN socket' = 1 .. n + 1
        /\ \A i \in 1 .. n : socket'[i] = socket[i]
        /\ socket'[n + 1] = d
    BY <1>2, <1>3, AppendProperties, LenProperties
  <2> HIDE DEF n
  <2>2. \A i, j \in DOMAIN socket' : socket'[i] = socket'[j] /\ socket'[i] \in UDPMessages => i = j
    BY <1>2, <2>1 DEF InOrder, NoRepeats
  <2> QED BY <1>2, <2>2 DEF InOrder, NoRepeats
<1>7. OneAtATime'
  BY <1>2 DEF InOrder, OneAtATime
<1> QED BY <1>5, <1>6, <1>7, GivenUpInOrder

-----------------------------------------------------------------------------
\* A forwarder has no more than one message.
LEMMA Owners ==
    /\ \A f, g \in Forwarders : f # g => Own(f) \cap Own(g) = {}
    /\ \A f \in Forwarders : Own(f) \in {UDPMessages, TCPMessages} /\ NoMessage \notin Own(f)
BY ServerAssumption, Marks DEF Own, Forwarders

LEMMA NothingAtHand ==
    ASSUME OneAtATime, NEW f \in Forwarders, holding[f] = NoMessage, forwarder[f].pc # "calling"
    PROVE  AtHand \cap Own(f) = {}
<1> SUFFICES ASSUME NEW m \in AtHand, m \in Own(f) PROVE FALSE
  OBVIOUS
<1>1. PICK g \in Forwarders : holding[g] = m \/ (forwarder[g].pc = "calling" /\ forwarder[g].msg = m)
  BY DEF AtHand
<1>2. g # f /\ m \in Own(g)
  BY <1>1, Owners DEF OneAtATime
<1> QED BY <1>2, Owners

\* Its next message is one of its own.
LEMMA ForwardsOneAtATime ==
    ASSUME Parts, OneAtATime, NEW f \in Forwarders, NEW from, NEW next,
           Forwards(f, from, next), UNCHANGED holding, next.msg \in Own(f) \cup {NoMessage}
    PROVE  OneAtATime'
<1>1. /\ forwarder'[f] = next /\ holding[f] = NoMessage
      /\ \A g \in Forwarders : g # f => forwarder'[g] = forwarder[g]
  BY DEF Forwards, Parts, ForwardersOK
<1> QED BY <1>1 DEF OneAtATime, Own

\* A forwarder receives: a message goes from the channel to the recorder.
LEMMA ReceiveInOrder ==
    ASSUME Parts, InOrder, NEW f \in Forwarders, NEW x \in Own(f),
           Forwards(f, "receiving", Forwarding("recording", x)),
           InChannel = InChannel' \cup {x}, x \notin InChannel',
           IsInjective(messages)', IsInjective(tcpMessages)',
           UNCHANGED <<socket, loop, datagram, holding, file, accepted>>
    PROVE  InOrder'
<1>1. /\ forwarder[f].pc = "receiving" /\ forwarder'[f] = Forwarding("recording", x)
      /\ \A g \in Forwarders : g # f => forwarder'[g] = forwarder[g]
      /\ sent' = sent
  BY DEF Forwards, Parts, ForwardersOK
<1>2. forwarder'[f].pc = "recording" /\ forwarder'[f].msg = x /\ x \in Messages
  BY <1>1, Marks, Owners DEF Forwarding
<1>3. AtHand' = AtHand
  <2>1. ASSUME NEW m \in Messages PROVE m \in AtHand' <=> m \in AtHand
    BY <1>1, <1>2 DEF AtHand
  <2> QED BY <2>1 DEF AtHand
<1>4. InRecording' = InRecording \cup {x}
  <2>1. ASSUME NEW m \in Messages PROVE m \in InRecording' <=> m \in InRecording \/ m = x
    BY <1>1, <1>2 DEF InRecording
  <2> QED BY <1>2, <2>1 DEF InRecording
<1>5. /\ InSocket' = InSocket /\ InLoop' = InLoop /\ Past4' = Past4
      /\ Past3' = Past3 \cup {x} /\ Past2' = Past2 /\ Past1' = Past1
  BY <1>3, <1>4 DEF InSocket, InLoop, Past4, Past3, Past2, Past1
<1>6. Apart'
  <2>1. x \notin Past3
    BY DEF InOrder, Apart
  <2>2. x \notin Past4
    BY <2>1 DEF Past3
  <2> QED BY <1>1, <1>3, <1>4, <1>5, <2>2 DEF InOrder, Apart
<1>7. NoRepeats'
  BY DEF InOrder, NoRepeats
<1>8. OneAtATime'
  BY ForwardsOneAtATime DEF InOrder, Forwarding
<1>9. LastRecorded' /\ FileKeepsOrder'
  BY <1>3 DEF InOrder, LastRecorded, FileKeepsOrder, Own
<1> QED BY <1>6, <1>7, <1>8, <1>9 DEF InOrder

LEMMA ReceivesInOrder ==
    ASSUME Parts, InOrder, NEW f \in Forwarders, Receive(f) PROVE InOrder'
<1>0. messages \in Seq(UDPMessages) /\ tcpMessages \in Seq(TCPMessages)
  BY DEF Parts, ListenerOK, UDP!TypeOK, TCPOK
<1>1. CASE f = "udp"
  <2> DEFINE x == Head(messages)
  <2>1. /\ messages # <<>> /\ messages' = Tail(messages)
        /\ Forwards(f, "receiving", Forwarding("recording", x))
        /\ UNCHANGED <<socket, loop, datagram, tcpMessages, holding, file, accepted>>
    BY <1>1 DEF Receive, Source, UDP!Taken, tcp, jobs, recorder
  <2>2. x \in UDPMessages /\ ToSet(messages) = ToSet(messages') \cup {x}
    BY <1>0, <2>1, TailSet, TailShorter
  <2>3. IsInjective(messages') /\ x \notin ToSet(messages')
    BY <1>0, <2>1, TailNew DEF InOrder, NoRepeats
  <2>4. x \notin ToSet(tcpMessages)
    BY <1>0, <2>2, ServerAssumption DEF ToSet
  <2> HIDE DEF x
  <2>5. x \in Own(f)
    BY <1>1, <2>2 DEF Own
  <2>6. InChannel = InChannel' \cup {x} /\ x \notin InChannel'
    BY <2>1, <2>2, <2>3, <2>4 DEF InChannel
  <2>7. IsInjective(messages)' /\ IsInjective(tcpMessages)'
    BY <2>1, <2>3 DEF InOrder, NoRepeats
  <2> QED BY <2>1, <2>5, <2>6, <2>7, ReceiveInOrder
<1>2. CASE f = "tcp"
  <2> DEFINE x == Head(tcpMessages)
  <2>1. /\ tcpMessages # <<>> /\ tcpMessages' = Tail(tcpMessages)
        /\ Forwards(f, "receiving", Forwarding("recording", x))
        /\ UNCHANGED <<socket, loop, datagram, messages, holding, file, accepted>>
    BY <1>2 DEF Receive, Source, udp, jobs, recorder
  <2>2. x \in TCPMessages /\ ToSet(tcpMessages) = ToSet(tcpMessages') \cup {x}
    BY <1>0, <2>1, TailSet, TailShorter
  <2>3. IsInjective(tcpMessages') /\ x \notin ToSet(tcpMessages')
    BY <1>0, <2>1, TailNew DEF InOrder, NoRepeats
  <2>4. x \notin ToSet(messages)
    BY <1>0, <2>2, ServerAssumption DEF ToSet
  <2> HIDE DEF x
  <2>5. x \in Own(f)
    BY <1>2, <2>2 DEF Own
  <2>6. InChannel = InChannel' \cup {x} /\ x \notin InChannel'
    BY <2>1, <2>2, <2>3, <2>4 DEF InChannel
  <2>7. IsInjective(messages)' /\ IsInjective(tcpMessages)'
    BY <2>1, <2>3 DEF InOrder, NoRepeats
  <2> QED BY <2>1, <2>5, <2>6, <2>7, ReceiveInOrder
<1> QED BY <1>1, <1>2 DEF Forwarders

\* The range ends when there is nothing left.
LEMMA EndRangeInOrder ==
    ASSUME Parts, InOrder, NEW f \in Forwarders, EndRange(f) PROVE InOrder'
<1>1. /\ forwarder[f].pc = "receiving" /\ forwarder'[f] = Forwarding("ended", NoMessage)
      /\ \A g \in Forwarders : g # f => forwarder'[g] = forwarder[g]
      /\ UNCHANGED <<socket, loop, datagram, messages, tcpMessages, holding, file, accepted, sent>>
  BY DEF EndRange, Forwards, Parts, ForwardersOK, udp, tcp, jobs, recorder
<1>2. forwarder'[f].pc = "ended" /\ forwarder'[f].msg = NoMessage
  BY <1>1 DEF Forwarding
<1>3. ASSUME NEW m \in Messages PROVE (m \in AtHand' => m \in AtHand) /\ (m \in InRecording' => m \in InRecording)
  BY <1>1, <1>2 DEF AtHand, InRecording
<1>4. GivenUp
  BY <1>1, <1>3 DEF GivenUp, InSocket, InLoop, InChannel, InRecording, AtHand
<1>5. NoRepeats'
  BY <1>1 DEF InOrder, NoRepeats
<1>6. OneAtATime'
  <2>1. Forwards(f, "receiving", Forwarding("ended", NoMessage))
    BY DEF EndRange
  <2> QED BY <1>1, <2>1, ForwardsOneAtATime DEF InOrder, Forwarding
<1> QED BY <1>4, <1>5, <1>6, GivenUpInOrder

\* A forwarder records: its message is the last of the file, or is left out of it.
LEMMA RecordInOrder ==
    ASSUME Parts, InOrder, NEW f \in Forwarders, Record(f) PROVE InOrder'
<1> DEFINE m == forwarder[f].msg
<1>1. /\ forwarder[f].pc = "recording" /\ holding[f] = NoMessage
      /\ forwarder'[f] = Forwarding("calling", m)
      /\ \A g \in Forwarders : g # f => forwarder'[g] = forwarder[g]
      /\ file' = Append(file, m) \/ file' = file
      /\ UNCHANGED <<socket, loop, datagram, messages, tcpMessages, holding, accepted, sent>>
  BY DEF Record, Forwards, Parts, ForwardersOK, udp, tcp, jobs
<1>2. m \in Own(f) /\ m \in Messages /\ m \in InRecording
  <2>1. m # NoMessage
    BY <1>1 DEF Parts, ForwardersOK
  <2>2. m \in Own(f)
    BY <2>1 DEF InOrder, OneAtATime
  <2> QED BY <1>1, <2>2, Owners, Marks DEF InRecording
<1>3. OneAtATime'
  <2>1. Forwards(f, "recording", Forwarding("calling", m))
    BY DEF Record
  <2> QED BY <1>1, <1>2, <2>1, ForwardsOneAtATime DEF InOrder, Forwarding
<1>4. m \notin Past4
  BY <1>2 DEF InOrder, Apart
<1>5. AtHand \cap Own(f) = {}
  BY <1>1, NothingAtHand DEF InOrder
<1> HIDE DEF m
<1>6. forwarder'[f].pc = "calling" /\ forwarder'[f].msg = m
  BY <1>1 DEF Forwarding
<1>7. AtHand' = AtHand \cup {m}
  <2>1. ASSUME NEW x \in Messages PROVE x \in AtHand' <=> x \in AtHand \/ x = m
    BY <1>1, <1>6 DEF AtHand
  <2> QED BY <1>2, <2>1 DEF AtHand
<1>8. InRecording' = InRecording \ {m}
  <2>1. ASSUME NEW x \in InRecording' PROVE x \in InRecording /\ x # m
    <3>1. PICK g \in Forwarders : forwarder'[g].pc = "recording" /\ forwarder'[g].msg = x
      BY DEF InRecording
    <3>2. g # f /\ forwarder[g].pc = "recording" /\ forwarder[g].msg = x /\ x \in Messages
      BY <1>1, <1>6, <3>1 DEF InRecording
    <3>3. x \in Own(g)
      BY <3>2, Marks DEF InOrder, OneAtATime
    <3> QED BY <1>2, <3>2, <3>3, Owners DEF InRecording
  <2>2. ASSUME NEW x \in InRecording, x # m PROVE x \in InRecording'
    <3>1. PICK g \in Forwarders : forwarder[g].pc = "recording" /\ forwarder[g].msg = x
      BY DEF InRecording
    <3>2. forwarder'[g].pc = "recording" /\ forwarder'[g].msg = x
      BY <1>1, <2>2, <3>1 DEF m
    <3> QED BY <3>2 DEF InRecording
  <2> QED BY <2>1, <2>2
<1>9. file \in Seq(Messages) /\ IsInjective(file) /\ m \notin ToSet(file)
  BY <1>4 DEF InOrder, NoRepeats, Past4
<1>10. /\ ToSet(file') \subseteq ToSet(file) \cup {m} /\ ToSet(file) \subseteq ToSet(file')
       /\ file' \in Seq(Messages) /\ IsInjective(file')
  <2>1. CASE file' = file
    BY <1>9, <2>1
  <2>2. CASE file' = Append(file, m)
    BY <1>2, <1>9, <2>2, AppendSet, AppendNew, AppendProperties
  <2> QED BY <1>1, <2>1, <2>2
<1>11. /\ InSocket' = InSocket /\ InLoop' = InLoop /\ InChannel' = InChannel
       /\ Past4' = Past4 \cup {m} /\ Past3' = Past3 /\ Past2' = Past2 /\ Past1' = Past1
  <2>1. Past4' = Past4 \cup {m}
    BY <1>1, <1>7, <1>10 DEF Past4
  <2>2. Past3' = Past3
    BY <1>2, <1>8, <2>1 DEF Past3
  <2> QED BY <1>1, <2>1, <2>2 DEF InSocket, InLoop, InChannel, Past2, Past1
<1>12. Apart'
  <2>1. m \notin ToSet(accepted)
    BY <1>4 DEF Past4
  <2> QED BY <1>1, <1>2, <1>7, <1>8, <1>11, <2>1 DEF InOrder, Apart, Past3
<1>13. NoRepeats'
  BY <1>1, <1>10 DEF InOrder, NoRepeats
<1> DEFINE n == Len(file)
<1>14. /\ n \in Nat /\ DOMAIN file = 1 .. n
       /\ DOMAIN file' \subseteq 1 .. n + 1
       /\ \A i \in 1 .. n : file'[i] = file[i]
       /\ \A i \in DOMAIN file' : i \in 1 .. n \/ (i = n + 1 /\ file'[i] = m)
  BY <1>1, <1>2, <1>9, AppendProperties, LenProperties
<1> HIDE DEF n
<1>15. \A i \in 1 .. n : file[i] # m
  BY <1>9, <1>14 DEF ToSet
<1>16. LastRecorded'
  <2> SUFFICES ASSUME NEW g \in Forwarders, NEW x \in AtHand' \cap Own(g),
                      NEW i \in DOMAIN file', NEW j \in DOMAIN file',
                      file'[i] = x, file'[j] \in Own(g)
               PROVE  j <= i
    BY DEF LastRecorded, Own
  <2>1. CASE g = f
    <3>1. x = m
      BY <1>5, <1>7, <2>1
    <3>2. i = n + 1
      BY <1>14, <1>15, <3>1
    <3> QED BY <1>14, <3>2
  <2>2. CASE g # f
    <3>1. m \notin Own(g)
      BY <1>2, <2>2, Owners
    <3>2. x \in AtHand /\ i \in 1 .. n /\ j \in 1 .. n
      BY <1>7, <1>14, <3>1
    <3> QED BY <1>14, <3>2 DEF InOrder, LastRecorded
  <2> QED BY <2>1, <2>2
<1>17. FileKeepsOrder'
  <2> SUFFICES ASSUME NEW protocol \in {UDPMessages, TCPMessages},
                      NEW i \in DOMAIN file', NEW j \in DOMAIN file',
                      NEW k \in DOMAIN accepted, NEW l \in DOMAIN accepted,
                      file'[i] = accepted[k], file'[j] = accepted[l],
                      {file'[i], file'[j]} \subseteq protocol
               PROVE  i < j <=> k < l
    BY <1>1 DEF FileKeepsOrder
  <2>1. accepted[k] # m /\ accepted[l] # m
    BY <1>4 DEF Past4, ToSet
  <2>2. i \in DOMAIN file /\ j \in DOMAIN file /\ file[i] = accepted[k] /\ file[j] = accepted[l]
    BY <1>14, <2>1
  <2>3. {file[i], file[j]} \subseteq protocol
    BY <2>2
  <2> QED BY <2>2, <2>3 DEF InOrder, FileKeepsOrder
<1> QED BY <1>3, <1>12, <1>13, <1>16, <1>17 DEF InOrder

\* A forwarder calls Enqueue: its message stays at hand, or is gone.
LEMMA CallInOrder ==
    ASSUME Parts, InOrder, NEW f \in Forwarders, CallEnqueue(f) PROVE InOrder'
<1> DEFINE m == forwarder[f].msg
<1>1. /\ forwarder[f].pc = "calling" /\ holding[f] = NoMessage
      /\ forwarder'[f] = Forwarding("receiving", NoMessage)
      /\ \A g \in Forwarders : g # f => forwarder'[g] = forwarder[g] /\ holding'[g] = holding[g]
      /\ holding'[f] = m \/ holding'[f] = NoMessage
      /\ UNCHANGED <<socket, loop, datagram, messages, tcpMessages, file, accepted, sent>>
  BY DEF CallEnqueue, Jobs!Call, Forwards, Parts, ForwardersOK, QueueOK, udp, tcp, jobs, recorder
<1>2. forwarder'[f].pc = "receiving" /\ forwarder'[f].msg = NoMessage
  BY <1>1 DEF Forwarding
<1>3. ASSUME NEW x \in Messages
      PROVE  (x \in AtHand' => x \in AtHand) /\ (x \in InRecording' => x \in InRecording)
  BY <1>1, <1>2, Marks DEF AtHand, InRecording
<1>4. GivenUp
  BY <1>1, <1>3 DEF GivenUp, InSocket, InLoop, InChannel, InRecording, AtHand
<1>5. NoRepeats'
  BY <1>1 DEF InOrder, NoRepeats
<1>6. OneAtATime'
  BY <1>1, <1>2 DEF InOrder, OneAtATime, Own
<1> QED BY <1>4, <1>5, <1>6, GivenUpInOrder

-----------------------------------------------------------------------------
\* The queue takes a message, which is the last of its protocol in the file if it
\* is there: it comes after those accepted before it.
LEMMA AcceptInOrder ==
    ASSUME Parts, InOrder, NEW f \in Forwarders, InEnqueue(f), Jobs!Send(f) PROVE InOrder'
<1> DEFINE m == holding[f]
           n == Len(accepted)
<1>1. /\ m # NoMessage /\ accepted' = Append(accepted, m)
      /\ holding'[f] = NoMessage /\ \A g \in Forwarders : g # f => holding'[g] = holding[g]
      /\ UNCHANGED <<socket, loop, datagram, messages, tcpMessages, forwarder, file, sent>>
  BY DEF InEnqueue, Jobs!Send, Jobs!Returns, Parts, QueueOK, udp, tcp, recorder
<1>2. m \in Own(f) /\ forwarder[f].pc = "receiving" /\ m \in Messages
  BY <1>1, Owners, Marks DEF InOrder, OneAtATime
<1>3. m \in AtHand
  BY <1>2 DEF AtHand
<1>4. accepted \in Seq(Messages) /\ m \notin ToSet(accepted) /\ IsInjective(accepted)
  BY <1>3 DEF Parts, QueueOK, InOrder, Apart, NoRepeats
<1>5. ToSet(accepted') = ToSet(accepted) \cup {m} /\ IsInjective(accepted')
  BY <1>1, <1>2, <1>4, AppendSet, AppendNew
<1>6. /\ n \in Nat /\ DOMAIN accepted = 1 .. n /\ DOMAIN accepted' = 1 .. n + 1
      /\ \A k \in 1 .. n : accepted'[k] = accepted[k]
      /\ accepted'[n + 1] = m
  BY <1>1, <1>2, <1>4, AppendProperties, LenProperties
<1>7. holding[f] = m
  OBVIOUS
<1> HIDE DEF m, n
<1>8. AtHand' = AtHand \ {m}
  <2>1. ASSUME NEW x \in AtHand' PROVE x \in AtHand /\ x # m
    <3>1. PICK g \in Forwarders : holding'[g] = x \/ (forwarder[g].pc = "calling" /\ forwarder[g].msg = x)
      BY <1>1 DEF AtHand
    <3>2. x \in Messages
      BY DEF AtHand
    <3>3. g # f
      BY <1>1, <1>2, <3>1, <3>2, Marks
    <3>4. x \in Own(g)
      BY <1>1, <3>1, <3>2, <3>3, Marks DEF InOrder, OneAtATime
    <3>5. x \in AtHand
      BY <1>1, <3>1, <3>2, <3>3 DEF AtHand
    <3> QED BY <1>2, <3>3, <3>4, <3>5, Owners
  <2>2. ASSUME NEW x \in AtHand, x # m PROVE x \in AtHand'
    BY <1>1, <1>7, <2>2 DEF AtHand
  <2> QED BY <2>1, <2>2
<1>9. /\ InSocket' = InSocket /\ InLoop' = InLoop /\ InChannel' = InChannel
      /\ InRecording' = InRecording
      /\ Past4' = Past4 /\ Past3' = Past3 /\ Past2' = Past2 /\ Past1' = Past1
  BY <1>1, <1>3, <1>5, <1>8
     DEF InSocket, InLoop, InChannel, InRecording, Past4, Past3, Past2, Past1
<1>10. Apart'
  BY <1>1, <1>5, <1>8, <1>9 DEF InOrder, Apart
<1>11. NoRepeats'
  BY <1>1, <1>5 DEF InOrder, NoRepeats
<1>12. OneAtATime'
  BY <1>1, <1>2 DEF InOrder, OneAtATime, Own
<1>13. LastRecorded'
  BY <1>1, <1>8 DEF InOrder, LastRecorded, Own
<1>14. FileKeepsOrder'
  <2> SUFFICES ASSUME NEW protocol \in {UDPMessages, TCPMessages},
                      NEW i \in DOMAIN file, NEW j \in DOMAIN file,
                      NEW k \in DOMAIN accepted', NEW l \in DOMAIN accepted',
                      file[i] = accepted'[k], file[j] = accepted'[l],
                      {file[i], file[j]} \subseteq protocol
               PROVE  i < j <=> k < l
    BY <1>1 DEF FileKeepsOrder
  <2>0. i \in Nat /\ j \in Nat
    BY LenProperties DEF InOrder, NoRepeats
  <2>1. m \in protocol => protocol = Own(f)
    BY <1>2, ServerAssumption DEF Own, Forwarders
  <2>2. CASE k = n + 1 /\ l = n + 1
    <3>1. i = j
      BY <1>6, <2>2 DEF InOrder, NoRepeats, IsInjective
    <3> QED BY <1>6, <2>0, <2>2, <3>1
  <2>3. CASE k \in 1 .. n /\ l = n + 1
    <3>1. file[j] = m /\ file[i] \in Own(f)
      BY <1>6, <2>1, <2>3
    <3>2. i <= j
      BY <1>2, <1>3, <3>1 DEF InOrder, LastRecorded
    <3>3. file[i] # m
      BY <1>4, <1>6, <2>3 DEF ToSet
    <3>4. i # j
      BY <3>1, <3>3
    <3> QED BY <1>6, <2>0, <2>3, <3>2, <3>4
  <2>4. CASE k = n + 1 /\ l \in 1 .. n
    <3>1. file[i] = m /\ file[j] \in Own(f)
      BY <1>6, <2>1, <2>4
    <3>2. j <= i
      BY <1>2, <1>3, <3>1 DEF InOrder, LastRecorded
    <3> QED BY <1>6, <2>0, <2>4, <3>2
  <2>5. CASE k \in 1 .. n /\ l \in 1 .. n
    <3>1. file[i] = accepted[k] /\ file[j] = accepted[l] /\ k \in DOMAIN accepted /\ l \in DOMAIN accepted
      BY <1>6, <2>5
    <3> QED BY <3>1 DEF InOrder, FileKeepsOrder
  <2>6. k \in 1 .. n + 1 /\ l \in 1 .. n + 1
    BY <1>6
  <2> QED BY <1>6, <2>2, <2>3, <2>4, <2>5, <2>6
<1> QED BY <1>10, <1>11, <1>12, <1>13, <1>14 DEF InOrder

\* Enqueue gives up: the message is gone.
LEMMA EnqueueInOrder ==
    ASSUME Parts, InOrder, NEW f \in Forwarders, InEnqueue(f), ~ Jobs!Send(f) PROVE InOrder'
<1>1. UNCHANGED <<socket, loop, datagram, messages, tcpMessages, forwarder, file, accepted, sent>>
  BY DEF InEnqueue, Jobs!Fail, Jobs!Returns, Jobs!Panic, udp, tcp, recorder
<1>2. \A g \in Forwarders : holding'[g] = holding[g] \/ holding'[g] = NoMessage
  BY DEF InEnqueue, Jobs!Fail, Jobs!Returns, Jobs!Panic, Parts, QueueOK
<1>3. ASSUME NEW x \in AtHand' PROVE x \in AtHand
  BY <1>1, <1>2, Marks DEF AtHand
<1>4. GivenUp
  BY <1>1, <1>3 DEF GivenUp, InSocket, InLoop, InChannel, InRecording
<1>5. NoRepeats' /\ OneAtATime'
  BY <1>1, <1>2 DEF InOrder, NoRepeats, OneAtATime, Own
<1> QED BY <1>4, <1>5, GivenUpInOrder

\* main moves no message; closing the socket gives up those that wait there.
LEMMA MainInOrder ==
    ASSUME Parts, InOrder, Signal \/ MainStep PROVE InOrder'
<1>1. CASE UDP!CloseConn /\ StopUDP
  <2>1. socket' = <<>>
        /\ UNCHANGED <<loop, datagram, messages, tcpMessages, forwarder, holding, file, accepted, sent>>
    BY <1>1 DEF UDP!CloseConn, UDP!Stopping, StopUDP, Main, tcp, jobs, recorder
  <2>2. DOMAIN socket' = {}
    BY <2>1
  <2>3. GivenUp
    BY <2>1, <2>2 DEF GivenUp, InSocket, InLoop, InChannel, InRecording, AtHand, ToSet
  <2>4. NoRepeats' /\ OneAtATime'
    BY <2>1, <2>2 DEF InOrder, NoRepeats, OneAtATime, Own
  <2> QED BY <2>3, <2>4, GivenUpInOrder
<1>2. CASE StopUDP /\ ~ UDP!CloseConn
  <2>1. UNCHANGED Places
    BY <1>2 DEF StopUDP, Main, UDP!StopBegin, UDP!StopStep, UDP!StopStore, UDP!CloseStopChan,
                UDP!StopWait, UDP!CloseChannels, UDP!Stopping, tcp, jobs, recorder, Places
  <2> QED BY <2>1, PlacesStay
<1>3. CASE Signal \/ StartUp \/ CloseRecorder \/ StopTCP \/ WaitTCP \/ StopMonitor \/ StopProcessor \/ Exit
  <2>1. UNCHANGED Places
    BY <1>3 DEF Signal, StartUp, CloseRecorder, StopTCP, WaitTCP, StopMonitor, StopProcessor, Exit, Main,
                Jobs!Start, Jobs!StopStore, Jobs!CloseStopChan, Jobs!CloseJobsChan,
                udp, tcp, jobs, recorder, Places
  <2> QED BY <2>1, PlacesStay
<1> QED BY <1>1, <1>2, <1>3 DEF MainStep

\* Every step keeps the messages in order.
LEMMA InOrderStep == Parts /\ InOrder /\ [Next]_serverVars => InOrder'
<1> SUFFICES ASSUME Parts, InOrder, [Next]_serverVars PROVE InOrder'
  OBVIOUS
<1>1. CASE UNCHANGED serverVars
  <2>1. UNCHANGED Places
    BY <1>1 DEF serverVars, udp, tcp, jobs, recorder, Places
  <2> QED BY <2>1, PlacesStay
<1>2. CASE Signal \/ MainStep
  BY <1>2, MainInOrder
<1>3. CASE ArriveNoise \/ \E m \in Messages : ArriveUDP(m) \/ ArriveTCP(m)
  BY <1>3, NoiseInOrder, ArriveUDPInOrder, ArriveTCPInOrder
<1>4. CASE UDPLoop
  BY <1>4, ReadInOrder, SendInOrder, LoopInOrder
<1>5. CASE Pool \/ LateClientLeaves
  <2>1. UNCHANGED Places
    BY <1>5 DEF Pool, LateClientLeaves, Jobs!Take, Jobs!PoolEnds, udp, tcp, jobs, recorder, Places
  <2> QED BY <2>1, PlacesStay
<1>6. ASSUME NEW f \in Forwarders, Forward(f) PROVE InOrder'
  BY <1>6, ReceivesInOrder, EndRangeInOrder, RecordInOrder, CallInOrder DEF Forward
<1>7. ASSUME NEW f \in Forwarders, InEnqueue(f) PROVE InOrder'
  BY <1>7, AcceptInOrder, EnqueueInOrder
<1> QED BY <1>1, <1>2, <1>3, <1>4, <1>5, <1>6, <1>7, Steps DEF BesideMain

\* There is no message at first.
LEMMA InOrderInit == Init => InOrder
<1> SUFFICES ASSUME Init PROVE InOrder
  OBVIOUS
<1>1. /\ messages = <<>> /\ socket = <<>> /\ loop = "checking" /\ file = <<>>
      /\ accepted = <<>> /\ holding = [f \in Forwarders \cup {} |-> NoMessage]
      /\ tcpMessages = <<>> /\ sent = {}
      /\ forwarder = [f \in Forwarders |-> Forwarding("receiving", NoMessage)]
  BY DEF Init, UDP!Init, Jobs!Init
<1>2. \A f \in Forwarders : /\ forwarder[f].msg = NoMessage /\ forwarder[f].pc = "receiving"
                            /\ holding[f] = NoMessage
  BY <1>1 DEF Forwarding
<1>3. ToSet(<<>>) = {}
  BY DEF ToSet
<1>4. /\ InSocket = {} /\ InLoop = {} /\ InChannel = {} /\ InRecording = {} /\ AtHand = {}
      /\ Past4 = {} /\ Past3 = {} /\ Past2 = {} /\ Past1 = {}
  <2>1. InSocket = {} /\ InLoop = {} /\ InChannel = {}
    BY <1>1, <1>3 DEF InSocket, InLoop, InChannel
  <2>2. InRecording = {} /\ AtHand = {}
    BY <1>2, Marks DEF InRecording, AtHand
  <2> QED BY <1>1, <1>3, <2>1, <2>2 DEF Past4, Past3, Past2, Past1
<1>5. Apart
  BY <1>4 DEF Apart
<1>6. NoRepeats
  BY <1>1, EmptySeq DEF NoRepeats, IsInjective
<1>7. OneAtATime
  BY <1>2 DEF OneAtATime
<1>8. LastRecorded /\ FileKeepsOrder
  BY <1>1 DEF LastRecorded, FileKeepsOrder
<1> QED BY <1>5, <1>6, <1>7, <1>8 DEF InOrder

\* Of the messages that come through one listener, those in the file are in the order
\* in which the processor accepted them, for any number of messages of either protocol
\* and whatever is dropped between the recorder and the queue.
THEOREM FileKeepsOrderCorrect == Spec => []FileKeepsOrder
<1>1. Parts /\ InOrder /\ [Next]_serverVars => InOrder'
  BY InOrderStep
<1>2. InOrder => FileKeepsOrder
  BY DEF InOrder
<1> QED BY <1>1, <1>2, InOrderInit, AlwaysParts, PTL DEF Spec
===============================================================================
