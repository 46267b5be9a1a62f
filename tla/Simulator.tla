------------------------------- MODULE Simulator -------------------------------
(***************************************************************************)
(* internal/simulator with cmd/simulator, and what a server makes of it.    *)
(*                                                                          *)
(* A goroutine, Run, takes its generators in turn, one per tick, and passes *)
(* their messages to main through a channel; main sends them to the server  *)
(* and handles the signal.  The network loses and reorders datagrams; a TCP *)
(* connection keeps order until it breaks, and is not made again.  In the   *)
(* server the messages wait in one line, which is the listener's channel,   *)
(* the forwarder and the queue together, for a pool of workers; these hold  *)
(* them and update the state store in any order.                            *)
(***************************************************************************)
EXTENDS SensorEntry, Payload, FiniteSets, SequencesExt

CONSTANTS
    Configs,       \* command lines: sensor types, sensors per type, rate, protocol;
                   \* and the size of the server's pool
    FirstReading,  \* what the constructor of each type of generator drew
    Changes(_),    \* by how much a field may change from one message to the next
    ChannelCap,    \* capacity of the channel messages
    SocketCap,     \* what the network holds for one connection
    QueueCap,      \* what the server holds in front of its workers
    MaxTicks       \* bound on the ticks

ASSUME SimulatorAssumption ==
    /\ \A c \in Configs : /\ c.types \in Seq(STRING) /\ c.sensors \in Nat /\ c.rate \in Int
                          /\ c.protocol \in {"udp", "tcp"} /\ c.workers \in Nat \ {0}
    /\ \A type \in GeneratorTypes : FirstReading[type] \in Drawn(type)
    /\ \A c \in Configs : Changes(c) \subseteq Int
    /\ {ChannelCap, SocketCap, QueueCap, MaxTicks} \subseteq Nat \ {0}
    /\ MaxTicks <= MaxSequence   \* no number leaves its uint64

VARIABLES
    config,     \* the command line
    sequence,   \* the last sequence number of each generator
    reading,    \* the fields of each generator
    turn,       \* generatorIndex
    run,        \* where Run is, and the message it holds
    messages,   \* what the channel buffers
    closed,     \* the channel is closed
    main,       \* where main is, and the message it sends
    cancelled,  \* the context is done
    signal,     \* a signal is pending in sigChan
    panicked,   \* the process has died
    linkUp,     \* the TCP connection stands
    wire,       \* messages under way to the server
    lost,       \* history: messages that will not arrive
    queue,      \* what the server has read and no worker has taken
    held,       \* what the workers have taken and not applied
    sensors     \* the server's store

source  == <<sequence, reading, turn>>
server  == <<queue, held, sensors>>
network == <<linkUp, wire, lost, server>>
vars == <<config, source, run, messages, closed, main, cancelled, signal, panicked, network>>

\* NewSimulator skips the types it does not know; a generator is a place in the
\* list of types and an index, and they take turns in this order.
Generators(c) ==
    {g \in (DOMAIN c.types) \X (0 .. c.sensors - 1) : c.types[g[1]] \in GeneratorTypes}
Earlier(g, h) == g[1] < h[1] \/ (g[1] = h[1] /\ g[2] < h[2])
GeneratorAt(c, n) ==
    CHOOSE g \in Generators(c) : Cardinality({h \in Generators(c) : Earlier(h, g)}) = n
TypeOf(c, g) == c.types[g[1]]

\* A mutant: the index within the type is left out of the ID.
IdOfTypeOnly(c, g) == TypeOf(c, g)
SensorId(c, g) == <<TypeOf(c, g), g[2]>>

NoMessage == [sensor |-> "none", sequence |-> 0]
At(pc) == [pc |-> pc, msg |-> NoMessage]

Init ==
    /\ config \in Configs
    /\ sequence = [g \in Generators(config) |-> 0]
    /\ reading = [g \in Generators(config) |-> FirstReading[TypeOf(config, g)]]
    /\ turn = 0
    /\ run = At("starting") /\ main = At("looping")
    /\ messages = <<>> /\ closed = FALSE
    /\ cancelled = FALSE /\ signal = FALSE /\ panicked = FALSE
    /\ linkUp = TRUE /\ wire = <<>> /\ lost = {}
    /\ queue = <<>> /\ held = {} /\ sensors = [s \in {} |-> NewEntry(0)]

-----------------------------------------------------------------------------
(* Run.                                                                     *)

\* The milliseconds between two ticks; Go truncates, and panics on rate 0.
Interval(rate) == IF rate > 0 THEN 1000 \div rate ELSE -(1000 \div (-rate))

Running(from, to) == run.pc = from /\ run' = to

\* A rate of zero divides by zero, and NewTicker panics unless the interval is
\* positive.
Begin ==
    /\ run.pc = "starting"
    /\ LET stuck == Generators(config) # {} /\ (config.rate = 0 \/ Interval(config.rate) <= 0) IN
       /\ panicked' = stuck
       /\ run' = At(IF Generators(config) = {} THEN "ended" ELSE IF stuck THEN "panicked" ELSE "ticking")
    /\ UNCHANGED <<config, source, messages, closed, main, cancelled, signal, network>>

\* The ticker fires: the generator whose turn it is makes its next message.
Tick ==
    /\ run.pc = "ticking"
    /\ SumFunction(sequence) < MaxTicks
    /\ LET g == GeneratorAt(config, turn)
           n == sequence[g] + 1
       IN  /\ sequence' = [sequence EXCEPT ![g] = n]
           /\ run' = [pc |-> "sending", msg |-> [sensor |-> SensorId(config, g), sequence |-> n]]
           /\ \E d \in [FieldsOf(TypeOf(config, g)) -> Changes(config)] :
                  reading' = [reading EXCEPT ![g] = NextPayload(TypeOf(config, g), @, d)]
    /\ UNCHANGED <<config, turn, messages, closed, main, cancelled, signal, panicked, network>>

\* A mutant: the turn does not pass on.
SameTurn == turn
NextTurn == (turn + 1) % Cardinality(Generators(config))

\* The channel takes the message, and the turn passes on.
Pass ==
    /\ Len(messages) < ChannelCap
    /\ Running("sending", At("ticking"))
    /\ messages' = Append(messages, run.msg)
    /\ turn' = NextTurn
    /\ UNCHANGED <<config, sequence, reading, closed, main, cancelled, signal, panicked, network>>

\* Either select takes ctx.Done; the message at hand is given up.
Quit ==
    /\ cancelled
    /\ \E from \in {"ticking", "sending"} : Running(from, At("ended"))
    /\ UNCHANGED <<config, source, messages, closed, main, cancelled, signal, panicked, network>>

\* Run has returned.
CloseMessages ==
    /\ run.pc = "ended" /\ ~ closed /\ closed' = TRUE
    /\ UNCHANGED <<config, source, run, messages, main, cancelled, signal, panicked, network>>

-----------------------------------------------------------------------------
(* main.                                                                    *)

Main(from, to) ==
    /\ main.pc = from /\ main' = to
    /\ UNCHANGED <<config, source, run, closed, panicked, server>>

Receive ==
    /\ messages # <<>>
    /\ Main("looping", [pc |-> "sending", msg |-> Head(messages)])
    /\ messages' = Tail(messages)
    /\ UNCHANGED <<cancelled, signal, linkUp, wire, lost>>

\* A write to a connection blocks while the server does not read; a datagram
\* for which there is no room is gone.
Send ==
    /\ linkUp
    /\ config.protocol = "tcp" => Len(wire) < SocketCap
    /\ Main("sending", At("looping"))
    /\ IF Len(wire) < SocketCap THEN wire' = Append(wire, main.msg) /\ UNCHANGED lost
                                ELSE lost' = lost \cup {main.msg} /\ UNCHANGED wire
    /\ UNCHANGED <<messages, cancelled, signal, linkUp>>

\* A mutant: the write is tried again.
Retry == main
AfterFailure == At("looping")

\* The error is printed, and the loop goes on with the next message.
SendFails ==
    /\ ~ linkUp
    /\ Main("sending", AfterFailure)
    /\ lost' = lost \cup {main.msg}
    /\ UNCHANGED <<messages, cancelled, signal, linkUp, wire>>

\* main is told, when it comes back to its select; it cancels, prints and returns.
HandleSignal ==
    /\ signal
    /\ Main("looping", At("leaving"))
    /\ cancelled' = TRUE /\ signal' = FALSE
    /\ UNCHANGED <<messages, linkUp, wire, lost>>

\* The deferred calls; or the channel is closed and drained.
Return ==
    /\ \/ Main("leaving", At("returned"))
       \/ closed /\ messages = <<>> /\ Main("looping", At("returned"))
    /\ UNCHANGED <<messages, cancelled, signal, linkUp, wire, lost>>

-----------------------------------------------------------------------------
(* The world.                                                               *)

Interrupt ==
    /\ ~ signal /\ ~ cancelled /\ signal' = TRUE
    /\ UNCHANGED <<config, source, run, messages, closed, main, cancelled, panicked, network>>

World == UNCHANGED <<config, source, run, messages, closed, main, cancelled, signal, panicked>>

\* The connection breaks; the first k of the messages under way still arrive.
Break ==
    /\ config.protocol = "tcp" /\ linkUp /\ linkUp' = FALSE
    /\ \E k \in 0 .. Len(wire) :
           /\ wire' = SubSeq(wire, 1, k)
           /\ lost' = lost \cup ToSet(SubSeq(wire, k + 1, Len(wire)))
    /\ UNCHANGED server /\ World

LoseDatagram ==
    /\ config.protocol = "udp"
    /\ \E i \in DOMAIN wire : wire' = RemoveAt(wire, i) /\ lost' = lost \cup {wire[i]}
    /\ UNCHANGED <<linkUp, server>> /\ World

\* The server reads what arrives, in order from a connection, and its forwarder
\* puts it into the queue.
Deliver ==
    /\ Len(queue) < QueueCap
    /\ \E i \in DOMAIN wire :
           /\ config.protocol = "tcp" => i = 1
           /\ wire' = RemoveAt(wire, i)
           /\ queue' = Append(queue, wire[i])
    /\ UNCHANGED <<linkUp, lost, held, sensors>> /\ World

\* A free worker takes the next message.
Take ==
    /\ queue # <<>> /\ Cardinality(held) < config.workers
    /\ held' = held \cup {Head(queue)} /\ queue' = Tail(queue)
    /\ UNCHANGED <<linkUp, wire, lost, sensors>> /\ World

\* store.Update, by whichever worker comes first to the lock.
Apply ==
    /\ \E m \in held :
           /\ held' = held \ {m}
           /\ LET s == m.sensor
                  e == IF s \in DOMAIN sensors THEN Updated(sensors[s], m.sequence)
                                               ELSE NewEntry(m.sequence)
              IN  sensors' = [x \in DOMAIN sensors \cup {s} |-> IF x = s THEN e ELSE sensors[x]]
    /\ UNCHANGED <<linkUp, wire, lost, queue>> /\ World

RunStep == Begin \/ Tick \/ Pass \/ Quit \/ CloseMessages
MainStep == Receive \/ Send \/ SendFails \/ HandleSignal \/ Return

\* The process ends with main, or by a panic.
Alive(step) == ~ panicked /\ main.pc # "returned" /\ step

Next ==
    \/ Alive(RunStep \/ MainStep \/ Interrupt)
    \/ Break \/ LoseDatagram \/ Deliver \/ Take \/ Apply

Spec == Init /\ [][Next]_vars

\* Both goroutines go on, and the server reads and works; the network may lose
\* everything and nobody has to send a signal.
FairSpec == /\ Spec /\ WF_vars(Alive(RunStep)) /\ WF_vars(Alive(MainStep))
            /\ WF_vars(Deliver) /\ WF_vars(Take) /\ WF_vars(Apply)

-----------------------------------------------------------------------------
Of(s, msgs) == Cardinality({m \in msgs : m.sensor = s})

\* How far the counters that a server keeps tell the truth about the network when
\* the types are given once each, however the goroutines, the break, the signal
\* and the workers interleave.  Nothing counts as repeated.  No more counts as
\* dropped, but for what came late, than was lost or is still under way.  Over a
\* connection, which loses only its tail, it is the pool alone that makes gaps:
\* no more of them than its workers hold, none behind a pool of one, and the
\* high-water mark is no further than what was applied and what they hold.
GapsAreLosses ==
    IsInjective(config.types) =>
        \A s \in DOMAIN sensors :
            LET e == sensors[s] IN
            /\ e.duplicateCount = 0
            /\ e.droppedCount <= e.outOfOrderCount + Of(s, lost) + Of(s, ToSet(wire))
                                                   + Of(s, ToSet(queue)) + Of(s, held)
            /\ config.protocol = "tcp" =>
                   /\ e.droppedCount <= e.outOfOrderCount + Of(s, held)
                   /\ e.messageCount <= e.lastSequence
                   /\ e.lastSequence <= e.messageCount + Of(s, held)
                   /\ config.workers = 1 => e.droppedCount = 0 /\ e.outOfOrderCount = 0
                                                /\ e.lastSequence = e.messageCount

\* What a generator sends is never an anomaly to the worker that validates it:
\* the generators' limits lie within the validators', from the first message
\* on, whatever is drawn.
PayloadsAccepted ==
    \A g \in Generators(config) : Accepted(TypeOf(config, g), reading[g])

\* All generators share one ticker and take turns, so that none of them is ever
\* more than a message ahead of another, whatever blocks Run in between: of the
\* rate that the command line asks for each has its share.
TurnsShared ==
    \A g, h \in Generators(config) :
        Earlier(g, h) => sequence[h] <= sequence[g] /\ sequence[g] <= sequence[h] + 1

Ticking(g) == run.pc = "ticking" /\ g \in DOMAIN sequence
Spoke(g) == g \in DOMAIN sequence /\ sequence[g] > 0
Over == main.pc = "returned" \/ panicked

\* No generator is starved: once the program runs, each of them speaks unless
\* there is a signal; and a signal ends the program, whatever main waits for.
ProgramGoesOn ==
    /\ \A g \in UNION {Generators(c) : c \in Configs} : Ticking(g) ~> (Spoke(g) \/ cancelled \/ Over)
    /\ signal ~> Over
===============================================================================
