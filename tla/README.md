# A verification development for SentinelStream

SentinelStream receives telemetry over UDP and TCP, queues it for a pool of
workers, keeps the latest state of every sensor with the sequence numbers it
sent, and reports sensors that fall silent. This directory holds TLA+ modules
for the parts of it in which order, concurrency and limits matter, TLC
configurations that check them on small instances, and proofs that TLAPS checks
for every value of the constants.

Paths such as `state.go` are below `src/internal/<package>/` unless they say
otherwise.

    tlc -workers 2 -config store.cfg MCStateStore.tla
    tlapm ProcessorProofs.tla

The modules with theorems are `StateStoreProofs` (with `SensorEntryProofs`),
`ProcessorProofs`, which is also about Statistics and Replay, `TCPListenerProofs`
and `SimulatorProofs` (with `FiniteSums`), `ServerProofs` and
`LatencyRecorderProofs`. Every invariant and every other safety property that a
passing run checks is proved there; what is left to TLC alone is liveness.

## The system

    clients --> UDPListener --messagesChan--> forwarder --\
                                                            Enqueue --> jobsChan --> workers --> StateStore
    clients --> TCPListener --messagesChan--> forwarder --/                             |           ^
                (a goroutine per connection)       |                               LatencyRecorder  |
                                             EventRecorder (file)                               Monitor (scan)
                                                                                                REST API, stats

| component | state it keeps | operations | interacts by |
|---|---|---|---|
| state store (`state/state.go`) | a map from sensor ID to counters, high-water mark, remembered sequence numbers, health status | Update, RecordError, RecordAnomaly, CheckStale, reads | one mutex; called by every worker, the monitor, the API |
| processor (`processor/processor.go`) | queue `jobsChan`, `stopChan`, running flag, counters | Start, Stop, Enqueue, TryEnqueue, WaitForQuiescence, Stats | channels and atomics |
| worker (`processor/worker.go`) | six atomic counters | Run, processMessage | takes from `jobsChan`, calls the store and the recorders |
| TCP listener (`ingestion/tcp.go`) | map of connections, gauge and counters, two output channels | Start, Stop, acceptLoop, handleConnection | sockets, `messagesChan`, `errorsChan`, `stopChan`, wait group |
| UDP listener (`ingestion/udp.go`) | counters, two output channels | Start, Stop, receiveLoop | the same |
| latency recorder (`metrics/latency.go`) | circular buffer | Record, Snapshot | one mutex, released before a snapshot is computed |
| monitor (`health/monitor.go`) | a ticker | Start, Stop, run | calls CheckStale |
| server (`cmd/server/main.go`) | none of its own | wiring, forwarders, shutdown by deferred calls | everything |
| replay (`replay/`, `cmd/replay`) | an append-only file | Record, Replay | the forwarders; Enqueue, WaitForQuiescence, Stats and Stop of a processor of its own |
| simulator (`simulator/`, `cmd/simulator`) | generators with their numbers and fields, a turn, a channel | Run, Next, Send, the loop of main | a channel between two goroutines; UDP or TCP to a server |
| protocol (`protocol/`) | none | parse, validate | called by listeners and workers |
| REST API (`api/`) | none | handlers | Stats of the processor and the listeners, List of the store |
| logging, UI | none | output | HTTP |

What is hard here:

- **order and repetition**: sequence tracking has to be right for every order in
  which numbers arrive, and its memory is a window pruned only on some paths;
- **interleaving**: producers, workers, Stop and waiters meet on channels; a
  check of a flag is separated from the operation it guards; counters are
  changed after the fact they count;
- **stopping**: output channels may be closed only when nobody can send;
  connections may be registered while Stop closes the registered ones;
- **limits**: a full queue, a full error channel that nobody reads, a window, a
  circular buffer;
- **the world**: a write to the record file fails half way, datagrams are lost
  and overtake each other, a connection breaks;
- **liveness**: blocked callers come back, Stop returns, silence is reported, the
  programs end.

PROJECT.json lists each hazard at its line with the properties that cover it, or
the reason why none does yet.

## Modules

### SensorEntry and StateStore

`SensorEntry` holds the bookkeeping of one sensor as operators on a record:
`Advances`, `IsDuplicate` and `IsOutOfOrder` are the cases of the switch in
`Update`; `AfterAdvance`, `AfterDuplicate` and `AfterLate` their effects;
`Pruned` is `pruneRecentSeqs`. `AfterLate` adds to `recentSeqs` without pruning,
as the code does. It declares no variable, so that `Processor` uses the same
operators.

`StateStore` is the map with its mutex: each method runs under the lock from its
first line to its last and is one action (`Register` and `Apply` are the two
halves of `Update`, `RecordError`, `RecordAnomaly`, `CheckStale`); `Get`, `List`
and `Count` change nothing. Time is the number of ticks since `LastSeen`, cut off
one above the timeout. `firstSequence`, `arrived`, `lateAtMark` (how many late
messages there had been when the high-water mark last moved) and `staleReports`
are history variables, written and never read by the actions. An error or an anomaly may be
recorded at any moment, which allows more than the workers do.

Sequence numbers and counters are naturals. The code has `uint64`: the theorem
`DroppedNeverWraps` shows that the only counter that grows by more than one per
step stays within the range of a sequence number, so that the models need no
arithmetic modulo 2^64. The others grow by one per message.

### Processor

The queue with everybody who touches it: callers of `Enqueue` and `TryEnqueue`,
the workers, calls of `Stop` and of `WaitForQuiescence`. One action is one step
between two points where another goroutine may run. So `Call` (the check of
`isRunning`), `Send` and `Count` are three actions, and `Stop` is five. Channels
behave as in Go: a send on a closed channel panics, a receive drains the buffer
first, `select` may take any ready case (a worker may leave a full queue behind
when `stopChan` is closed). A panic ends the process; `crashed` names its cause.

A message is a record of its sensor, its number and its outcome, which stands for
the parser of its sensor type: sound, anomaly (a `ValidationError`) or error.
`Update` is `SensorEntry!Updated` on the message's sensor. The latency recorders
are one counter here (each message adds one sample to both) and a module of
their own. `Start` is called once, and it makes any non-empty number of the
workers there are: as `cmd/server` and the tests do, nobody stops the processor
before `Start` has returned.

### Statistics

`Processor` with readers: `Stats` takes a mutex that no counter is changed under,
so each atomic load is a step (`LoadCounter`, in the order of `Worker.Stats`;
`LoadDepth` and `LoadEnqueued`, whose order Go leaves to the compiler, since
`len` of a channel is no call), and `handleMetricsSummary` lists the sensors
afterwards (`ListSensors`, one step under the store's mutex). The handler itself
counts only the healthy and the stale ones of the list; `SumOf` adds up the
counters that the list holds at that moment, to compare them with the loaded
ones. A reader changes nothing but what it has read. `uncounted` is a history variable of a reader: the
callers that had sent and not yet counted when the counter was loaded.

### Replay

A file, the servers that append to it, and `cmd/replay`, which is `Statistics`
with one goroutine, `Main`, in all the roles: it enqueues, waits, reads the
statistics and stops. `file` is a sequence of lines, each with the messages of
which it holds bytes. A write leaves the line with its newline, too long a line,
all but the newline, a part, or nothing (`Writes`); the next write goes on where
the file ends, whichever server makes it, so a crash in the middle of a write is
one of these. `PlayLine` is a line that parses, handed to `Processor!Call`;
`PlayBad` ends the program at once, as `os.Exit` does. `ReplaySetting` is what the
module asks of its constants: one goroutine in every role, and each message
recorded once. `MCReplay` assumes it for the run, the theorems have it as their
hypothesis.

### Payload and Simulator

`Payload` has the fields of the four types that are generated: the validators of
`protocol` and the generators' constructors and `Next`, in whole units. What is
drawn is a parameter of `Next` that may be any integer, so that the limits alone
keep a field where it belongs. Each `Next` is the order of the code: change,
clamp, then the fields that depend on clamped ones.

`Simulator` is the two goroutines of `cmd/simulator` (`Run` with its ticker and
its inner select, `main` with the loop that receives, sends and hears the signal)
and the way to the server: `wire` loses and reorders datagrams; a TCP connection
delivers in order, blocks when nobody reads, and breaks once, after which every
write fails (the sender never dials again). In the server a message goes through
`queue`, which stands for the listener's channel, the forwarder and `jobsChan` as
one line of `QueueCap` places (`Deliver`), to one of the workers (`Take`), and to
the store when that worker comes to the lock (`Apply`): a pool of more than one
overtakes here too. The other counters and the outcomes are Processor's. The
command line, with the server's `-workers`, is chosen at the start from
`Configs`; the ticker is an action that may come at any moment, up to `MaxTicks`. Rates that cannot be served
end in the panic of a division or of `NewTicker`.

### TCPListener

The accept loop, one handler per connection, Stop, and the clients. Each of the
places where Stop may come in between is a state: between Accept and the map
(`Register`), the map and the counters (`Spawn`), a line read and its send, and
between the deferred calls. Lines are good, bad or oversized; a client may stall
for ever. `Forward` is the server's goroutine that ranges over `Messages()`,
`ReadError` an owner that reads `Errors()`; the constant `ErrorsAreRead` says
whether there is one. In `cmd/server` there is none.

### JobQueue

What the processor promises to its callers and to the goroutine that stops it:
a bounded queue, taken in order by a pool that ends only after Stop, an Enqueue
that fails only because of Stop, a TryEnqueue that fails only at a full queue.
It also says what is not promised: a caller that comes to its select when
`jobsChan` is closed may panic. `Processor` implements it (`ImplementsJobQueue`, with the callers at
the select as `holding` and a worker that has not exited as `poolUp`), so that
`Server` can be composed with it instead of with the workers' steps.

### UDPListener

`receiveLoop` from its check of `stopChan` to the read, the parser and the two
selects, and the six steps of `Stop`. `socket` is what the kernel buffers. A
datagram is a message, one that the parser rejects, or a failing read.

### Server

`cmd/server/main.go` with UDPListener and JobQueue as instances. Each forwarding
goroutine receives, records, and calls Enqueue. `main` is the program counter of
the main goroutine: after the signal it runs its deferred calls, last in first
out (`CloseRecorder`, `StopTCP` and `WaitTCP`, `StopUDP`, `StopMonitor`,
`StopProcessor`). The
500 ms of sleep before them are no promise that anybody has finished, and are
left out. The TCP listener appears as its bounded channel and its Stop, which
waits in `wg.Wait` before it closes the channel: for no longer than handlers need
to end, or, when a connection was registered too late to be closed
(`lateClient`, finding 2), until its client leaves. What happens inside is
TCPListener's. The recorder writes a message
whole, or, once closed, not at all (Replay has the writes that fail). Stopping
the monitor is a step without an effect here: StateStore has its scans. The API
server only reads and is left out.

### LatencyWindow and LatencyRecorder

`LatencyWindow` is the abstract specification: the last `Capacity` samples, and
summaries of them by rank. `LatencyRecorder` is the circular buffer, with
`Snapshot` in two steps because the mutex is released between copying and
sorting. `Sorted` says what `slices.Sort` returns by counting: the sample at a
place is the one that as many samples come up to (`UpTo`, equal ones in the order
of their places). The refinement mapping reads the buffer from the oldest sample on and
gives the reader its answer at the moment of the copy. Percentiles are
`(p * (n - 1)) \div 100`; the code multiplies floating-point numbers, which for
all lengths up to the buffer's 10000 truncates to the same index.

## Runs

Every run takes two workers of TLC about three minutes at most.

| run | what it asks | bounds, and why they are enough |
|---|---|---|
| `store` | `CountersBalance`, `WindowRemembered`, `LossBracketed`, `NoFalseDuplicate`, `MemoryBounded`; `OneReportPerSilence`, `SilentSensorReported` | one sensor (the entries of sensors do not touch each other; the proofs are for any set), 6 numbers, window 2, 5 messages: numbers fall before, at and behind the window's edge; timeout 1 |
| `processor` | `EveryMessageInOnePlace`, `SequenceCountsAgree`, `OutcomesAgree`, `OvertakingBounded`, `FinalAfterStop`, `ImplementsJobQueue` | 3 messages of one sensor (a gap, a repetition, one of each outcome), 2 workers, 2 places in the queue so that one can be full and order matters, 2 producers, 2 calls of Stop; workers are symmetric |
| `processor_live` | `ResponseAddsUp`; `CallsReturn`, `AcceptedIsProcessed` | 1 worker behind a queue of 1 with 2 callers and 2 messages, so that callers block; 1 reader, whose loads fall between any two steps of the others. With one worker the loads meet every order of its counters; several workers are loaded in `replay` |
| `processor_stop` | `StopIsGraceful`: **violated** | 1 caller, 1 worker, 1 Stop |
| `tcp` | `ConnectionsTracked`, `NoMessageLost`, `NobodyLeftToSend`, `ConnectionOrderKept`, `StopReturns`, `LinesAreRead` | 2 connections, a message channel of 2 and an error channel of 1; `MaxEvents` = 3 lines and accept failures in all, so that two messages of one connection wait together while its handler has a third, or handlers fill the channel for each other; `MaxSpoilt` = 1 of the lines is bad or oversized, and 1 accept failure: an error can meet the full error channel while messages go on |
| `tcp_stop` | `StopReturns` with clients that may stay: **violated** | 1 connection |
| `tcp_errors` | `ConnectionsAreIndependent`: **violated** | 2 connections, an error channel of 1, nobody reads it |
| `server` | `NothingDroppedWhileServing`, `FileKeepsOrder`, `DatagramsAreRead`, `ShutdownEnds` | 2 datagrams with messages, 2 others, 1 TCP message; every channel, the error channel and the socket hold one, so that each of them is full while something else waits for it; the signal comes at any moment, and one connection may be registered too late, which is all that matters to a wait for a group |
| `server_record` | `EveryAcceptedRecorded`: **violated** | the same |
| `latency` | `ImplementsWindow` | 5 places and 2 values other than the initial zero, one of them negative for clocks that run ahead: the buffer wraps, values repeat, and a rank is told apart by the samples below and above it, for which two values are enough; the theorem has any length and any values |
| `replay` | `RecordedIsReplayed`, `ReportBracketed`, `StateFollowsFile`, `ReplayEnds` | 3 messages (a gap, the late message that fills it, one of each outcome), 1 or 2 workers, a queue of 1 on which the player blocks; 2 of the writes may be bad, so that a spoilt line is followed by whole ones and by another bad one |
| `simulator` | `GapsAreLosses`, `PayloadsAccepted`, `TurnsShared`, `ProgramGoesOn` | one generator of each type, changes that overshoot either limit; two generators that take turns, an unknown type, a type given twice; rates that do not divide 1000 and those at the limits; 3 ticks, a channel of 1, a socket of 2 and a queue of 1 in the server, so that main, Run, the network and the server each hold something while another is full; a pool of 1, behind which a connection keeps its order, and one of 2, which overtakes (8, the default, overtake by more and not otherwise: the theorem has any pool) |

StateStore, Processor, TCPListener, Server (with UDPListener's) and
LatencyRecorder each have one type invariant, in the run named first for it.

Deadlock is checked in `latency`. In the others the system really may stop:
messages, lines and calls are bounded, a panic ends the process, and a stopped
component does nothing more.

### Fairness

- `StateStore!FairSpec`: the monitor's ticker and the clock go on (`run` is a
  loop that only Stop ends). Nothing makes a sensor send.
- `Processor!Fairness`: a goroutine that can run does: each worker, each call of
  Enqueue once begun, each call of Stop once begun. Weak fairness is enough,
  because nothing that a goroutine waits for is taken away from it again in the
  small instance other than by work done. Nobody has to call anything.
- `Statistics!StatSpec`: the same; nothing makes anybody read.
- `Replay!ReplaySpec`: main and each worker. Nothing makes a server record or
  somebody start the program. That the wait for quiescence ends needs no fairness
  of its own: it has a deadline, and the workers empty the queue.
- `Simulator!FairSpec`: `Run`, main, and the server, which reads what arrives and
  whose workers go on.
  The network may lose or break anything and nobody has to send a signal. A
  select with two ready cases is not assumed to be fair: that the signal is heard
  rests on the bound on ticks here and on Go's random choice in the code.
- `TCPListener!FairSpec`: the accept loop, the handlers, Stop, and the owner's
  readers. Clients owe nothing. `PatientSpec` adds that a connected client
  leaves at last; `StopReturns` holds with it and fails without it.

- `Server!FairSpec`: main, the UDP loop, the pool and each forwarding goroutine
  go on. Nobody has to send anything or to send the signal, and no client has to
  leave. `ShutdownEnds` counts the panic of finding 1 as an end, and excepts the
  time for which a late client holds main in `wg.Wait` (`Held`): it says that
  nothing else keeps main, before that wait and after it.

## What the runs found

1. **Stop can crash the process** (`processor.go:110`). It closes `jobsChan` while
   an Enqueue may be past its check of `isRunning`. If that call evaluates its
   select after the close, both cases are ready, and when the send is picked it is
   one on a closed channel. A caller already parked in the select is not in
   danger, since `close(stopChan)` wakes it first. The `stopChan` case is there to
   report the stop (`processor.go:129-130`), and closing `jobsChan` undoes it.
2. **TCP Stop may wait for a client** (`tcp.go:137`): a connection accepted
   before the listener was closed may be registered after Stop went over the map.
3. **Connections share one error channel that the server never reads**
   (`tcp.go:185`): after ten rejected lines in all, each handler blocks at its
   next one, against the comment at `tcp.go:19-21`.
4. **The recorder is closed before the listeners** (`main.go:101`): what arrives
   until they stop is enqueued and not recorded, against the flag's description.

Seen while modelling, and stated here without a run of their own:

- `recentSeqs` is not confined to the window (`state.go:127`): a late message is
  added without pruning, against the comments at `state.go:12-14` and `55-57`. A
  sensor that restarts from 0 adds a number per message until it passes its old
  high-water mark, or for ever. `MemoryBounded` is the bound there is: one stray
  number for each late message since the last advance, which the run reaches.
- `WaitForQuiescence` looks at the channel only (`processor.go:248`), and the
  workers may still hold a message each; tests then read the results
  (`processor_test.go:132-141`). `ReportBracketed` says how much may be missing.
- `README.md:98` calls the simulator's rate "Messages per second per sensor"; the
  generators take turns at one ticker (`simulator.go:75-101`), so that it is the
  rate of all of them together. `TurnsShared` says that they share it evenly.
- A server counts drops and late messages for a sensor that nothing was lost of,
  even over one TCP connection: the workers overtake each other on the way to the
  store (`worker.go:69-95`). `GapsAreLosses` bounds that by what they hold, and
  shows that it takes more than one worker; `-workers` is 8 by default.
- A type that is given twice to `--types` makes two generators with the same
  sensor IDs (`simulator.go:43`), and the server counts duplicates that no network
  made; `GapsAreLosses` excludes such command lines.

## Proofs

| module | theorem | states | for every |
|---|---|---|---|
| `StateStoreProofs` | `TypeCorrect`, `CountersAlwaysBalance`, `WindowAlwaysRemembered`, `LossAlwaysBracketed`, `ReportedOncePerSilence` | the invariants of `store` | window, range of numbers, set of sensors, timeout |
| | `MemoryAlwaysBounded`, `NeverAFalseDuplicate` | an invariant and an action property of it | the same |
| | `TrackingCorrect`, `DroppedNeverWraps` | the inductive invariant; no counter of drops wraps | the same |
| `ProcessorProofs` | `TypeCorrect`, `EveryMessageInOnePlaceCorrect`, `SequenceCountsAgreeCorrect`, `OutcomesAgreeCorrect`, `OvertakingBoundedCorrect` | the invariants of `processor` | capacity, callers, waiters, calls of Stop, finite set of workers |
| | `FinalAfterStopCorrect`, `ProcessorImplementsJobQueue` | its action property and its refinement | the same |
| | `LifecycleCorrect` | the inductive invariant of Start and Stop | the same |
| | `ResponseAddsUpCorrect` | the invariant of `processor_live` | the same, and any readers |
| | `RecordedIsReplayedCorrect`, `ReportBracketedCorrect`, `StateFollowsFileCorrect` | the invariants of `replay` | stream of messages, number of failing writes, finite set of workers, capacity |
| `TCPListenerProofs` | `TypeCorrect`, `ConnectionsTrackedCorrect`, `NobodyLeftToSendCorrect`, `NoMessageLostCorrect`, `ConnectionOrderKeptCorrect` | the invariants of `tcp` | finite set of connections, capacities, readers of errors or none |
| `ServerProofs` | `TypeCorrect`, `NothingDroppedCorrect`, `FileKeepsOrderCorrect` | the invariants of `server` | messages and capacities |
| | `ListenerBehaves`, `QueueBehaves` | the server uses its parts as their modules say | the same |
| `LatencyRecorderProofs` | `TypeCorrect`, `WindowImplemented` | all of `latency` | length of the buffer, durations |
| `SimulatorProofs` | `PayloadsAlwaysAccepted`, `TurnsAlwaysShared`, `GapsAlwaysLosses` | the invariants of `simulator` | set of command lines and pools, capacities, draws and changes |

The assumptions are those the modules state under their CONSTANTS, and what they
ask of the code is little: capacities are naturals (the channels that must
buffer hold at least one, as `make` is called with), the workers and the
connections that ever come are finitely many, the marks `NoMessage`, `None`,
`Bad` and `Fault`, which stand for the absence of a message or for one that is
rejected, are no messages, and the two listeners receive different messages.
Simulator asks that a generator makes no more messages than a sequence number
can count (`MaxTicks <= MaxSequence`), Replay for `ReplaySetting`.

The bounds of the runs (`MaxTicks`, `MaxEvents`, `MaxSpoilt`, `MaxNoise`, the sets of messages)
are constants like the others: the theorems hold for each value of them.

### StateStoreProofs

- `TypeCorrect`: the type invariant is inductive. The cases of `Update` rest on
  the lemmas of `SensorEntryProofs`, which give an updated entry field by field
  (`AdvanceFields`, `DuplicateFields`, `LateFields`), so that no later proof
  expands the nested `EXCEPT`s. ProcessorProofs uses the same lemmas.
- `TrackingCorrect`: the inductive invariant of the sequence tracking says, for
  each known sensor, that the first number is not above the last, the counters
  balance, the remembered numbers within the window are those that arrived, all
  of them arrived, the first and the last one are among the arrivals, none is
  above the last, and the drops bracket the missing numbers. The three
  properties are parts of it, and none is inductive by itself: `LossBracketed`
  needs to know that a late message is new when it is within the window, which
  is `WindowRemembered`, and that its number lies where the gap was counted.
  The finite sets of missing numbers are compared with the theorems of
  `FiniteSetTheorems` (`AdvanceMissing`: an advance adds exactly the gap;
  `LateMissing`: a late message takes at most its own number away).
- `CountersAlwaysBalance`, `WindowAlwaysRemembered`, `LossAlwaysBracketed` follow;
  `DroppedNeverWraps` follows from the balance.
- `MemoryAlwaysBounded`: `ConfinedInv` says that the strays are finitely many, no
  more than the late messages since the mark moved; that nothing above the mark
  is remembered is part of `TrackingInv`. A late message adds one number and one to the count, an
  advance prunes all strays (`NoStrays`, `UpdatedConfined`); what is no stray is
  in an interval of `Window + 1` numbers (`WithinWindow`).
- `NeverAFalseDuplicate` is an action property, proved action by action from the
  invariant.
- `ReportedOncePerSilence`: made inductive by adding that an unknown sensor was
  never reported.

### ProcessorProofs

One lemma per step of a worker (`TakeFields`, `UpdateFields`, ...) says what the
step does to that worker, to the sets of messages and to the channel; every
invariant below is proved from these, never from the actions' definitions again.

- `TypeCorrect` needs `Holding` beside it: who is at a point of the code between
  taking a message and leaving it has one, and nobody else has.
- `LifecycleCorrect`: what the flags and the channels say of the workers and of the
  calls of Stop. Several calls may read `isRunning` before one stores it, so the
  invariant says what holds all the same: at most one of them gets past the close
  of `stopChan` (the next one panics), `jobsChan` is closed after `stopChan`,
  workers end only after that, and a call returns only when they all have. From
  it follow `FinalAfterStopCorrect` and the refinement of `JobQueue`: each step
  maps to a step of the queue or to a stutter, where `poolUp` is a worker that
  has not exited.
- `EveryMessageInOnePlaceCorrect` rests on `Channel` (the last messages of the
  history `accepted` are the queue, in order, and none was accepted twice) and on
  `Places` (those before them are with one worker or finished, never both). Take
  then hands out a message that nobody has had (`TakeIsNext`).
- `OvertakingBoundedCorrect` needs more than its statement: for each message
  taken there is a worker that holds nothing earlier (`Overtaking`). The messages
  that a finished one has overtaken are then injected into the other workers.
- `SequenceCountsAgreeCorrect` and `OutcomesAgreeCorrect` compare sums over the
  sensors with sums over the workers, between which each message is on its way.
  `Known` says that whoever has a message past `Update` has its sensor in the
  store. `FiniteSums` gives the sums: `SumFunctionOnSet` is a recursion, which
  the provers do not unfold, so `SumExists` and `SumUnique` show that it has a
  solution and only one, each with a smallest set for which it fails
  (`MinimalSet`, from the definition of a finite set); `SumChange`,
  `SumSame` and `CountChange` then say what one changed value does to a sum, and
  `SumPlus`, `SumSubset`, `SumOutside` and `SumGrows` compare sums of more than one.

Statistics:

- `ResponseAddsUpCorrect` is about counters that are loaded one after the other
  while they grow. `Sums` says what the counters are at any one moment: the
  outcomes and the unfinished messages make up what was taken, and what was sent
  is what `enqueued` counts and what callers are about to count. `ReaderInv` says
  of a reader in the middle of its loads that what it has loaded is no more than
  those counters are now (counters only grow), and that what it loads after the
  workers' counters is no less than their sum was. Which counters are among the
  first `n` loads is `Loaded`.

Replay:

- `FileInv` is the shape of the file: the messages stand in it in the order of
  `Stream`, each but those of which nothing was written; lines but the last are
  ended; and a line's flags say how its messages were written (`LineShape`), so
  that a line parses exactly when it holds one message that was written whole, or
  all but its newline as the last of the file. `Played` says that what was
  accepted is the beginning of the file, line by line. `RecordedIsReplayedCorrect`
  follows from these two (`PlayedIsClean`, `CleanIsPlayable`): a message
  behind a spoilt line would need a whole line in front of it that is spoilt.
- `Control` is the order in which main does its things: nobody is in Enqueue when
  it waits, nobody has stopped the pool before it has its report.
- `ReportBracketedCorrect` adds `Quiesced`: after quiescence nothing is sent any
  more, and the counters that a reader has loaded (`CountedBy`) are above what
  it saw by no more than the workers that have finished in the meantime. With the
  messages that are unfinished this makes one per worker.
- `StateFollowsFileCorrect` is a statement about a fold over the accepted
  messages. `StoreOf` is made of them by `FoldLeft`, a recursion over sets of
  positions; `PlayExists` and `PlayUnique` show that it has one solution, again
  by a smallest counterexample, and `StoreOfMore` that a longer prefix applies one
  message more. `OneInTurn` says that the only worker applies the next message
  each time: it follows from `Places` and `Overtaking` of a pool of one.
  `FollowsFile` is then inductive; failures, which are recorded after the update,
  do not change a sensor that is cleared of them (`ClearedUpdates`).

### TCPListenerProofs

- `Shutdown` orders the steps of Stop: the channels close after all handlers and
  the accept loop have ended, which is `NobodyLeftToSend`. `Sockets` ties each
  handler to its socket and to the map. `ConnectionsTracked` is inductive with
  these, and the type invariant needs it: `activeConnections` stays a natural
  number because a handler that leaves is one of those it counts.
- `Carried` is the inductive form of `NoMessageLost` and `ConnectionOrderKept`
  together: per connection, what was read is forwarded, in the channel, with the
  handler or given up at the shutdown; and the number of each message in the
  channel is what was forwarded plus its place among those of its connection,
  a count over the channel's indices that `OfConnAppend` and `OfConnTail` follow
  through a send and a receive. The total `received` is the sum over connections.

### ServerProofs

The server is composed of instances, and so is the proof. `ListenerMoves` and
`QueueMoves` show that every step of the server is one of `UDPListener` and one
of `JobQueue`, or leaves it alone; with the initial states this is
`ListenerBehaves` and `QueueBehaves`, and `Processor` implements the latter.
`Parts`, the type invariant, is kept by the parts' steps. For
`NothingDroppedCorrect`, `Undisturbed` says that until the signal nobody has
stopped anything (else a call of Enqueue might fail and a receive loop give up),
and `Kept` adds to the property that a datagram waits in the kernel once and has
not been read: without it, a read could count a message twice that is in one
place only. Most steps move a message from one place to the next and need only
that (`KeptSame`); a read and an arrival add one.

For `FileKeepsOrderCorrect`, `InOrder` adds where a message may be: from the
socket over the channel, the recorder and the call of Enqueue to the processor it
is in one place (`Apart`) and nowhere twice (`NoRepeats`); a forwarding goroutine
has one message of its listener at a time (`OneAtATime`); and the one it has
recorded and not yet got accepted is the last of its listener in the file
(`LastRecorded`). So what Enqueue accepts next comes behind all that it accepted
before, in both orders. A message that is given up by a receive loop or a
call that fails leaves the order as it is (`GivenUpInOrder`).

### LatencyRecorderProofs

`WindowImplemented` is the whole refinement. `Slotted` names the place of the
i-th oldest sample, so that a Record shifts the window by one (`AppendMeans`);
the copy that Snapshot takes is the window in another order (`CopyRearranges`).
Three facts about data carry the rest: `Sorted` of a copy takes each place once
and ascends (`SortedSorts`); the sample at place k of an ascending sequence has
rank k, and a rank determines the sample (`SortedRank`, `RankChosen`), also in a
rearrangement (`RankKept`); and the index of a percentile lies in the sequence
(`PercentileIndex`, of the integer formula: that the code's floating-point
product truncates to the same index was found by evaluating both up to 10000).

### SimulatorProofs

`PayloadsAlwaysAccepted` holds for all draws of the constructors and all changes
(`SimulatorAssumption`). TLC can only try a few changes; here a change may be any
integer. `PayloadsAccepted` is not inductive: a generator's field may be accepted
and yet lie outside what its `Next` keeps (a negative speed of a temperature
sensor means nothing, a vehicle's mileage grows by a speed that must not be
negative). The invariant `ReadingsWithin` gives the fields of each type the
limits of their generator; one lemma per type shows that `Next` keeps them
(`NextGPSWithin` and so on), one that the constructors draw within them and one
that the validators accept all of it.

`TurnsAlwaysShared` needs to know where in the round Run is: `Rounds` says that
the generators before the turn have spoken once more than those from it on, and
that while Run waits for the channel the one whose turn it is has spoken already.

`GapsAlwaysLosses` follows a message from its generator to the server's entry.
What was made lies in the generator's goroutine, the channel, main, the wire, the
server's queue or with a worker, or is lost or applied, and `Made`, `Passed`,
`Before`, `Left` and `Arriving` are the sets in between. `Upstream` says that up
to main each message comes directly behind its sensor's earlier ones; `Numbered`
that a generator's number is the largest and, while Run goes on, that none is
missing; `UnderWay` that what is arriving is there once and unknown to the store,
and whatever it overtook has left main; `Connection` that a TCP connection and
the queue behind it keep order, lose nothing before it breaks, and that what a
worker took comes before what is still queued. With these, `Counted` is
inductive: when an advance makes a gap, each number jumped over is a message that
is lost or still arriving (`JumpedCount`, `MissedApplied`), over a connection one
that a worker holds (`JumpsHeld`), and when a late one is applied it is one of
those missed. That two generators never share an ID (`IdsDiffer`) is where the
types have to be distinct. The turn is taken by counting the generators ahead
(`TurnTaken`).

### What stays with TLC

- Liveness, and with it all that rests on fairness, which the prover cannot do:
  `SilentSensorReported`, `CallsReturn`, `AcceptedIsProcessed`, `LinesAreRead`,
  `StopReturns`, `DatagramsAreRead`, `ShutdownEnds`, `ReplayEnds`, `ProgramGoesOn`.
- The properties of the runs that expect a violation, which are no theorems.

The prover has no induction over data, since the library's induction theorems
take an operator as a parameter. The sums over finite sets and the fold of
`StoreOf` were within reach all the same, through a smallest set for which the
claim fails.

The index of a percentile is proved for the integer formula only (see above), and
that file and processor are used in `cmd/server` as JobQueue and UDPListener say
is proved by `QueueBehaves` and `ListenerBehaves`; that the TCP listener's channel
in Server stands for TCPListener is an abstraction that is not proved.

## Not modelled

- The recovered panic of `processMessage` and nil messages in `Run`: nothing in
  the repository causes either.
- Restarting a component after Stop, and Stats before Start: no caller does it.
- JSON, and the validators of radar and patient vitals, whose payloads nothing in
  the repository produces: pure functions with unit tests of their own.
- Fractions: the fields of Payload are whole units, and clamping floating-point
  numbers rounds nothing. NaN cannot come from finite draws.
- The simulator without `--target`, which prints and sends nothing, and the
  start-up failures of its sender.
- The API's HTTP server, and its handlers of a single read; the listeners'
  counters in its responses, which are read before everything else.
- Duplicated datagrams: the store treats a repeated number alike wherever it
  comes from. The listeners' counters of rejected messages beyond TCPListener's.
- Last-error texts, logging, the UI: output only.
- Two calls of a listener's Stop, or of the monitor's: the server makes one.

## Plan

The order is that of importance: the data path first (store, processor,
listener), its measurements, then the composition.

1. *Done*: SensorEntry, StateStore, Processor, TCPListener, LatencyWindow and
   LatencyRecorder; JobQueue, UDPListener and Server; Statistics, Replay, Payload
   and Simulator; the proofs above.
2. *Done*: a theorem for every invariant, action property and refinement of the
   passing runs.
3. Left: Server with TCPListener instead of its channel, as far as TLC can go, and
   with it a proof that the channel is what TCPListener offers.
