--------------------------- MODULE ProcessorProofs ---------------------------
(***************************************************************************)
(* Theorems about Processor, about Statistics, which reads it, and about    *)
(* Replay, which plays a file through it, in this order.  They hold for any *)
(* finite set of workers, any number of callers, stoppers, waiters and      *)
(* readers, any messages and any capacity; those about Replay for any       *)
(* stream of messages that are recorded once each (ReplaySetting).          *)
(***************************************************************************)
EXTENDS Replay, SensorEntryProofs, FiniteSums, SequenceTheorems

-----------------------------------------------------------------------------
(* Types.                                                                   *)

CallerStates == [pc : {"idle", "selecting", "counting"}, msg : Messages \cup {NoMessage}]

Results == [dropped : Nat, duplicate : BOOLEAN, outOfOrder : BOOLEAN]

WorkerStates ==
    [pc : {"absent", "selecting", "updating", "counting", "validating",
           "recording", "leaving", "exited"},
     msg : Messages \cup {NoMessage},
     result : Results]

LifecycleType ==
    /\ isRunning \in BOOLEAN /\ stopClosed \in BOOLEAN /\ jobsClosed \in BOOLEAN
    /\ stopper \in [Stoppers ->
           {"idle", "storing", "closingStop", "closingJobs", "waiting", "returned", "noop"}]

IntakeType ==
    /\ queue \in Seq(Messages) /\ Len(queue) <= QueueSize
    /\ enqueued \in Nat /\ queueFull \in Nat
    /\ caller \in [Enqueuers -> CallerStates]
    /\ submitted \subseteq Messages /\ accepted \in Seq(Messages)

PoolType ==
    /\ worker \in [Workers -> WorkerStates]
    /\ counts \in [Workers -> [Counters -> Nat]]
    /\ sensors \in [DOMAIN sensors -> Entry]
    /\ updated \subseteq Messages /\ finished \subseteq Messages

RestType ==
    /\ waiter \in [Waiters ->
           {"idle", "checking", "looking", "quiet", "timedOut", "notRunning"}]
    /\ crashed \in {"no", "send on closed channel", "close of closed channel"}

\* TypeOK by the parts of the state that operations touch separately.
LEMMA TypeParts == TypeOK <=> LifecycleType /\ IntakeType /\ PoolType /\ RestType
BY DEF TypeOK, LifecycleType, IntakeType, PoolType, RestType, WorkerStates, CallerStates,
       Results

\* A worker between two messages.
LEMMA FreeType ==
    ASSUME NEW pc \in {"absent", "selecting", "updating", "exited"}
    PROVE  /\ Free(pc) \in WorkerStates
           /\ Free(pc).pc = pc /\ Free(pc).msg = NoMessage /\ Free(pc).result = NoResult
BY DEF Free, NoResult, WorkerStates, Results

\* What Update reports has its type, and NoResult is what it says of a new sensor.
LEMMA ResultType ==
    ASSUME PoolType, NEW m \in Messages PROVE ResultOf(m) \in Results
<1>1. CASE m.sensor \notin DOMAIN sensors
  BY <1>1 DEF ResultOf, NoResult, Results
<1>2. CASE m.sensor \in DOMAIN sensors
  <2> DEFINE e == sensors[m.sensor]
  <2>1. e \in Entry /\ m.sequence \in SequenceNumbers
    BY <1>2, ProcessorAssumption DEF PoolType
  <2>2. Advances(e, m.sequence) => Gap(e, m.sequence) \in Nat
    BY <2>1, UpdatedCounters
  <2>3. IsDuplicate(e, m.sequence) \in BOOLEAN /\ IsOutOfOrder(e, m.sequence) \in BOOLEAN
    BY DEF IsDuplicate, IsOutOfOrder
  <2> QED BY <1>2, <2>2, <2>3, Zenon DEF ResultOf, Results
<1> QED BY <1>1, <1>2

\* A step of a worker, an enqueuing goroutine or a call of Stop.
LEMMA WorkingType ==
    ASSUME TypeOK, NEW w \in Workers, NEW from, NEW next \in WorkerStates,
           Working(w, from, next)
    PROVE  /\ worker' \in [Workers -> WorkerStates]
           /\ worker'[w] = next /\ \A v \in Workers \ {w} : worker'[v] = worker[v]
           /\ LifecycleType' /\ RestType'
           /\ enqueued' = enqueued /\ queueFull' = queueFull /\ caller' = caller
           /\ submitted' = submitted /\ accepted' = accepted
<1>1. worker \in [Workers -> WorkerStates] /\ LifecycleType /\ RestType
  BY TypeParts DEF PoolType
<1> QED BY <1>1 DEF Working, lifecycle, LifecycleType, RestType

\* A step of a caller of Enqueue or TryEnqueue moves that caller only.
LEMMA EnqueuingType ==
    ASSUME TypeOK, NEW c \in Enqueuers, NEW from, NEW next \in CallerStates,
           Enqueuing(c, from, next)
    PROVE  /\ caller' \in [Enqueuers -> CallerStates]
           /\ caller'[c] = next /\ \A d \in Enqueuers \ {c} : caller'[d] = caller[d]
           /\ LifecycleType' /\ PoolType' /\ RestType'
<1>1. caller \in [Enqueuers -> CallerStates] /\ LifecycleType /\ PoolType /\ RestType
  BY TypeParts DEF IntakeType
<1> QED BY <1>1 DEF Enqueuing, lifecycle, pool, LifecycleType, PoolType, RestType

\* The counters of a worker stay natural numbers.
LEMMA CountersType ==
    ASSUME NEW n \in [Counters -> Nat], NEW r \in Results, NEW outcome \in Outcomes
    PROVE  /\ Added(n, r) \in [Counters -> Nat]
           /\ WithOutcome(n, outcome) \in [Counters -> Nat]
<1>1. n["dropped"] + r.dropped \in Nat /\ \A k \in Counters : n[k] + 1 \in Nat
  BY DEF Counters, Results
<1>2. Added(n, r) \in [Counters -> Nat]
  BY <1>1 DEF Added, Counters
<1>3. CounterOf(outcome) \in Counters
  BY DEF CounterOf, Counters, Outcomes
<1>4. WithOutcome(n, outcome) \in [Counters -> Nat]
  BY <1>1, <1>3 DEF WithOutcome
<1> QED BY <1>2, <1>4

-----------------------------------------------------------------------------
(* Who holds a message.                                                     *)

HoldingPcs == {"updating", "counting", "validating", "recording", "leaving"}

\* A goroutine holds a message exactly while it works on one, and what Update
\* found exactly until it is counted.
Holding ==
    /\ \A c \in Enqueuers : caller[c].pc # "idle" => caller[c].msg \in Messages
    /\ \A w \in Workers :
           /\ worker[w].msg # NoMessage <=> worker[w].pc \in HoldingPcs
           /\ worker[w].pc # "counting" => worker[w].result = NoResult

TypeInv == TypeOK /\ Holding

\* Types, and who holds a message, initially and after every step: one step of the
\* proof for each action.
LEMMA TypeInit == Init => TypeInv
<1> SUFFICES ASSUME Init PROVE TypeInv
  OBVIOUS
<1>1. LifecycleType /\ RestType
  BY DEF Init, LifecycleType, RestType
<1>2. IntakeType
  <2>1. <<>> \in Seq(Messages) /\ Len(<<>>) = 0
    BY EmptySeq
  <2>2. Idle \in CallerStates
    BY DEF Idle, CallerStates
  <2> QED BY <2>1, <2>2, ProcessorAssumption DEF Init, IntakeType
<1>3. PoolType
  BY FreeType DEF Init, PoolType
<1>4. Holding
  BY FreeType DEF Init, Holding, Idle, HoldingPcs
<1> QED BY <1>1, <1>2, <1>3, <1>4, TypeParts DEF TypeInv

\* A caller keeps its message until it returns.
LEMMA CallerKeepsHolding ==
    ASSUME TypeInv, NEW c \in Enqueuers, NEW from, NEW next \in CallerStates,
           Enqueuing(c, from, next), next.pc # "idle" => next.msg \in Messages
    PROVE  Holding'
<1>1. /\ caller'[c] = next /\ \A d \in Enqueuers \ {c} : caller'[d] = caller[d]
      /\ worker' = worker
  BY EnqueuingType DEF TypeInv, Enqueuing, pool
<1> QED BY <1>1 DEF TypeInv, Holding

\* A worker holds a message from Take to Leave, and a result until it has counted it.
LEMMA WorkerKeepsHolding ==
    ASSUME TypeInv, NEW w \in Workers, NEW from, NEW next \in WorkerStates,
           Working(w, from, next),
           next.msg # NoMessage <=> next.pc \in HoldingPcs,
           next.pc # "counting" => next.result = NoResult
    PROVE  Holding'
<1>1. /\ worker'[w] = next /\ \A v \in Workers \ {w} : worker'[v] = worker[v]
      /\ caller' = caller
  BY WorkingType DEF TypeInv
<1> QED BY <1>1 DEF TypeInv, Holding

LEMMA TypeStep == TypeInv /\ [Next]_vars => TypeInv'
<1> SUFFICES ASSUME TypeInv, [Next]_vars PROVE TypeInv'
  OBVIOUS
<1>0. /\ TypeOK /\ Holding
      /\ LifecycleType /\ IntakeType /\ PoolType /\ RestType
  BY TypeParts DEF TypeInv
<1>a. LifecycleType' /\ IntakeType' /\ PoolType' /\ RestType' /\ Holding' => TypeInv'
  BY DEF TypeInv, TypeOK, LifecycleType, IntakeType, PoolType, RestType, WorkerStates,
         CallerStates, Results
<1> DEFINE StopFrame == UNCHANGED <<intake, pool, waiter, crashed>>
<1>b. ASSUME StopFrame, LifecycleType' PROVE TypeInv'
  <2>1. IntakeType' /\ PoolType' /\ RestType' /\ Holding'
    BY <1>0, <1>b DEF intake, pool, IntakeType, PoolType, RestType, Holding
  <2> QED BY <1>a, <1>b, <2>1
<1>1. CASE Start
  <2>1. PICK P \in (SUBSET Workers) \ {{}} :
            worker' = [w \in Workers |-> IF w \in P THEN Free("selecting") ELSE worker[w]]
    BY <1>1 DEF Start
  <2>2. PoolType'
    BY <1>0, <1>1, <2>1, FreeType DEF Start, PoolType
  <2>3. LifecycleType' /\ IntakeType' /\ RestType'
    BY <1>0, <1>1 DEF Start, intake, LifecycleType, IntakeType, RestType
  <2>4. Holding'
    BY <1>0, <1>1, <2>1, FreeType DEF Start, intake, Holding, HoldingPcs
  <2> QED BY <1>a, <2>2, <2>3, <2>4
<1>2. ASSUME NEW t \in Stoppers, StopStep(t) PROVE TypeInv'
  <2>1. CASE CloseStopChanAgain(t)
    BY <1>0, <1>a, <2>1 DEF CloseStopChanAgain, Panic, lifecycle, intake, pool, LifecycleType,
       IntakeType, PoolType, RestType, Holding
  <2>2. CASE StopCheck(t) \/ StopStore(t) \/ CloseStopChan(t) \/ CloseJobsChan(t) \/ StopReturn(t)
    <3>1. StopFrame
      BY <2>2 DEF StopCheck, StopStore, CloseStopChan, CloseJobsChan, StopReturn, Stopping
    <3>2. LifecycleType'
      BY <1>0, <2>2 DEF StopCheck, StopStore, CloseStopChan, CloseJobsChan, StopReturn,
         Stopping, LifecycleType
    <3> QED BY <1>b, <3>1, <3>2
  <2> QED BY <1>2, <2>1, <2>2 DEF StopStep
<1>3. ASSUME NEW c \in Enqueuers, NEW m \in Messages, Call(c, m) PROVE TypeInv'
  <2> DEFINE next == IF isRunning THEN [pc |-> "selecting", msg |-> m] ELSE Idle
  <2>1. next \in CallerStates /\ (next.pc # "idle" => next.msg \in Messages)
    BY DEF Idle, CallerStates
  <2>2. Enqueuing(c, "idle", next)
    BY <1>3 DEF Call
  <2> HIDE DEF next
  <2>3. LifecycleType' /\ PoolType' /\ RestType' /\ caller' \in [Enqueuers -> CallerStates]
    BY <1>0, <2>1, <2>2, EnqueuingType
  <2>4. IntakeType'
    BY <1>0, <1>3, <2>3 DEF Call, IntakeType
  <2>5. Holding'
    BY <2>1, <2>2, CallerKeepsHolding
  <2> QED BY <1>a, <2>3, <2>4, <2>5
<1>4. ASSUME NEW c \in Enqueuers, EnqueueStep(c) PROVE TypeInv'
  <2>1. CASE SendOnClosed(c)
    BY <1>0, <1>a, <2>1 DEF SendOnClosed, Panic, lifecycle, intake, pool, LifecycleType,
       IntakeType, PoolType, RestType, Holding
  <2>2. CASE Send(c)
    <3> DEFINE next == [caller[c] EXCEPT !.pc = "counting"]
    <3>1. caller[c] \in CallerStates /\ caller[c].pc = "selecting" /\ caller[c].msg \in Messages
      BY <1>0, <2>2 DEF Send, Enqueuing, IntakeType, Holding
    <3>2. next \in CallerStates /\ next.msg \in Messages
      BY <3>1 DEF CallerStates
    <3>3. Enqueuing(c, "selecting", next)
      BY <2>2 DEF Send
    <3> HIDE DEF next
    <3>4. LifecycleType' /\ PoolType' /\ RestType' /\ caller' \in [Enqueuers -> CallerStates]
      BY <1>0, <3>2, <3>3, EnqueuingType
    <3>5. /\ queue' \in Seq(Messages) /\ Len(queue') = Len(queue) + 1
          /\ accepted' \in Seq(Messages)
      BY <1>0, <2>2, <3>1, AppendProperties DEF Send, IntakeType
    <3>6. Len(queue) \in Nat /\ Len(queue) < QueueSize
      BY <1>0, <2>2, LenProperties DEF Send, HasRoom, IntakeType
    <3>7. Len(queue') <= QueueSize
      BY <3>5, <3>6, ProcessorAssumption
    <3>8. IntakeType'
      BY <1>0, <2>2, <3>4, <3>5, <3>7 DEF Send, IntakeType
    <3>9. Holding'
      BY <3>2, <3>3, CallerKeepsHolding
    <3> QED BY <1>a, <3>4, <3>8, <3>9
  <2>3. CASE Count(c) \/ GiveUp(c) \/ Refuse(c)
    <3>1. PICK from : Enqueuing(c, from, Idle)
      BY <2>3 DEF Count, GiveUp, Refuse
    <3>2. Idle \in CallerStates /\ Idle.pc = "idle"
      BY DEF Idle, CallerStates
    <3>3. LifecycleType' /\ PoolType' /\ RestType' /\ caller' \in [Enqueuers -> CallerStates]
      BY <1>0, <3>1, <3>2, EnqueuingType
    <3>4. IntakeType'
      BY <1>0, <2>3, <3>3 DEF Count, GiveUp, Refuse, IntakeType
    <3>5. Holding'
      BY <3>1, <3>2, CallerKeepsHolding
    <3> QED BY <1>a, <3>3, <3>4, <3>5
  <2> QED BY <1>4, <2>1, <2>2, <2>3 DEF EnqueueStep
<1>5. ASSUME NEW w \in Workers, WorkerStep(w) PROVE TypeInv'
  <2>0. /\ worker[w] \in WorkerStates
        /\ worker[w].msg # NoMessage => worker[w].msg \in Messages
        /\ worker[w].msg # NoMessage <=> worker[w].pc \in HoldingPcs
    BY <1>0 DEF PoolType, WorkerStates, Holding
  <2>a. ASSUME NEW from, NEW next \in WorkerStates, Working(w, from, next),
               next.msg # NoMessage <=> next.pc \in HoldingPcs,
               next.pc # "counting" => next.result = NoResult,
               queue' \in Seq(Messages) /\ Len(queue') <= QueueSize,
               counts' \in [Workers -> [Counters -> Nat]],
               sensors' \in [DOMAIN sensors' -> Entry],
               updated' \subseteq Messages /\ finished' \subseteq Messages
        PROVE  TypeInv'
    <3>1. /\ worker' \in [Workers -> WorkerStates] /\ LifecycleType' /\ RestType'
          /\ enqueued' = enqueued /\ queueFull' = queueFull /\ caller' = caller
          /\ submitted' = submitted /\ accepted' = accepted
      BY <1>0, <2>a, WorkingType
    <3>2. Holding'
      BY <2>a, WorkerKeepsHolding
    <3>3. PoolType'
      BY <2>a, <3>1 DEF PoolType
    <3>4. IntakeType'
      BY <1>0, <2>a, <3>1 DEF IntakeType
    <3> QED BY <1>a, <3>1, <3>2, <3>3, <3>4
  <2>b. /\ queue \in Seq(Messages) /\ Len(queue) <= QueueSize
        /\ counts \in [Workers -> [Counters -> Nat]]
        /\ sensors \in [DOMAIN sensors -> Entry]
        /\ updated \subseteq Messages /\ finished \subseteq Messages
    BY <1>0 DEF IntakeType, PoolType
  <2>1. CASE Exit(w)
    <3>1. /\ Working(w, "selecting", Free("exited"))
          /\ UNCHANGED <<queue, counts, sensors, updated, finished>>
      BY <2>1 DEF Exit
    <3>2. /\ Free("exited") \in WorkerStates /\ Free("exited").pc = "exited"
          /\ Free("exited").msg = NoMessage /\ Free("exited").result = NoResult
      BY FreeType
    <3> QED BY <2>a, <2>b, <3>1, <3>2 DEF HoldingPcs
  <2>2. CASE Take(w)
    <3> DEFINE next == [Free("updating") EXCEPT !.msg = Head(queue)]
    <3>1. Head(queue) \in Messages /\ Tail(queue) \in Seq(Messages)
          /\ Len(Tail(queue)) = Len(queue) - 1 /\ Len(queue) \in Nat
      BY <2>b, <2>2, HeadTailProperties, LenProperties DEF Take
    <3>2. /\ next \in WorkerStates /\ next.pc = "updating" /\ next.msg = Head(queue)
          /\ next.result = NoResult
      BY <3>1, FreeType DEF WorkerStates
    <3>3. /\ Working(w, "selecting", next) /\ queue' = Tail(queue)
          /\ UNCHANGED <<counts, sensors, updated, finished>>
      BY <2>2 DEF Take, Begins
    <3>4. next.msg # NoMessage
      BY <3>1, <3>2, ProcessorAssumption
    <3>5. Len(queue') <= QueueSize
      BY <2>b, <3>1, <3>3, ProcessorAssumption
    <3> HIDE DEF next
    <3> QED BY <2>a, <2>b, <3>1, <3>2, <3>3, <3>4, <3>5 DEF HoldingPcs
  <2>3. CASE UpdateStore(w)
    <3> DEFINE m == worker[w].msg
               next == [worker[w] EXCEPT !.pc = "counting", !.result = ResultOf(m)]
    <3>1. worker[w].pc = "updating" /\ Working(w, "updating", next)
      BY <2>3 DEF UpdateStore, Working
    <3>2. m \in Messages
      BY <2>0, <3>1 DEF HoldingPcs
    <3>3. ResultOf(m) \in Results
      BY <1>0, <3>2, ResultType
    <3>4. next \in WorkerStates /\ next.pc = "counting" /\ next.msg = m
      BY <2>0, <3>3 DEF WorkerStates
    <3>5. m \in Messages /\ m # NoMessage
      BY <3>2, ProcessorAssumption
    <3>6. sensors' \in [DOMAIN sensors' -> Entry]
      <4>1. m.sequence \in SequenceNumbers
        BY <3>2, ProcessorAssumption
      <4>2. NewEntry(m.sequence) \in Entry
        BY <4>1, NewEntryType
      <4>3. m.sensor \in DOMAIN sensors => Updated(sensors[m.sensor], m.sequence) \in Entry
        BY <2>b, <4>1, UpdatedType
      <4> QED BY <2>b, <2>3, <4>2, <4>3 DEF UpdateStore
    <3>7. UNCHANGED <<queue, counts, finished>> /\ updated' = updated \cup {m}
      BY <2>3 DEF UpdateStore
    <3> HIDE DEF next, m
    <3> QED BY <2>a, <2>b, <3>1, <3>4, <3>5, <3>6, <3>7 DEF HoldingPcs
  <2>4. CASE CountSequence(w)
    <3> DEFINE next == [worker[w] EXCEPT !.pc = "validating", !.result = NoResult]
    <3>1. worker[w].pc = "counting" /\ Working(w, "counting", next)
      BY <2>4 DEF CountSequence, Working
    <3>2. /\ next \in WorkerStates /\ next.pc = "validating" /\ next.msg = worker[w].msg
          /\ next.result = NoResult
      BY <2>0 DEF WorkerStates, NoResult, Results
    <3>3. counts' \in [Workers -> [Counters -> Nat]]
      <4>1. "sound" \in Outcomes /\ worker[w].result \in Results
        BY <2>0 DEF Outcomes, WorkerStates
      <4>2. Added(counts[w], worker[w].result) \in [Counters -> Nat]
        BY <2>b, <4>1, CountersType
      <4>3. counts' = [counts EXCEPT ![w] = Added(counts[w], worker[w].result)]
        BY <2>4 DEF CountSequence
      <4> QED BY <2>b, <4>2, <4>3
    <3>4. UNCHANGED <<queue, sensors, updated, finished>>
      BY <2>4 DEF CountSequence
    <3>5. next.msg # NoMessage
      BY <2>0, <3>1, <3>2 DEF HoldingPcs
    <3> HIDE DEF next
    <3> QED BY <2>a, <2>b, <3>1, <3>2, <3>3, <3>4, <3>5 DEF HoldingPcs
  <2>5. CASE Validate(w)
    <3> DEFINE outcome == worker[w].msg.outcome
               next == [worker[w] EXCEPT !.pc = IF outcome = "sound" THEN "leaving"
                                                ELSE "recording"]
    <3>1. worker[w].pc = "validating" /\ Working(w, "validating", next)
      BY <2>5 DEF Validate, Working
    <3>2. /\ next \in WorkerStates /\ next.pc \in {"leaving", "recording"}
          /\ next.msg = worker[w].msg /\ next.result = worker[w].result
      BY <2>0 DEF WorkerStates
    <3>3. worker[w].msg \in Messages /\ worker[w].msg # NoMessage /\ worker[w].result = NoResult
      BY <1>0, <2>0, <3>1 DEF HoldingPcs, Holding
    <3>4. counts' \in [Workers -> [Counters -> Nat]]
      <4>1. outcome \in Outcomes /\ worker[w].result \in Results
        BY <2>0, <3>3, ProcessorAssumption DEF WorkerStates
      <4>2. WithOutcome(counts[w], outcome) \in [Counters -> Nat]
        BY <2>b, <4>1, CountersType
      <4>3. counts' = [counts EXCEPT ![w] = WithOutcome(counts[w], outcome)]
        BY <2>5 DEF Validate
      <4> QED BY <2>b, <4>2, <4>3
    <3>5. UNCHANGED <<queue, sensors, updated, finished>>
      BY <2>5 DEF Validate
    <3> HIDE DEF next
    <3> QED BY <2>a, <2>b, <3>1, <3>2, <3>3, <3>4, <3>5 DEF HoldingPcs
  <2>6. CASE RecordFailure(w)
    <3> DEFINE m == worker[w].msg
               next == [worker[w] EXCEPT !.pc = "leaving"]
    <3>1. worker[w].pc = "recording" /\ Working(w, "recording", next)
      BY <2>6 DEF RecordFailure, Working
    <3>2. /\ next \in WorkerStates /\ next.pc = "leaving"
          /\ next.msg = m /\ next.result = worker[w].result
      BY <2>0 DEF WorkerStates
    <3>3. m # NoMessage /\ worker[w].result = NoResult
      BY <1>0, <2>0, <3>1 DEF HoldingPcs, Holding
    <3>4. sensors' \in [DOMAIN sensors' -> Entry]
      <4>1. sensors' = [sensors EXCEPT ![m.sensor] =
                IF m.outcome = "anomaly" THEN WithAnomaly(sensors[m.sensor])
                                         ELSE WithError(sensors[m.sensor])]
        BY <2>6 DEF RecordFailure
      <4>2. m.sensor \in DOMAIN sensors =>
               /\ WithAnomaly(sensors[m.sensor]) \in Entry
               /\ WithError(sensors[m.sensor]) \in Entry
        BY <2>b, FailureType
      <4> QED BY <2>b, <4>1, <4>2
    <3>5. UNCHANGED <<queue, counts, updated, finished>>
      BY <2>6 DEF RecordFailure
    <3> HIDE DEF next, m
    <3> QED BY <2>a, <2>b, <3>1, <3>2, <3>3, <3>4, <3>5 DEF HoldingPcs
  <2>7. CASE Leave(w)
    <3>1. /\ worker[w].pc = "leaving" /\ Working(w, "leaving", Free("selecting"))
          /\ finished' = finished \cup {worker[w].msg}
          /\ UNCHANGED <<queue, counts, sensors, updated>>
      BY <2>7 DEF Leave, Released, Working
    <3>2. /\ Free("selecting") \in WorkerStates /\ Free("selecting").pc = "selecting"
          /\ Free("selecting").msg = NoMessage /\ Free("selecting").result = NoResult
      BY FreeType
    <3>3. worker[w].msg \in Messages
      BY <2>0, <3>1 DEF HoldingPcs
    <3> QED BY <2>a, <2>b, <3>1, <3>2, <3>3 DEF HoldingPcs
  <2> QED BY <1>5, <2>1, <2>2, <2>3, <2>4, <2>5, <2>6, <2>7 DEF WorkerStep
<1>6. ASSUME NEW v \in Waiters, Wait(v) \/ WaitStep(v) PROVE TypeInv'
  <2>1. LifecycleType' /\ IntakeType' /\ PoolType' /\ Holding'
    BY <1>0, <1>6 DEF Wait, WaitStep, WaitCheck, WaitQuiet, WaitOn, Waiting, lifecycle, intake,
       pool, LifecycleType, IntakeType, PoolType, Holding
  <2>2. RestType'
    BY <1>0, <1>6 DEF Wait, WaitStep, WaitCheck, WaitQuiet, WaitOn, Waiting, RestType
  <2> QED BY <1>a, <2>1, <2>2
<1>7. CASE UNCHANGED vars
  BY <1>0, <1>a, <1>7 DEF vars, lifecycle, intake, pool, LifecycleType, IntakeType, PoolType,
     RestType, Holding
<1> QED BY <1>1, <1>2, <1>3, <1>4, <1>5, <1>6, <1>7 DEF Next

\* TypeOK, and who holds a message.
THEOREM AlwaysTyped == Spec => []TypeInv
BY TypeInit, TypeStep, PTL DEF Spec

\* Every goroutine is at a point of its code, and the channel never holds more
\* than its capacity.
THEOREM TypeCorrect == Spec => []TypeOK
<1>1. TypeInv => TypeOK
  BY DEF TypeInv
<1> QED BY <1>1, AlwaysTyped, PTL

-----------------------------------------------------------------------------
(* Starting and stopping.                                                   *)

\* Where a call of Stop is once it has cleared the flag, closed stopChan, and
\* closed jobsChan.
Stored       == {"closingStop", "closingJobs", "waiting", "returned"}
StopIsClosed == {"closingJobs", "waiting", "returned"}
JobsIsClosed == {"waiting", "returned"}

\* What the three flags say of the workers and of the calls of Stop.
Lifecycle ==
    /\ isRunning \/ stopClosed => Pool # {}
    /\ jobsClosed => stopClosed
    /\ ~ stopClosed => \A w \in Workers : worker[w].pc # "exited"
    /\ \A t \in Stoppers :
           /\ stopper[t] \notin {"idle", "noop"} => Pool # {}
           /\ stopper[t] \in Stored => ~ isRunning
           /\ stopper[t] \in StopIsClosed => stopClosed
           /\ stopper[t] \in JobsIsClosed => jobsClosed
           /\ stopper[t] = "returned" => PoolEnded
    /\ \A t, u \in Stoppers :
           stopper[t] \in StopIsClosed /\ stopper[u] \in StopIsClosed => t = u
    /\ jobsClosed => \E t \in Stoppers : stopper[t] \in JobsIsClosed

\* A step of a worker: it exists, it has not ended, and it goes on existing.
LEMMA WorkerMoves ==
    ASSUME TypeInv, NEW w \in Workers, WorkerStep(w)
    PROVE  /\ worker[w].pc \notin {"absent", "exited"}
           /\ worker'[w].pc \notin {"absent"}
           /\ worker'[w].pc = "exited" => RunEnds
           /\ \A v \in Workers \ {w} : worker'[v] = worker[v]
           /\ UNCHANGED <<lifecycle, enqueued, queueFull, caller, submitted, accepted,
                          waiter, crashed>>
<1>1. worker \in [Workers -> WorkerStates] /\ worker[w] \in WorkerStates
  BY TypeParts DEF TypeInv, PoolType
<1>2. ASSUME NEW from, NEW next, Working(w, from, next)
      PROVE  /\ worker[w].pc = from /\ worker'[w] = next
             /\ \A v \in Workers \ {w} : worker'[v] = worker[v]
             /\ UNCHANGED <<lifecycle, enqueued, queueFull, caller, submitted, accepted,
                            waiter, crashed>>
  BY <1>1, <1>2 DEF Working
<1>3. CASE Exit(w)
  <2>1. Working(w, "selecting", Free("exited")) /\ RunEnds
    BY <1>3 DEF Exit
  <2> QED BY <1>2, <2>1, FreeType
<1>4. CASE Take(w)
  <2> DEFINE next == [Free("updating") EXCEPT !.msg = Head(queue)]
  <2>1. next.pc = "updating"
    BY DEF Free
  <2>2. Working(w, "selecting", next)
    BY <1>4 DEF Take, Begins
  <2> HIDE DEF next
  <2> QED BY <1>2, <2>1, <2>2
<1>5. CASE UpdateStore(w) \/ CountSequence(w) \/ Validate(w) \/ RecordFailure(w)
  <2>1. PICK from, next :
            /\ from \in HoldingPcs
            /\ Working(w, from, next)
            /\ next.pc \in {"counting", "validating", "recording", "leaving"}
    <3>1. CASE UpdateStore(w)
      <4> DEFINE next == [worker[w] EXCEPT !.pc = "counting",
                                           !.result = ResultOf(worker[w].msg)]
      <4>1. next.pc = "counting"
        BY <1>1 DEF WorkerStates
      <4>2. Working(w, "updating", next)
        BY <3>1 DEF UpdateStore
      <4> HIDE DEF next
      <4> QED BY <4>1, <4>2 DEF HoldingPcs
    <3>2. CASE CountSequence(w)
      <4> DEFINE next == [worker[w] EXCEPT !.pc = "validating", !.result = NoResult]
      <4>1. next.pc = "validating"
        BY <1>1 DEF WorkerStates
      <4>2. Working(w, "counting", next)
        BY <3>2 DEF CountSequence
      <4> HIDE DEF next
      <4> QED BY <4>1, <4>2 DEF HoldingPcs
    <3>3. CASE Validate(w)
      BY <1>1, <3>3 DEF Validate, WorkerStates, HoldingPcs
    <3>4. CASE RecordFailure(w)
      BY <1>1, <3>4 DEF RecordFailure, WorkerStates, HoldingPcs
    <3> QED BY <1>5, <3>1, <3>2, <3>3, <3>4
  <2> QED BY <1>2, <2>1 DEF HoldingPcs
<1>6. CASE Leave(w)
  <2>1. Working(w, "leaving", Free("selecting"))
    BY <1>6 DEF Leave, Released
  <2> QED BY <1>2, <2>1, FreeType
<1> QED BY <1>3, <1>4, <1>5, <1>6 DEF WorkerStep

\* The pool has the workers that Start made, until the process ends.
LEMMA PoolStays ==
    ASSUME TypeInv, NEW w \in Workers, WorkerStep(w)
    PROVE  Pool' = Pool /\ (PoolEnded => PoolEnded')
BY WorkerMoves DEF Pool, PoolEnded

\* The three flags, initially and after every step.
LEMMA LifecycleInit == Init => Lifecycle
BY FreeType DEF Init, Lifecycle, Pool, Stored, StopIsClosed, JobsIsClosed

LEMMA LifecycleStep == TypeInv /\ Lifecycle /\ [Next]_vars => Lifecycle'
<1> SUFFICES ASSUME TypeInv, Lifecycle, [Next]_vars PROVE Lifecycle'
  OBVIOUS
<1>0. LifecycleType /\ worker \in [Workers -> WorkerStates]
  BY TypeParts DEF TypeInv, PoolType
<1>a. ASSUME UNCHANGED <<lifecycle, worker>> PROVE Lifecycle'
  BY <1>a DEF lifecycle, Lifecycle, Pool, PoolEnded
<1>1. CASE Start
  <2>1. PICK P \in (SUBSET Workers) \ {{}} :
            worker' = [w \in Workers |-> IF w \in P THEN Free("selecting") ELSE worker[w]]
    BY <1>1 DEF Start
  <2>2. Pool' = P /\ P # {} /\ \A w \in Workers : worker'[w].pc # "exited"
    BY <1>1, <2>1, FreeType DEF Start, Pool
  <2>3. \A t \in Stoppers : stopper[t] \notin Stored
    BY <1>1 DEF Start, Lifecycle, Stored
  <2>4. /\ ~ stopClosed /\ ~ jobsClosed /\ isRunning'
        /\ UNCHANGED <<stopClosed, jobsClosed, stopper>>
    BY <1>1 DEF Start, Lifecycle
  <2> QED BY <2>2, <2>3, <2>4 DEF Lifecycle, Stored, StopIsClosed, JobsIsClosed
<1>2. ASSUME NEW t \in Stoppers, StopStep(t) PROVE Lifecycle'
  <2>1. CASE CloseStopChanAgain(t)
    BY <1>a, <2>1 DEF CloseStopChanAgain, Panic, pool
  <2>a. ASSUME NEW from, NEW to, Stopping(t, from, to)
        PROVE  /\ stopper[t] = from /\ stopper'[t] = to /\ UNCHANGED worker
               /\ \A u \in Stoppers \ {t} : stopper'[u] = stopper[u]
               /\ Pool' = Pool /\ PoolEnded' = PoolEnded
    BY <1>0, <2>a DEF Stopping, pool, LifecycleType, Pool, PoolEnded
  <2>2. CASE StopCheck(t)
    <3>1. Stopping(t, "idle", IF isRunning THEN "storing" ELSE "noop")
      BY <2>2 DEF StopCheck
    <3>2. /\ stopper[t] = "idle" /\ UNCHANGED worker
          /\ stopper'[t] = IF isRunning THEN "storing" ELSE "noop"
          /\ \A u \in Stoppers \ {t} : stopper'[u] = stopper[u]
          /\ Pool' = Pool /\ PoolEnded' = PoolEnded
      BY <2>a, <3>1
    <3>3. \A u \in Stoppers :
             \/ stopper'[u] = stopper[u]
             \/ stopper'[u] = "storing" /\ isRunning
             \/ stopper'[u] = "noop"
      BY <3>2
    <3>4. \A u \in Stoppers : stopper[u] \in JobsIsClosed => stopper'[u] = stopper[u]
      BY <3>2 DEF JobsIsClosed
    <3> QED BY <2>2, <3>2, <3>3, <3>4 DEF StopCheck, Lifecycle, Stored, StopIsClosed, JobsIsClosed
  <2>3. CASE StopStore(t)
    <3>1. /\ stopper[t] = "storing" /\ UNCHANGED worker /\ stopper'[t] = "closingStop"
          /\ \A u \in Stoppers \ {t} : stopper'[u] = stopper[u]
          /\ Pool' = Pool /\ PoolEnded' = PoolEnded
          /\ ~ isRunning' /\ UNCHANGED <<stopClosed, jobsClosed>>
      BY <2>3, <2>a DEF StopStore
    <3>2. /\ \A u \in Stoppers : stopper'[u] \in StopIsClosed => stopper'[u] = stopper[u]
          /\ \A u \in Stoppers : stopper[u] \in StopIsClosed => stopper'[u] = stopper[u]
          /\ Pool # {}
      BY <3>1 DEF StopIsClosed, Lifecycle
    <3> QED BY <3>1, <3>2 DEF Lifecycle, Stored, StopIsClosed, JobsIsClosed
  <2>4. CASE CloseStopChan(t)
    <3>1. /\ stopper[t] = "closingStop" /\ UNCHANGED worker /\ stopper'[t] = "closingJobs"
          /\ \A u \in Stoppers \ {t} : stopper'[u] = stopper[u]
          /\ Pool' = Pool /\ PoolEnded' = PoolEnded
          /\ ~ stopClosed /\ stopClosed' /\ UNCHANGED <<isRunning, jobsClosed>>
      BY <2>4, <2>a DEF CloseStopChan
    <3>2. /\ \A u \in Stoppers : stopper[u] \notin StopIsClosed
          /\ Pool # {} /\ ~ isRunning /\ ~ jobsClosed
      BY <3>1 DEF StopIsClosed, Lifecycle, Stored
    <3>3. \A u \in Stoppers : stopper'[u] \in StopIsClosed => u = t
      BY <3>1, <3>2
    <3> QED BY <3>1, <3>2, <3>3 DEF Lifecycle, Stored, StopIsClosed, JobsIsClosed
  <2>5. CASE CloseJobsChan(t)
    <3>1. /\ stopper[t] = "closingJobs" /\ UNCHANGED worker /\ stopper'[t] = "waiting"
          /\ \A u \in Stoppers \ {t} : stopper'[u] = stopper[u]
          /\ Pool' = Pool /\ PoolEnded' = PoolEnded
          /\ jobsClosed' /\ UNCHANGED <<isRunning, stopClosed>>
      BY <2>5, <2>a DEF CloseJobsChan
    <3>2. /\ stopClosed /\ Pool # {} /\ ~ isRunning
          /\ \A u \in Stoppers : stopper'[u] \in StopIsClosed <=> stopper[u] \in StopIsClosed
      BY <3>1 DEF Lifecycle, Stored, StopIsClosed
    <3> QED BY <3>1, <3>2 DEF Lifecycle, Stored, StopIsClosed, JobsIsClosed
  <2>6. CASE StopReturn(t)
    <3>1. /\ stopper[t] = "waiting" /\ UNCHANGED worker /\ stopper'[t] = "returned"
          /\ \A u \in Stoppers \ {t} : stopper'[u] = stopper[u]
          /\ Pool' = Pool /\ PoolEnded' = PoolEnded /\ PoolEnded
          /\ UNCHANGED <<isRunning, stopClosed, jobsClosed>>
      BY <2>6, <2>a DEF StopReturn
    <3>2. /\ stopClosed /\ Pool # {} /\ ~ isRunning /\ jobsClosed
          /\ \A u \in Stoppers : stopper'[u] \in StopIsClosed <=> stopper[u] \in StopIsClosed
      BY <3>1 DEF Lifecycle, Stored, StopIsClosed, JobsIsClosed
    <3> QED BY <3>1, <3>2 DEF Lifecycle, Stored, StopIsClosed, JobsIsClosed
  <2> QED BY <1>2, <2>1, <2>2, <2>3, <2>4, <2>5, <2>6 DEF StopStep
<1>3. ASSUME NEW c \in Enqueuers, NEW m \in Messages, Call(c, m) PROVE Lifecycle'
  BY <1>a, <1>3 DEF Call, Enqueuing, pool
<1>4. ASSUME NEW c \in Enqueuers, EnqueueStep(c) PROVE Lifecycle'
  BY <1>a, <1>4 DEF EnqueueStep, Send, Count, SendOnClosed, GiveUp, Refuse, Panic, Enqueuing, pool
<1>5. ASSUME NEW w \in Workers, WorkerStep(w) PROVE Lifecycle'
  <2>1. Pool' = Pool /\ (PoolEnded => PoolEnded') /\ UNCHANGED lifecycle
    BY <1>5, PoolStays, WorkerMoves
  <2>2. ~ stopClosed => \A v \in Workers : worker'[v].pc # "exited"
    BY <1>5, WorkerMoves DEF RunEnds, Lifecycle
  <2> QED BY <2>1, <2>2 DEF Lifecycle, lifecycle
<1>6. ASSUME NEW v \in Waiters, Wait(v) \/ WaitStep(v) PROVE Lifecycle'
  BY <1>a, <1>6 DEF Wait, WaitStep, WaitCheck, WaitQuiet, WaitOn, Waiting, pool
<1>7. CASE UNCHANGED vars
  BY <1>a, <1>7 DEF vars, pool
<1> QED BY <1>1, <1>2, <1>3, <1>4, <1>5, <1>6, <1>7 DEF Next

\* The flags never contradict the workers or the calls of Stop.
THEOREM LifecycleCorrect == Spec => []Lifecycle
<1>1. Init => TypeInv /\ Lifecycle
  BY TypeInit, LifecycleInit
<1>2. TypeInv /\ Lifecycle /\ [Next]_vars => (TypeInv /\ Lifecycle)'
  BY TypeStep, LifecycleStep
<1> QED BY <1>1, <1>2, PTL DEF Spec

\* Once a Stop has returned no step disturbs the store, the counters, or the
\* queue: the workers have ended, they were not just told to, and the channel
\* is closed to the callers.
THEOREM FinalAfterStopCorrect == Spec => FinalAfterStop
<1> DEFINE Unchanged == UNCHANGED <<sensors, counts, updated, queue>>
           Final == (\E t \in Stoppers : stopper[t] = "returned") => Unchanged
<1>1. ASSUME TypeInv, Lifecycle, [Next]_vars PROVE [Final]_vars
  <2> SUFFICES ASSUME NEW t \in Stoppers, stopper[t] = "returned"
               PROVE  Unchanged
    OBVIOUS
  <2>0. /\ jobsClosed /\ Pool # {}
        /\ \A w \in Workers : worker[w].pc \in {"absent", "exited"}
    <3>1. jobsClosed /\ Pool # {} /\ PoolEnded
      BY <1>1 DEF Lifecycle, JobsIsClosed
    <3> QED BY <3>1 DEF PoolEnded, Pool
  <2>1. CASE Start
    BY <2>0, <2>1 DEF Start
  <2>2. ASSUME NEW u \in Stoppers, StopStep(u)
        PROVE  Unchanged
    BY <2>2 DEF StopStep, StopCheck, StopStore, CloseStopChan, CloseStopChanAgain,
       CloseJobsChan, StopReturn, Stopping, Panic, pool, intake
  <2>3. ASSUME NEW c \in Enqueuers, NEW m \in Messages, Call(c, m)
        PROVE  Unchanged
    BY <2>3 DEF Call, Enqueuing, pool
  <2>4. ASSUME NEW c \in Enqueuers, EnqueueStep(c)
        PROVE  Unchanged
    BY <2>0, <2>4 DEF EnqueueStep, Send, Count, SendOnClosed, GiveUp, Refuse, Panic,
       Enqueuing, pool, intake
  <2>5. ASSUME NEW w \in Workers, WorkerStep(w)
        PROVE  Unchanged
    BY <1>1, <2>0, <2>5, WorkerMoves
  <2>6. ASSUME NEW v \in Waiters, Wait(v) \/ WaitStep(v)
        PROVE  Unchanged
    BY <2>6 DEF Wait, WaitStep, WaitCheck, WaitQuiet, WaitOn, Waiting, pool, intake
  <2>7. CASE UNCHANGED vars
    BY <2>7 DEF vars, pool, intake
  <2> QED BY <1>1, <2>1, <2>2, <2>3, <2>4, <2>5, <2>6, <2>7 DEF Next
<1> QED BY <1>1, AlwaysTyped, LifecycleCorrect, PTL DEF Spec, FinalAfterStop

-----------------------------------------------------------------------------
(* The processor is a bounded queue.                                        *)

\* The refinement mapping: the message of each caller that is at the select,
\* and whether some worker has not ended.
AtSelect == [c \in Enqueuers |->
                IF caller[c].pc = "selecting" THEN caller[c].msg ELSE NoMessage]
PoolUp == \E w \in Workers : worker[w].pc \notin {"absent", "exited"}

\* The processor starts as a queue that is not open yet.
LEMMA JobsInit == Init => Jobs!Init
<1> SUFFICES ASSUME Init PROVE Jobs!Init
  OBVIOUS
<1>1. ~ PoolUp
  BY FreeType DEF Init, PoolUp
<1>2. AtSelect = [c \in Callers \cup TryCallers |-> NoMessage]
  BY DEF Init, AtSelect, Idle, Enqueuers
<1> QED BY <1>1, <1>2 DEF Init, Jobs!Init, PoolUp, AtSelect

\* A caller goes on: the queue's callers see it arrive at the select or leave.
LEMMA CallerAtSelect ==
    ASSUME TypeInv, NEW c \in Enqueuers, NEW from, NEW next \in CallerStates,
           Enqueuing(c, from, next)
    PROVE  /\ AtSelect[c] = IF from = "selecting" THEN caller[c].msg ELSE NoMessage
           /\ from = "selecting" => AtSelect[c] # NoMessage
           /\ AtSelect' = [AtSelect EXCEPT ![c] =
                              IF next.pc = "selecting" THEN next.msg ELSE NoMessage]
           /\ PoolUp' = PoolUp
           /\ UNCHANGED <<isRunning, stopClosed, jobsClosed, crashed>>
<1>1. /\ caller[c].pc = from /\ caller'[c] = next
      /\ \A d \in Enqueuers \ {c} : caller'[d] = caller[d]
  BY EnqueuingType DEF TypeInv, Enqueuing
<1>2. from = "selecting" => caller[c].msg # NoMessage
  BY <1>1, ProcessorAssumption DEF TypeInv, Holding
<1>3. UNCHANGED <<isRunning, stopClosed, jobsClosed, crashed, worker>>
  BY DEF Enqueuing, lifecycle, pool
<1>4. AtSelect[c] = IF from = "selecting" THEN caller[c].msg ELSE NoMessage
  BY <1>1 DEF AtSelect
<1>5. AtSelect' = [AtSelect EXCEPT ![c] =
                      IF next.pc = "selecting" THEN next.msg ELSE NoMessage]
  BY <1>1 DEF AtSelect
<1>6. PoolUp' = PoolUp
  BY <1>3 DEF PoolUp
<1> QED BY <1>2, <1>3, <1>4, <1>5, <1>6

\* A worker takes a message, or it ends, the last one after Stop; the rest is
\* nobody's business.
LEMMA WorkerImplements ==
    ASSUME TypeInv, Lifecycle, NEW w \in Workers, WorkerStep(w)
    PROVE  Jobs!Take \/ Jobs!PoolEnds \/ UNCHANGED Jobs!vars
<1>1. /\ worker[w].pc \notin {"absent", "exited"} /\ worker'[w].pc # "absent"
      /\ worker'[w].pc = "exited" => RunEnds
      /\ UNCHANGED <<isRunning, stopClosed, jobsClosed, accepted, crashed>>
      /\ AtSelect' = AtSelect
  BY WorkerMoves DEF lifecycle, AtSelect
<1>2. PoolUp
  BY <1>1 DEF PoolUp
<1>3. CASE Take(w)
  <2>1. queue # <<>> /\ queue' = Tail(queue)
    BY <1>3 DEF Take
  <2>2. worker'[w].pc = "updating"
    <3>1. Head(queue) \in Messages
      BY <2>1, HeadTailProperties, TypeParts DEF TypeInv, IntakeType
    <3>2. worker' = [worker EXCEPT ![w] = [Free("updating") EXCEPT !.msg = Head(queue)]]
      BY <1>3 DEF Take, Working, Begins
    <3>3. worker'[w] = [Free("updating") EXCEPT !.msg = Head(queue)]
      BY <3>2, TypeParts DEF TypeInv, PoolType
    <3> QED BY <3>3 DEF Free
  <2>3. PoolUp'
    BY <2>2 DEF PoolUp
  <2> QED BY <1>1, <1>2, <2>1, <2>3 DEF Jobs!Take, Jobs!flags, PoolUp, AtSelect
<1>4. CASE ~ Take(w)
  <2>1. queue' = queue
    BY <1>4 DEF WorkerStep, Exit, UpdateStore, CountSequence, Validate, RecordFailure, Leave
  <2>2. CASE PoolUp'
    BY <1>1, <1>2, <2>1, <2>2 DEF Jobs!vars, Jobs!flags, PoolUp, AtSelect
  <2>3. CASE ~ PoolUp'
    <3>1. stopClosed
      BY <1>1, <2>3 DEF PoolUp, RunEnds, Lifecycle
    <3> QED BY <1>1, <1>2, <2>1, <2>3, <3>1 DEF Jobs!PoolEnds, Jobs!flags, PoolUp, AtSelect
  <2> QED BY <2>2, <2>3
<1> QED BY <1>3, <1>4

\* Every step of the processor is one of the queue's or leaves it alone.
LEMMA JobsStep == TypeInv /\ Lifecycle /\ [Next]_vars => [Jobs!Next]_(Jobs!vars)
<1> SUFFICES ASSUME TypeInv, Lifecycle, [Next]_vars PROVE [Jobs!Next]_(Jobs!vars)
  OBVIOUS
<1>0. /\ LifecycleType /\ caller \in [Enqueuers -> CallerStates]
      /\ worker \in [Workers -> WorkerStates] /\ Holding
  BY TypeParts DEF TypeInv, PoolType, IntakeType
<1>a. ASSUME UNCHANGED <<isRunning, stopClosed, jobsClosed, queue, accepted, crashed,
                         caller, worker>>
      PROVE  UNCHANGED Jobs!vars
  BY <1>a DEF Jobs!vars, Jobs!flags
<1>b. Enqueuers = Callers \cup TryCallers /\ DOMAIN AtSelect = Enqueuers
  BY DEF Enqueuers, AtSelect
<1>1. CASE Start /\ crashed = "no"
  <2>1. PICK P \in (SUBSET Workers) \ {{}} :
            worker' = [w \in Workers |-> IF w \in P THEN Free("selecting") ELSE worker[w]]
    BY <1>1 DEF Start
  <2>2. PICK w \in P : worker'[w].pc = "selecting"
    BY <2>1, FreeType
  <2>3. PoolUp'
    BY <2>1, <2>2 DEF PoolUp
  <2>4. ~ isRunning /\ ~ stopClosed /\ isRunning'
    BY <1>1 DEF Start, Lifecycle
  <2>5. UNCHANGED <<stopClosed, jobsClosed, queue, caller, accepted, crashed>>
    BY <1>1 DEF Start, intake
  <2>6. Jobs!Start
    BY <2>3, <2>4, <2>5 DEF Jobs!Start, PoolUp
  <2> QED BY <1>1, <2>6 DEF Jobs!Next
<1>2. ASSUME NEW t \in Stoppers, StopStep(t), crashed = "no" PROVE [Jobs!Next]_(Jobs!vars)
  <2>1. CASE CloseStopChanAgain(t)
    <3>1. Jobs!Panic
      BY <2>1 DEF CloseStopChanAgain, Panic, Jobs!Panic, Jobs!flags, lifecycle, intake, pool
    <3> QED BY <1>2, <3>1 DEF Jobs!Next
  <2>2. CASE StopCheck(t) \/ StopReturn(t)
    BY <1>a, <2>2 DEF StopCheck, StopReturn, Stopping, intake, pool
  <2>3. CASE StopStore(t)
    <3>1. ~ isRunning' /\ UNCHANGED <<stopClosed, jobsClosed, queue, caller, worker, accepted,
                                      crashed>>
      BY <2>3 DEF StopStore, Stopping, intake, pool
    <3>2. CASE isRunning
      <4>1. Jobs!StopStore
        BY <3>1, <3>2 DEF Jobs!StopStore
      <4> QED BY <1>2, <4>1 DEF Jobs!Next
    <3>3. CASE ~ isRunning
      <4>1. isRunning' = isRunning
        BY <1>0, <2>3, <3>3 DEF StopStore, LifecycleType
      <4> QED BY <1>a, <3>1, <4>1
    <3> QED BY <3>2, <3>3
  <2>4. CASE CloseStopChan(t)
    <3>1. /\ ~ stopClosed /\ stopClosed' /\ stopper[t] = "closingStop"
          /\ UNCHANGED <<isRunning, jobsClosed, queue, caller, worker, accepted, crashed>>
      BY <2>4 DEF CloseStopChan, Stopping, intake, pool
    <3>2. ~ isRunning /\ Pool # {} /\ \A w \in Workers : worker[w].pc # "exited"
      BY <3>1 DEF Lifecycle, Stored
    <3>3. PoolUp
      BY <3>2 DEF Pool, PoolUp
    <3>4. Jobs!CloseStopChan
      BY <3>1, <3>2, <3>3 DEF Jobs!CloseStopChan, PoolUp
    <3> QED BY <1>2, <3>4 DEF Jobs!Next
  <2>5. CASE CloseJobsChan(t)
    <3>1. /\ jobsClosed' /\ stopper[t] = "closingJobs"
          /\ UNCHANGED <<isRunning, stopClosed, queue, caller, worker, accepted, crashed>>
      BY <2>5 DEF CloseJobsChan, Stopping, intake, pool
    <3>2. stopClosed /\ ~ jobsClosed
      BY <3>1 DEF Lifecycle, StopIsClosed, JobsIsClosed
    <3>3. Jobs!CloseJobsChan
      BY <3>1, <3>2 DEF Jobs!CloseJobsChan
    <3> QED BY <1>2, <3>3 DEF Jobs!Next
  <2> QED BY <1>2, <2>1, <2>2, <2>3, <2>4, <2>5 DEF StopStep
<1>3. ASSUME NEW c \in Enqueuers, NEW m \in Messages, Call(c, m), crashed = "no"
      PROVE  [Jobs!Next]_(Jobs!vars)
  <2> DEFINE next == IF isRunning THEN [pc |-> "selecting", msg |-> m] ELSE Idle
  <2>1. next \in CallerStates
    BY DEF Idle, CallerStates
  <2>2. Enqueuing(c, "idle", next) /\ UNCHANGED <<queue, accepted>>
    BY <1>3 DEF Call
  <2> HIDE DEF next
  <2>3. /\ AtSelect[c] = NoMessage /\ PoolUp' = PoolUp
        /\ AtSelect' = [AtSelect EXCEPT ![c] =
                           IF next.pc = "selecting" THEN next.msg ELSE NoMessage]
        /\ UNCHANGED <<isRunning, stopClosed, jobsClosed, crashed>>
    BY <2>1, <2>2, CallerAtSelect
  <2>4. CASE isRunning
    <3>1. AtSelect' = [AtSelect EXCEPT ![c] = m]
      BY <2>3, <2>4 DEF next
    <3>2. Jobs!Call(c, m)
      BY <2>2, <2>3, <2>4, <3>1 DEF Jobs!Call, Jobs!flags, AtSelect, PoolUp
    <3> QED BY <1>3, <1>b, <3>2 DEF Jobs!Next
  <2>5. CASE ~ isRunning
    <3>1. AtSelect' = [AtSelect EXCEPT ![c] = NoMessage]
      BY <2>3, <2>5 DEF next, Idle
    <3>2. AtSelect' = AtSelect
      BY <2>3, <3>1 DEF AtSelect
    <3> QED BY <2>2, <2>3, <3>2 DEF Jobs!vars, Jobs!flags, AtSelect, PoolUp
  <2> QED BY <2>4, <2>5
<1>4. ASSUME NEW c \in Enqueuers, EnqueueStep(c), crashed = "no"
      PROVE  [Jobs!Next]_(Jobs!vars)
  <2>1. CASE SendOnClosed(c)
    <3>1. AtSelect[c] # NoMessage
      BY <1>0, <2>1, ProcessorAssumption DEF SendOnClosed, AtSelect, Holding
    <3>2. /\ jobsClosed /\ crashed' = "send on closed channel"
          /\ UNCHANGED <<isRunning, stopClosed, jobsClosed, queue, caller, worker, accepted>>
      BY <2>1 DEF SendOnClosed, Panic, lifecycle, intake, pool
    <3>3. Jobs!Panic
      BY <1>b, <3>1, <3>2 DEF Jobs!Panic, Jobs!flags, AtSelect
    <3> QED BY <1>4, <3>3 DEF Jobs!Next
  <2>2. CASE Send(c)
    <3> DEFINE next == [caller[c] EXCEPT !.pc = "counting"]
    <3>1. next \in CallerStates /\ next.pc = "counting"
      BY <1>0 DEF CallerStates
    <3>2. /\ Enqueuing(c, "selecting", next) /\ ~ jobsClosed /\ HasRoom
          /\ queue' = Append(queue, caller[c].msg) /\ accepted' = Append(accepted, caller[c].msg)
      BY <2>2 DEF Send
    <3> HIDE DEF next
    <3>3. /\ AtSelect[c] = caller[c].msg /\ AtSelect[c] # NoMessage /\ PoolUp' = PoolUp
          /\ AtSelect' = [AtSelect EXCEPT ![c] = NoMessage]
          /\ UNCHANGED <<isRunning, stopClosed, jobsClosed, crashed>>
      BY <3>1, <3>2, CallerAtSelect
    <3>4. queue' = Append(queue, AtSelect[c]) /\ accepted' = Append(accepted, AtSelect[c])
      BY <3>2, <3>3
    <3>5. Jobs!Send(c)
      BY <3>2, <3>3, <3>4 DEF Jobs!Send, Jobs!Returns, Jobs!HasRoom, HasRoom, Jobs!flags,
         AtSelect, PoolUp
    <3> QED BY <1>4, <1>b, <3>5 DEF Jobs!Next
  <2>3. CASE Count(c)
    <3>1. Enqueuing(c, "counting", Idle) /\ Idle \in CallerStates /\ Idle.pc = "idle"
      BY <2>3 DEF Count, Idle, CallerStates
    <3>2. /\ AtSelect[c] = NoMessage /\ PoolUp' = PoolUp
          /\ AtSelect' = [AtSelect EXCEPT ![c] = NoMessage]
          /\ UNCHANGED <<isRunning, stopClosed, jobsClosed, crashed>>
      BY <3>1, CallerAtSelect
    <3>3. AtSelect' = AtSelect
      BY <3>2 DEF AtSelect
    <3>4. UNCHANGED <<queue, accepted>>
      BY <2>3 DEF Count
    <3> QED BY <3>2, <3>3, <3>4 DEF Jobs!vars, Jobs!flags, AtSelect, PoolUp
  <2>4. CASE GiveUp(c) \/ Refuse(c)
    <3>1. Enqueuing(c, "selecting", Idle) /\ Idle \in CallerStates /\ Idle.pc = "idle"
      BY <2>4 DEF GiveUp, Refuse, Idle, CallerStates
    <3>2. /\ AtSelect[c] # NoMessage /\ PoolUp' = PoolUp
          /\ AtSelect' = [AtSelect EXCEPT ![c] = NoMessage]
          /\ UNCHANGED <<isRunning, stopClosed, jobsClosed, crashed>>
      BY <3>1, CallerAtSelect
    <3>3. /\ UNCHANGED <<queue, accepted>>
          /\ \/ c \in Callers /\ stopClosed
             \/ c \in TryCallers /\ ~ jobsClosed /\ ~ HasRoom
      BY <2>4 DEF GiveUp, Refuse
    <3>4. Jobs!Fail(c)
      BY <3>2, <3>3 DEF Jobs!Fail, Jobs!Returns, Jobs!HasRoom, HasRoom, Jobs!flags,
         AtSelect, PoolUp
    <3> QED BY <1>4, <1>b, <3>4 DEF Jobs!Next
  <2> QED BY <1>4, <2>1, <2>2, <2>3, <2>4 DEF EnqueueStep
<1>5. ASSUME NEW w \in Workers, WorkerStep(w), crashed = "no" PROVE [Jobs!Next]_(Jobs!vars)
  BY <1>5, WorkerImplements DEF Jobs!Next
<1>6. ASSUME NEW v \in Waiters, Wait(v) \/ WaitStep(v) PROVE UNCHANGED Jobs!vars
  BY <1>a, <1>6 DEF Wait, WaitStep, WaitCheck, WaitQuiet, WaitOn, Waiting, lifecycle, intake, pool
<1>7. CASE UNCHANGED vars
  BY <1>a, <1>7 DEF vars, lifecycle, intake, pool
<1> QED BY <1>1, <1>2, <1>3, <1>4, <1>5, <1>6, <1>7 DEF Next

\* To its callers and to Server the processor is the queue of JobQueue, however
\* its workers, its callers and the calls of Stop interleave.
THEOREM ProcessorImplementsJobQueue == Spec => ImplementsJobQueue
BY JobsInit, JobsStep, AlwaysTyped, LifecycleCorrect, PTL DEF Spec, ImplementsJobQueue, Jobs!Spec

-----------------------------------------------------------------------------
(* Every message is in one place.                                           *)

\* How many of the accepted messages the workers have taken.
TakenCount == Len(accepted) - Len(queue)

\* The queue is the end of what was accepted, nothing is accepted twice, and
\* what was submitted is not yet accepted while its caller is at the select.
Channel ==
    /\ Len(queue) <= Len(accepted)
    /\ \A i \in 1 .. Len(queue) : queue[i] = accepted[TakenCount + i]
    /\ \A i, j \in 1 .. Len(accepted) : accepted[i] = accepted[j] => i = j
    /\ \A i \in 1 .. Len(accepted) : accepted[i] \in submitted
    /\ \A c \in Enqueuers : caller[c].pc = "selecting" =>
           /\ caller[c].msg \in submitted
           /\ \A i \in 1 .. Len(accepted) : accepted[i] # caller[c].msg
    /\ \A c, d \in Enqueuers :
           caller[c].pc = "selecting" /\ caller[d].pc = "selecting"
             /\ caller[c].msg = caller[d].msg => c = d

\* What was taken is with one worker or finished, and nothing else is.
Places ==
    /\ IsFiniteSet(finished)
    /\ TakenCount = Cardinality(Busy) + Cardinality(finished)
    /\ \A m \in Messages :
           (\E i \in 1 .. TakenCount : accepted[i] = m)
             <=> m \in finished \/ \E w \in Workers : worker[w].msg = m
    /\ \A w, v \in Workers : worker[w].msg = worker[v].msg => w = v \/ w \notin Busy
    /\ \A w \in Workers : worker[w].msg \notin finished

\* Which messages the store has seen, and that the pool does not wait for one
\* message: of any taken message, some worker holds no earlier one back.
HoldsBack(w, i) ==
    worker[w].pc = "updating" /\ \E j \in 1 .. i - 1 : accepted[j] = worker[w].msg

Overtaking ==
    /\ finished \subseteq updated
    /\ \A m \in updated : \E i \in 1 .. TakenCount : accepted[i] = m
    /\ \A w \in Workers : w \in Busy =>
           (worker[w].msg \in updated <=> worker[w].pc # "updating")
    /\ \A i \in 1 .. TakenCount : \E w \in Pool : ~ HoldsBack(w, i)

-----------------------------------------------------------------------------
(* What each step of a worker makes of it.                                  *)

\* What each step of a worker does to that worker, to the sets of messages and to the
\* channel: one lemma per step, cited by all invariants below.
LEMMA ExitFields ==
    ASSUME TypeInv, NEW w \in Workers, Exit(w)
    PROVE  /\ worker[w].msg = NoMessage /\ worker[w].pc = "selecting"
           /\ worker'[w].msg = NoMessage /\ worker'[w].pc = "exited"
           /\ worker[w].result = NoResult /\ worker'[w].result = NoResult
<1>1. worker \in [Workers -> WorkerStates] /\ Holding
  BY TypeParts DEF TypeInv, PoolType
<1>2. worker[w].pc = "selecting" /\ worker'[w] = Free("exited")
  BY <1>1 DEF Exit, Working
<1> QED BY <1>1, <1>2, FreeType DEF Holding, HoldingPcs

LEMMA TakeFields ==
    ASSUME TypeInv, NEW w \in Workers, Take(w)
    PROVE  /\ worker[w].msg = NoMessage /\ worker[w].pc = "selecting"
           /\ worker'[w].msg = Head(queue) /\ worker'[w].pc = "updating"
           /\ worker[w].result = NoResult /\ worker'[w].result = NoResult
           /\ Head(queue) = queue[1] /\ Head(queue) \in Messages /\ Len(queue) > 0
           /\ Len(queue') = Len(queue) - 1
           /\ \A i \in 1 .. Len(queue') : queue'[i] = queue[i + 1]
           /\ UNCHANGED <<counts, sensors, updated, finished>>
<1>1. worker \in [Workers -> WorkerStates] /\ Holding /\ queue \in Seq(Messages)
  BY TypeParts DEF TypeInv, PoolType, IntakeType
<1> DEFINE next == [Free("updating") EXCEPT !.msg = Head(queue)]
<1>2. /\ next.pc = "updating" /\ next.msg = Head(queue) /\ next.result = NoResult
  BY DEF Free
<1>3. worker[w].pc = "selecting" /\ worker'[w] = next
  BY <1>1 DEF Take, Working, Begins
<1> HIDE DEF next
<1>4. queue # <<>> /\ queue' = Tail(queue)
  BY DEF Take
<1>5. /\ Head(queue) \in Messages /\ Len(queue) > 0
      /\ Len(queue') = Len(queue) - 1
      /\ \A i \in 1 .. Len(queue') : queue'[i] = queue[i + 1]
  BY <1>1, <1>4, HeadTailProperties, EmptySeq
<1>6. Head(queue) = queue[1]
  BY <1>1, <1>4
<1>7. worker[w].msg = NoMessage /\ worker[w].result = NoResult
  BY <1>1, <1>3 DEF Holding, HoldingPcs
<1>8. UNCHANGED <<counts, sensors, updated, finished>>
  BY DEF Take
<1> QED BY <1>2, <1>3, <1>5, <1>6, <1>7, <1>8

LEMMA UpdateFields ==
    ASSUME TypeInv, NEW w \in Workers, UpdateStore(w)
    PROVE  /\ worker[w].msg \in Messages /\ worker[w].pc = "updating"
           /\ worker'[w].msg = worker[w].msg /\ worker'[w].pc = "counting"
           /\ worker[w].result = NoResult /\ worker'[w].result = ResultOf(worker[w].msg)
           /\ updated' = updated \cup {worker[w].msg}
           /\ UNCHANGED <<queue, counts, finished>>
<1>1. worker \in [Workers -> WorkerStates] /\ Holding
  BY TypeParts DEF TypeInv, PoolType
<1> DEFINE next == [worker[w] EXCEPT !.pc = "counting", !.result = ResultOf(worker[w].msg)]
<1>2. Working(w, "updating", next)
  BY DEF UpdateStore
<1>3. next.pc = "counting" /\ next.msg = worker[w].msg /\ next.result = ResultOf(worker[w].msg)
  BY <1>1 DEF WorkerStates
<1> HIDE DEF next
<1>4. worker[w].pc = "updating" /\ worker'[w] = next
  BY <1>1, <1>2 DEF Working
<1>5. worker[w].msg \in Messages /\ worker[w].result = NoResult
  BY <1>1, <1>4 DEF Holding, HoldingPcs, WorkerStates
<1>6. updated' = updated \cup {worker[w].msg} /\ UNCHANGED <<queue, counts, finished>>
  BY DEF UpdateStore
<1> QED BY <1>3, <1>4, <1>5, <1>6

LEMMA CountFields ==
    ASSUME TypeInv, NEW w \in Workers, CountSequence(w)
    PROVE  /\ worker[w].msg \in Messages /\ worker[w].pc = "counting"
           /\ worker'[w].msg = worker[w].msg /\ worker'[w].pc = "validating"
           /\ worker'[w].result = NoResult
           /\ counts' = [counts EXCEPT ![w] = Added(counts[w], worker[w].result)]
           /\ UNCHANGED <<queue, sensors, updated, finished>>
<1>1. worker \in [Workers -> WorkerStates] /\ Holding
  BY TypeParts DEF TypeInv, PoolType
<1> DEFINE next == [worker[w] EXCEPT !.pc = "validating", !.result = NoResult]
<1>2. Working(w, "counting", next)
  BY DEF CountSequence
<1>3. next.pc = "validating" /\ next.msg = worker[w].msg /\ next.result = NoResult
  BY <1>1 DEF WorkerStates
<1> HIDE DEF next
<1>4. worker[w].pc = "counting" /\ worker'[w] = next
  BY <1>1, <1>2 DEF Working
<1>5. worker[w].msg \in Messages
  BY <1>1, <1>4 DEF Holding, HoldingPcs, WorkerStates
<1>6. /\ counts' = [counts EXCEPT ![w] = Added(counts[w], worker[w].result)]
      /\ UNCHANGED <<queue, sensors, updated, finished>>
  BY DEF CountSequence
<1> QED BY <1>3, <1>4, <1>5, <1>6

LEMMA ValidateFields ==
    ASSUME TypeInv, NEW w \in Workers, Validate(w)
    PROVE  /\ worker[w].msg \in Messages /\ worker[w].pc = "validating"
           /\ worker'[w].msg = worker[w].msg
           /\ worker'[w].pc = IF worker[w].msg.outcome = "sound" THEN "leaving" ELSE "recording"
           /\ worker[w].result = NoResult /\ worker'[w].result = NoResult
           /\ counts' = [counts EXCEPT ![w] = WithOutcome(counts[w], worker[w].msg.outcome)]
           /\ UNCHANGED <<queue, sensors, updated, finished>>
<1>1. worker \in [Workers -> WorkerStates] /\ Holding
  BY TypeParts DEF TypeInv, PoolType
<1> DEFINE to == IF worker[w].msg.outcome = "sound" THEN "leaving" ELSE "recording"
           next == [worker[w] EXCEPT !.pc = to]
<1>2. Working(w, "validating", next)
  BY DEF Validate
<1>3. next.pc = to /\ next.msg = worker[w].msg /\ next.result = worker[w].result
  BY <1>1 DEF WorkerStates
<1> HIDE DEF next
<1>4. worker[w].pc = "validating" /\ worker'[w] = next
  BY <1>1, <1>2 DEF Working
<1>5. worker[w].msg \in Messages /\ worker[w].result = NoResult
  BY <1>1, <1>4 DEF Holding, HoldingPcs, WorkerStates
<1>6. /\ counts' = [counts EXCEPT ![w] = WithOutcome(counts[w], worker[w].msg.outcome)]
      /\ UNCHANGED <<queue, sensors, updated, finished>>
  BY DEF Validate
<1> QED BY <1>3, <1>4, <1>5, <1>6

LEMMA RecordFields ==
    ASSUME TypeInv, NEW w \in Workers, RecordFailure(w)
    PROVE  /\ worker[w].msg \in Messages /\ worker[w].pc = "recording"
           /\ worker'[w].msg = worker[w].msg /\ worker'[w].pc = "leaving"
           /\ worker[w].result = NoResult /\ worker'[w].result = NoResult
           /\ UNCHANGED <<queue, counts, updated, finished>>
<1>1. worker \in [Workers -> WorkerStates] /\ Holding
  BY TypeParts DEF TypeInv, PoolType
<1> DEFINE next == [worker[w] EXCEPT !.pc = "leaving"]
<1>2. Working(w, "recording", next)
  BY DEF RecordFailure
<1>3. next.pc = "leaving" /\ next.msg = worker[w].msg /\ next.result = worker[w].result
  BY <1>1 DEF WorkerStates
<1> HIDE DEF next
<1>4. worker[w].pc = "recording" /\ worker'[w] = next
  BY <1>1, <1>2 DEF Working
<1>5. worker[w].msg \in Messages /\ worker[w].result = NoResult
  BY <1>1, <1>4 DEF Holding, HoldingPcs, WorkerStates
<1>6. UNCHANGED <<queue, counts, updated, finished>>
  BY DEF RecordFailure
<1> QED BY <1>3, <1>4, <1>5, <1>6

LEMMA LeaveFields ==
    ASSUME TypeInv, NEW w \in Workers, Leave(w)
    PROVE  /\ worker[w].msg \in Messages /\ worker[w].pc = "leaving"
           /\ worker'[w].msg = NoMessage /\ worker'[w].pc = "selecting"
           /\ worker[w].result = NoResult /\ worker'[w].result = NoResult
           /\ finished' = finished \cup {worker[w].msg}
           /\ UNCHANGED <<queue, counts, sensors, updated>>
<1>1. worker \in [Workers -> WorkerStates] /\ Holding
  BY TypeParts DEF TypeInv, PoolType
<1>2. worker[w].pc = "leaving" /\ worker'[w] = Free("selecting")
  BY <1>1 DEF Leave, Working, Released
<1>3. worker[w].msg \in Messages /\ worker[w].result = NoResult
  BY <1>1, <1>2 DEF Holding, HoldingPcs, WorkerStates
<1>4. finished' = finished \cup {worker[w].msg} /\ UNCHANGED <<queue, counts, sensors, updated>>
  BY DEF Leave
<1> QED BY <1>2, <1>3, <1>4, FreeType

-----------------------------------------------------------------------------
(* The channel.                                                             *)

\* The types of the two sequences in the form in which the proofs need them.
LEMMA Lengths ==
    ASSUME TypeInv
    PROVE  /\ Len(queue) \in Nat /\ Len(accepted) \in Nat
           /\ DOMAIN queue = 1 .. Len(queue) /\ DOMAIN accepted = 1 .. Len(accepted)
           /\ queue \in Seq(Messages) /\ accepted \in Seq(Messages)
           /\ \A i \in 1 .. Len(accepted) : accepted[i] \in Messages
           /\ \A i \in 1 .. Len(queue) : queue[i] \in Messages
BY TypeParts, LenProperties, ElementOfSeq DEF TypeInv, IntakeType

\* What a send appends.
LEMMA SendFields ==
    ASSUME TypeInv, NEW c \in Enqueuers, Send(c)
    PROVE  /\ caller[c].pc = "selecting" /\ caller[c].msg \in Messages
           /\ caller'[c].pc = "counting" /\ \A d \in Enqueuers \ {c} : caller'[d] = caller[d]
           /\ Len(queue') = Len(queue) + 1 /\ Len(accepted') = Len(accepted) + 1
           /\ queue'[Len(queue) + 1] = caller[c].msg
           /\ accepted'[Len(accepted) + 1] = caller[c].msg
           /\ \A i \in 1 .. Len(queue) : queue'[i] = queue[i]
           /\ \A i \in 1 .. Len(accepted) : accepted'[i] = accepted[i]
           /\ UNCHANGED <<submitted, worker, updated, finished>>
<1> DEFINE next == [caller[c] EXCEPT !.pc = "counting"]
<1>1. caller[c] \in CallerStates
  BY TypeParts DEF TypeInv, IntakeType
<1>2. next \in CallerStates /\ next.pc = "counting"
  BY <1>1 DEF CallerStates
<1>3. Enqueuing(c, "selecting", next)
  BY DEF Send
<1> HIDE DEF next
<1>4. /\ caller[c].pc = "selecting" /\ caller'[c] = next
      /\ \A d \in Enqueuers \ {c} : caller'[d] = caller[d]
      /\ UNCHANGED <<worker, updated, finished>>
  BY <1>2, <1>3, EnqueuingType DEF TypeInv, Enqueuing, pool
<1>5. caller[c].msg \in Messages
  BY <1>4 DEF TypeInv, Holding
<1>6. /\ queue' = Append(queue, caller[c].msg) /\ accepted' = Append(accepted, caller[c].msg)
      /\ submitted' = submitted
  BY DEF Send
<1>7. /\ Len(queue') = Len(queue) + 1
      /\ queue'[Len(queue) + 1] = caller[c].msg
      /\ \A i \in 1 .. Len(queue) : queue'[i] = queue[i]
  BY <1>5, <1>6, Lengths, AppendProperties
<1>8. /\ Len(accepted') = Len(accepted) + 1
      /\ accepted'[Len(accepted) + 1] = caller[c].msg
      /\ \A i \in 1 .. Len(accepted) : accepted'[i] = accepted[i]
  BY <1>5, <1>6, Lengths, AppendProperties
<1> QED BY <1>2, <1>4, <1>5, <1>6, <1>7, <1>8

\* What is behind TakenCount is in the channel, initially and after every step.
LEMMA ChannelInit == Init => Channel
BY EmptySeq DEF Init, Channel, Idle

LEMMA ChannelStep == TypeInv /\ Channel /\ [Next]_vars => Channel'
<1> SUFFICES ASSUME TypeInv, Channel, [Next]_vars PROVE Channel'
  OBVIOUS
<1>0. caller \in [Enqueuers -> CallerStates]
  BY TypeParts DEF TypeInv, IntakeType
<1>a. ASSUME UNCHANGED <<queue, accepted, submitted>>,
             \A c \in Enqueuers : caller'[c] = caller[c] \/ caller'[c].pc # "selecting"
      PROVE  Channel'
  <2>1. TakenCount' = TakenCount
    BY <1>a DEF TakenCount
  <2>2. \A c \in Enqueuers : caller'[c].pc = "selecting" => caller'[c] = caller[c]
    BY <1>a
  <2> QED BY <1>a, <2>1, <2>2 DEF Channel
<1>1. CASE Start
  BY <1>a, <1>1 DEF Start, intake
<1>2. ASSUME NEW t \in Stoppers, StopStep(t) PROVE Channel'
  BY <1>a, <1>2 DEF StopStep, StopCheck, StopStore, CloseStopChan, CloseStopChanAgain,
     CloseJobsChan, StopReturn, Stopping, Panic, intake
<1>3. ASSUME NEW c \in Enqueuers, NEW m \in Messages, Call(c, m) PROVE Channel'
  <2> DEFINE next == IF isRunning THEN [pc |-> "selecting", msg |-> m] ELSE Idle
  <2>1. next \in CallerStates /\ (next.pc = "selecting" => next.msg = m)
    BY DEF Idle, CallerStates
  <2>2. Enqueuing(c, "idle", next) /\ m \notin submitted
    BY <1>3 DEF Call
  <2> HIDE DEF next
  <2>3. caller'[c] = next /\ \A d \in Enqueuers \ {c} : caller'[d] = caller[d]
    BY <2>1, <2>2, EnqueuingType DEF TypeInv
  <2>4. UNCHANGED <<queue, accepted>> /\ submitted' = submitted \cup {m}
    BY <1>3 DEF Call
  <2>5. TakenCount' = TakenCount
    BY <2>4 DEF TakenCount
  <2>6. \A i \in 1 .. Len(accepted) : accepted[i] # m
    BY <2>2 DEF Channel
  <2>7. \A d \in Enqueuers : caller[d].pc = "selecting" => caller[d].msg # m
    BY <2>2 DEF Channel
  <2>8. ASSUME NEW d \in Enqueuers, caller'[d].pc = "selecting"
        PROVE  /\ caller'[d].msg \in submitted'
               /\ \A i \in 1 .. Len(accepted') : accepted'[i] # caller'[d].msg
    BY <2>1, <2>3, <2>4, <2>6, <2>8 DEF Channel
  <2>9. ASSUME NEW d \in Enqueuers, NEW e \in Enqueuers, caller'[d].pc = "selecting",
               caller'[e].pc = "selecting", caller'[d].msg = caller'[e].msg
        PROVE  d = e
    BY <2>1, <2>3, <2>7, <2>9 DEF Channel
  <2>10. /\ Len(queue') <= Len(accepted')
         /\ \A i \in 1 .. Len(queue') : queue'[i] = accepted'[TakenCount' + i]
         /\ \A i, j \in 1 .. Len(accepted') : accepted'[i] = accepted'[j] => i = j
         /\ \A i \in 1 .. Len(accepted') : accepted'[i] \in submitted'
    BY <2>4, <2>5 DEF Channel
  <2> QED BY <2>8, <2>9, <2>10 DEF Channel
<1>4. ASSUME NEW c \in Enqueuers, EnqueueStep(c) PROVE Channel'
  <2>1. CASE SendOnClosed(c)
    BY <1>a, <2>1 DEF SendOnClosed, Panic, intake
  <2>2. CASE Send(c)
    <3>1. /\ Len(queue) \in Nat /\ Len(accepted) \in Nat /\ Len(queue) <= Len(accepted)
          /\ TakenCount' = TakenCount /\ TakenCount \in Nat
          /\ TakenCount + Len(queue) = Len(accepted)
      <4>1. Len(queue) \in Nat /\ Len(accepted) \in Nat /\ Len(queue) <= Len(accepted)
        BY Lengths DEF Channel
      <4>2. Len(queue') = Len(queue) + 1 /\ Len(accepted') = Len(accepted) + 1
        BY <2>2, SendFields
      <4> QED BY <4>1, <4>2 DEF TakenCount
    <3> DEFINE m == caller[c].msg
               n == Len(accepted)
               k == Len(queue)
    <3>2. /\ caller[c].pc = "selecting" /\ caller'[c].pc = "counting"
          /\ \A d \in Enqueuers \ {c} : caller'[d] = caller[d]
          /\ submitted' = submitted
          /\ Len(accepted') = n + 1 /\ accepted'[n + 1] = m
          /\ \A i \in 1 .. n : accepted'[i] = accepted[i]
          /\ Len(queue') = k + 1 /\ queue'[k + 1] = m
          /\ \A i \in 1 .. k : queue'[i] = queue[i]
      BY <2>2, SendFields
    <3>3. m \in submitted /\ \A i \in 1 .. n : accepted[i] # m
      BY <3>2 DEF Channel
    <3> HIDE DEF m, n, k
    <3>4. n \in Nat /\ k \in Nat /\ k <= n /\ TakenCount \in Nat /\ TakenCount + k = n
      BY <3>1 DEF n, k
    <3>5. \A i \in 1 .. n + 1 : i \in 1 .. n \/ i = n + 1
      BY <3>4
    <3>6. \A i \in 1 .. k + 1 : i \in 1 .. k \/ i = k + 1
      BY <3>4
    <3>7. ASSUME NEW i \in 1 .. k + 1 PROVE queue'[i] = accepted'[TakenCount + i]
      <4>1. CASE i \in 1 .. k
        <5>1. queue[i] = accepted[TakenCount + i]
          BY <4>1 DEF Channel, k
        <5>2. TakenCount + i \in 1 .. n
          BY <3>4, <4>1
        <5> QED BY <3>2, <4>1, <5>1, <5>2
      <4>2. CASE i = k + 1
        <5>1. TakenCount + i = n + 1
          BY <3>4, <4>2
        <5> QED BY <3>2, <4>2, <5>1
      <4> QED BY <3>6, <4>1, <4>2
    <3>8. ASSUME NEW i \in 1 .. n + 1, NEW j \in 1 .. n + 1, accepted'[i] = accepted'[j]
          PROVE  i = j
      <4>1. \A a, b \in 1 .. n : accepted[a] = accepted[b] => a = b
        BY DEF Channel, n
      <4> QED BY <3>2, <3>3, <3>5, <3>8, <4>1
    <3>9. \A i \in 1 .. n + 1 : accepted'[i] \in submitted'
      BY <3>2, <3>3, <3>5 DEF Channel, n
    <3>10. ASSUME NEW d \in Enqueuers, caller'[d].pc = "selecting"
           PROVE  /\ caller'[d].msg \in submitted'
                  /\ \A i \in 1 .. n + 1 : accepted'[i] # caller'[d].msg
      <4>1. d # c /\ caller'[d] = caller[d]
        BY <3>2, <3>10
      <4>2. caller[d].msg # m
        BY <3>2, <3>10, <4>1 DEF Channel, m
      <4>3. caller[d].msg \in submitted /\ \A i \in 1 .. n : accepted[i] # caller[d].msg
        BY <3>10, <4>1 DEF Channel, n
      <4> QED BY <3>2, <3>5, <4>1, <4>2, <4>3
    <3>11. ASSUME NEW d \in Enqueuers, NEW e \in Enqueuers, caller'[d].pc = "selecting",
                  caller'[e].pc = "selecting", caller'[d].msg = caller'[e].msg
           PROVE  d = e
      BY <3>2, <3>11 DEF Channel
    <3> QED BY <3>1, <3>2, <3>4, <3>7, <3>8, <3>9, <3>10, <3>11 DEF Channel
  <2>3. CASE Count(c) \/ GiveUp(c) \/ Refuse(c)
    <3>1. PICK from : Enqueuing(c, from, Idle)
      BY <2>3 DEF Count, GiveUp, Refuse
    <3>2. Idle \in CallerStates /\ Idle.pc = "idle"
      BY DEF Idle, CallerStates
    <3>3. caller'[c] = Idle /\ \A d \in Enqueuers \ {c} : caller'[d] = caller[d]
      BY <3>1, <3>2, EnqueuingType DEF TypeInv
    <3>4. UNCHANGED <<queue, accepted, submitted>>
      BY <2>3 DEF Count, GiveUp, Refuse
    <3> QED BY <1>a, <3>2, <3>3, <3>4
  <2> QED BY <1>4, <2>1, <2>2, <2>3 DEF EnqueueStep
<1>5. ASSUME NEW w \in Workers, WorkerStep(w) PROVE Channel'
  <2>1. UNCHANGED <<accepted, submitted, caller>>
    BY <1>5, WorkerMoves
  <2>2. CASE Take(w)
    <3>1. /\ Len(queue) \in Nat /\ Len(accepted) \in Nat /\ Len(queue') = Len(queue) - 1
          /\ Len(queue) > 0 /\ \A i \in 1 .. Len(queue') : queue'[i] = queue[i + 1]
      BY <2>2, TakeFields, Lengths
    <3>2. TakenCount' = TakenCount + 1 /\ TakenCount \in Int
      BY <2>1, <3>1 DEF TakenCount
    <3>3. ASSUME NEW i \in 1 .. Len(queue') PROVE queue'[i] = accepted'[TakenCount' + i]
      <4>1. i + 1 \in 1 .. Len(queue) /\ TakenCount' + i = TakenCount + (i + 1)
        BY <3>1, <3>2
      <4>2. queue[i + 1] = accepted[TakenCount + (i + 1)]
        BY <4>1 DEF Channel
      <4> QED BY <2>1, <3>1, <4>1, <4>2
    <3>4. Len(queue') <= Len(accepted')
      BY <2>1, <3>1 DEF Channel
    <3>5. /\ \A i, j \in 1 .. Len(accepted') : accepted'[i] = accepted'[j] => i = j
          /\ \A i \in 1 .. Len(accepted') : accepted'[i] \in submitted'
          /\ \A c \in Enqueuers : caller'[c].pc = "selecting" =>
                 /\ caller'[c].msg \in submitted'
                 /\ \A i \in 1 .. Len(accepted') : accepted'[i] # caller'[c].msg
          /\ \A c, d \in Enqueuers :
                 caller'[c].pc = "selecting" /\ caller'[d].pc = "selecting"
                   /\ caller'[c].msg = caller'[d].msg => c = d
      BY <2>1 DEF Channel
    <3> QED BY <3>3, <3>4, <3>5 DEF Channel
  <2>3. CASE ~ Take(w)
    <3>1. queue' = queue
      BY <1>5, <2>3 DEF WorkerStep, Exit, UpdateStore, CountSequence, Validate, RecordFailure,
         Leave
    <3> QED BY <1>a, <2>1, <3>1
  <2> QED BY <2>2, <2>3
<1>6. ASSUME NEW v \in Waiters, Wait(v) \/ WaitStep(v) PROVE Channel'
  BY <1>a, <1>6 DEF Wait, WaitStep, WaitCheck, WaitQuiet, WaitOn, Waiting, intake
<1>7. CASE UNCHANGED vars
  BY <1>a, <1>7 DEF vars, intake
<1> QED BY <1>1, <1>2, <1>3, <1>4, <1>5, <1>6, <1>7 DEF Next

-----------------------------------------------------------------------------
(* Taking, updating and leaving.                                            *)

\* All other steps leave alone where the taken messages are.
LEMMA Quiet ==
    ASSUME TypeInv, Channel, [Next]_vars,
           \A w \in Workers : ~ (Take(w) \/ UpdateStore(w) \/ Leave(w))
    PROVE  /\ TakenCount' = TakenCount
           /\ \A i \in 1 .. TakenCount : accepted'[i] = accepted[i]
           /\ UNCHANGED <<updated, finished>>
           /\ \A w \in Workers :
                 /\ worker'[w].msg = worker[w].msg
                 /\ worker'[w].pc = "updating" <=> worker[w].pc = "updating"
                 /\ w \in Pool => w \in Pool'
<1> DEFINE Same == /\ TakenCount' = TakenCount
                   /\ \A i \in 1 .. TakenCount : accepted'[i] = accepted[i]
                   /\ UNCHANGED <<updated, finished>>
                   /\ \A w \in Workers :
                         /\ worker'[w].msg = worker[w].msg
                         /\ worker'[w].pc = "updating" <=> worker[w].pc = "updating"
                         /\ w \in Pool => w \in Pool'
<1> SUFFICES Same
  OBVIOUS
<1>a. ASSUME UNCHANGED <<queue, accepted, updated, finished, worker>> PROVE Same
  BY <1>a DEF TakenCount, Pool
<1>1. CASE Start
  <2>1. PICK P \in (SUBSET Workers) \ {{}} :
            worker' = [w \in Workers |-> IF w \in P THEN Free("selecting") ELSE worker[w]]
    BY <1>1 DEF Start
  <2>2. \A w \in Workers : worker[w].pc = "absent" /\ worker[w].msg = NoMessage
    BY <1>1 DEF Start, Pool, TypeInv, Holding, HoldingPcs
  <2>3. \A w \in Workers : worker'[w].pc # "updating" /\ worker'[w].msg = NoMessage
    BY <2>1, <2>2, FreeType
  <2>4. UNCHANGED <<queue, accepted, updated, finished>> /\ Pool = {}
    BY <1>1 DEF Start, intake
  <2> QED BY <2>2, <2>3, <2>4 DEF TakenCount
<1>2. ASSUME NEW t \in Stoppers, StopStep(t) PROVE Same
  BY <1>a, <1>2 DEF StopStep, StopCheck, StopStore, CloseStopChan, CloseStopChanAgain,
     CloseJobsChan, StopReturn, Stopping, Panic, intake, pool
<1>3. ASSUME NEW c \in Enqueuers, NEW m \in Messages, Call(c, m) PROVE Same
  BY <1>a, <1>3 DEF Call, Enqueuing, pool
<1>4. ASSUME NEW c \in Enqueuers, EnqueueStep(c) PROVE Same
  <2>1. CASE Send(c)
    <3>1. /\ UNCHANGED <<worker, updated, finished>>
          /\ Len(queue') = Len(queue) + 1 /\ Len(accepted') = Len(accepted) + 1
          /\ \A i \in 1 .. Len(accepted) : accepted'[i] = accepted[i]
      BY <2>1, SendFields
    <3>2. Len(queue) \in Nat /\ Len(accepted) \in Nat
      BY Lengths
    <3>3. TakenCount' = TakenCount /\ \A i \in 1 .. TakenCount : i \in 1 .. Len(accepted)
      BY <3>1, <3>2 DEF TakenCount
    <3> QED BY <3>1, <3>3 DEF Pool
  <2>2. CASE ~ Send(c)
    BY <1>a, <1>4, <2>2 DEF EnqueueStep, Count, SendOnClosed, GiveUp, Refuse, Panic, Enqueuing,
       intake, pool
  <2> QED BY <2>1, <2>2
<1>5. ASSUME NEW w \in Workers, WorkerStep(w) PROVE Same
  <2>1. /\ \A v \in Workers \ {w} : worker'[v] = worker[v]
        /\ UNCHANGED accepted /\ Pool' = Pool
    BY <1>5, WorkerMoves, PoolStays
  <2>2. Exit(w) \/ CountSequence(w) \/ Validate(w) \/ RecordFailure(w)
    BY <1>5 DEF WorkerStep
  <2>3. /\ worker'[w].msg = worker[w].msg
        /\ worker'[w].pc # "updating" /\ worker[w].pc # "updating"
        /\ UNCHANGED <<queue, updated, finished>>
    <3>1. CASE Exit(w)
      BY <3>1, ExitFields DEF Exit
    <3>2. CASE CountSequence(w)
      BY <3>2, CountFields
    <3>3. CASE Validate(w)
      BY <3>3, ValidateFields
    <3>4. CASE RecordFailure(w)
      BY <3>4, RecordFields
    <3> QED BY <2>2, <3>1, <3>2, <3>3, <3>4
  <2> QED BY <2>1, <2>3 DEF TakenCount
<1>6. ASSUME NEW v \in Waiters, Wait(v) \/ WaitStep(v) PROVE Same
  BY <1>a, <1>6 DEF Wait, WaitStep, WaitCheck, WaitQuiet, WaitOn, Waiting, intake, pool
<1>7. CASE UNCHANGED vars
  BY <1>a, <1>7 DEF vars, intake, pool
<1> HIDE DEF Same
<1> QED BY <1>1, <1>2, <1>3, <1>4, <1>5, <1>6, <1>7 DEF Next

\* Take hands out the next accepted message, which nobody has had yet.
LEMMA TakeIsNext ==
    ASSUME TypeInv, Channel, NEW w \in Workers, Take(w)
    PROVE  /\ TakenCount \in Nat /\ TakenCount' = TakenCount + 1
           /\ accepted' = accepted /\ accepted[TakenCount + 1] = Head(queue)
           /\ \A i \in 1 .. TakenCount : accepted[i] # Head(queue)
           /\ \A v \in Workers \ {w} : worker'[v] = worker[v]
<1>1. /\ Len(queue) \in Nat /\ Len(queue) > 0 /\ Len(accepted) \in Nat
      /\ Len(queue') = Len(queue) - 1 /\ Head(queue) = queue[1]
  BY TakeFields, Lengths
<1>2. Len(queue) <= Len(accepted)
  BY DEF Channel
<1>3. accepted' = accepted /\ \A v \in Workers \ {w} : worker'[v] = worker[v]
  BY WorkerMoves DEF WorkerStep
<1>4. /\ TakenCount \in Nat /\ TakenCount' = TakenCount + 1
      /\ TakenCount + 1 \in 1 .. Len(accepted)
      /\ \A i \in 1 .. TakenCount : i \in 1 .. Len(accepted) /\ i # TakenCount + 1
  BY <1>1, <1>2, <1>3 DEF TakenCount
<1>5. queue[1] = accepted[TakenCount + 1]
  BY <1>1 DEF Channel
<1>6. \A i \in 1 .. TakenCount : accepted[i] # accepted[TakenCount + 1]
  BY <1>4 DEF Channel
<1> QED BY <1>1, <1>3, <1>4, <1>5, <1>6

\* Whoever is busy holds a message.
LEMMA BusyHolds ==
    ASSUME TypeInv, NEW w \in Workers
    PROVE  /\ w \in Busy <=> worker[w].msg # NoMessage
           /\ w \in Busy <=> worker[w].msg \in Messages
           /\ w \in Busy <=> worker[w].pc \in HoldingPcs
<1>1. worker[w] \in WorkerStates
  BY TypeParts DEF TypeInv, PoolType
<1> QED BY <1>1, ProcessorAssumption DEF Busy, WorkerStates, TypeInv, Holding

\* Nobody has a message initially, and no step gives one message to two.
LEMMA PlacesInit == Init => Places
<1> SUFFICES ASSUME Init PROVE Places
  OBVIOUS
<1>1. \A w \in Workers : worker[w].msg = NoMessage
  BY FreeType DEF Init
<1>2. Busy = {} /\ finished = {} /\ TakenCount = 0
  BY <1>1, EmptySeq DEF Busy, Init, TakenCount
<1>3. IsFiniteSet({}) /\ Cardinality({}) = 0
  BY FS_EmptySet
<1>4. \A m \in Messages : \A w \in Workers : worker[w].msg # m
  BY <1>1, ProcessorAssumption
<1> QED BY <1>1, <1>2, <1>3, <1>4 DEF Places

LEMMA PlacesStep == TypeInv /\ Channel /\ Places /\ [Next]_vars => Places'
<1> SUFFICES ASSUME TypeInv, Channel, Places, [Next]_vars PROVE Places'
  OBVIOUS
<1>0. /\ IsFiniteSet(Busy) /\ IsFiniteSet(finished)
      /\ Cardinality(Busy) \in Nat /\ Cardinality(finished) \in Nat
  <2>1. IsFiniteSet(Busy) /\ IsFiniteSet(finished)
    BY FS_Subset, ProcessorAssumption DEF Busy, Places
  <2> QED BY <2>1, FS_CardinalityType
<1>a. ASSUME TakenCount' = TakenCount, finished' = finished,
             \A i \in 1 .. TakenCount : accepted'[i] = accepted[i],
             \A w \in Workers : worker'[w].msg = worker[w].msg
      PROVE  Places'
  <2>1. Busy' = Busy
    BY <1>a DEF Busy
  <2>2. \A m : (\E i \in 1 .. TakenCount' : accepted'[i] = m)
                 <=> \E i \in 1 .. TakenCount : accepted[i] = m
    BY <1>a
  <2> QED BY <1>a, <2>1, <2>2 DEF Places
<1>1. CASE \A w \in Workers : ~ (Take(w) \/ UpdateStore(w) \/ Leave(w))
  BY <1>a, <1>1, Quiet
<1>2. ASSUME NEW w \in Workers, UpdateStore(w) PROVE Places'
  <2>1. /\ \A v \in Workers \ {w} : worker'[v] = worker[v]
        /\ UNCHANGED accepted
    BY <1>2, WorkerMoves DEF WorkerStep
  <2>2. worker'[w].msg = worker[w].msg /\ UNCHANGED <<queue, finished>>
    BY <1>2, UpdateFields
  <2>3. \A v \in Workers : worker'[v].msg = worker[v].msg
    BY <2>1, <2>2
  <2>4. TakenCount' = TakenCount
    BY <2>1, <2>2 DEF TakenCount
  <2> QED BY <1>a, <2>1, <2>2, <2>3, <2>4
<1>3. ASSUME NEW w \in Workers, Take(w) PROVE Places'
  <2> DEFINE m == Head(queue)
             n == TakenCount
  <2>1. /\ n \in Nat /\ TakenCount' = n + 1 /\ accepted' = accepted /\ accepted[n + 1] = m
        /\ \A i \in 1 .. n : accepted[i] # m
        /\ \A v \in Workers \ {w} : worker'[v] = worker[v]
    BY <1>3, TakeIsNext
  <2>2. /\ worker[w].msg = NoMessage /\ worker'[w].msg = m /\ m \in Messages
        /\ finished' = finished
    BY <1>3, TakeFields
  <2> HIDE DEF m, n
  <2>3. m \notin finished /\ \A v \in Workers : worker[v].msg # m
    BY <2>1, <2>2 DEF Places, n
  <2>4. Cardinality(Busy') = Cardinality(Busy) + 1
    <3>1. w \in Busy' /\ w \notin Busy /\ Busy \ {w} = Busy' \ {w}
      BY <2>1, <2>2, ProcessorAssumption DEF Busy
    <3> QED BY <1>0, <3>1, CountChange
  <2>5. TakenCount' = Cardinality(Busy') + Cardinality(finished')
    BY <1>0, <2>1, <2>2, <2>4 DEF Places, n
  <2>6. ASSUME NEW x \in Messages
        PROVE  (\E i \in 1 .. TakenCount' : accepted'[i] = x)
                 <=> x \in finished' \/ \E v \in Workers : worker'[v].msg = x
    <3>1. (\E i \in 1 .. n + 1 : accepted[i] = x) <=> x = m \/ \E i \in 1 .. n : accepted[i] = x
      <4>1. \A i : i \in 1 .. n + 1 <=> i \in 1 .. n \/ i = n + 1
        BY <2>1
      <4> QED BY <2>1, <4>1
    <3>2. (\E v \in Workers : worker'[v].msg = x)
            <=> x = m \/ \E v \in Workers : worker[v].msg = x
      BY <2>1, <2>2, ProcessorAssumption
    <3> QED BY <2>1, <2>2, <3>1, <3>2 DEF Places, n
  <2>7. ASSUME NEW u \in Workers, NEW v \in Workers, worker'[u].msg = worker'[v].msg
        PROVE  u = v \/ u \notin Busy'
    BY <2>1, <2>2, <2>3, <2>7 DEF Places, Busy
  <2>8. \A v \in Workers : worker'[v].msg \notin finished'
    BY <2>1, <2>2, <2>3 DEF Places
  <2> QED BY <1>0, <2>2, <2>5, <2>6, <2>7, <2>8 DEF Places
<1>4. ASSUME NEW w \in Workers, Leave(w) PROVE Places'
  <2> DEFINE m == worker[w].msg
  <2>1. /\ \A v \in Workers \ {w} : worker'[v] = worker[v]
        /\ UNCHANGED accepted
    BY <1>4, WorkerMoves DEF WorkerStep
  <2>2. /\ m \in Messages /\ worker'[w].msg = NoMessage /\ finished' = finished \cup {m}
        /\ queue' = queue
    BY <1>4, LeaveFields
  <2>3. w \in Busy /\ m \notin finished /\ NoMessage \notin finished'
    <3>1. w \in Busy /\ m \notin finished
      BY <2>2, BusyHolds DEF Places
    <3>2. finished \subseteq Messages /\ NoMessage \notin Messages
      BY TypeParts, ProcessorAssumption DEF TypeInv, PoolType
    <3> QED BY <2>2, <3>1, <3>2
  <2>4. TakenCount' = TakenCount
    BY <2>1, <2>2 DEF TakenCount
  <2>5. \A v \in Workers \ {w} : worker[v].msg # m
    BY <2>3 DEF Places
  <2>6. Cardinality(Busy') = Cardinality(Busy) - 1
    <3>1. w \notin Busy' /\ Busy \ {w} = Busy' \ {w}
      BY <2>1, <2>2 DEF Busy
    <3> QED BY <1>0, <2>3, <3>1, CountChange
  <2> HIDE DEF m
  <2>7. IsFiniteSet(finished') /\ Cardinality(finished') = Cardinality(finished) + 1
    BY <1>0, <2>2, <2>3, FS_AddElement
  <2>8. TakenCount' = Cardinality(Busy') + Cardinality(finished')
    BY <1>0, <2>4, <2>6, <2>7 DEF Places
  <2>9. ASSUME NEW x \in Messages
        PROVE  (\E i \in 1 .. TakenCount' : accepted'[i] = x)
                 <=> x \in finished' \/ \E v \in Workers : worker'[v].msg = x
    <3>1. (x \in finished' \/ \E v \in Workers : worker'[v].msg = x)
            <=> (x \in finished \/ \E v \in Workers : worker[v].msg = x)
      <4>1. x # NoMessage
        BY ProcessorAssumption
      <4>2. (\E v \in Workers : worker'[v].msg = x)
              <=> \E v \in Workers \ {w} : worker[v].msg = x
        BY <2>1, <2>2, <4>1
      <4>3. (\E v \in Workers : worker[v].msg = x)
              <=> x = m \/ \E v \in Workers \ {w} : worker[v].msg = x
        BY DEF m
      <4> QED BY <2>2, <4>2, <4>3
    <3> QED BY <2>1, <2>4, <3>1 DEF Places
  <2>10. ASSUME NEW u \in Workers, NEW v \in Workers, worker'[u].msg = worker'[v].msg
         PROVE  u = v \/ u \notin Busy'
    BY <2>1, <2>2, <2>10 DEF Places, Busy
  <2>11. \A v \in Workers : worker'[v].msg \notin finished'
    BY <2>1, <2>2, <2>3, <2>5 DEF Places
  <2> QED BY <2>7, <2>8, <2>9, <2>10, <2>11 DEF Places
<1> QED BY <1>1, <1>2, <1>3, <1>4

\* In every state the channel holds the accepted messages nobody has taken yet, in the
\* order of acceptance, and each taken one is with one worker or finished.
THEOREM PlacesCorrect == Spec => [](TypeInv /\ Channel /\ Places)
<1>1. Init => TypeInv /\ Channel /\ Places
  BY TypeInit, ChannelInit, PlacesInit
<1>2. TypeInv /\ Channel /\ Places /\ [Next]_vars => (TypeInv /\ Channel /\ Places)'
  BY TypeStep, ChannelStep, PlacesStep
<1> QED BY <1>1, <1>2, PTL DEF Spec

\* A message that was sent is buffered, with one worker, or finished, and in one
\* of these places only.
THEOREM EveryMessageInOnePlaceCorrect == Spec => []EveryMessageInOnePlace
<1>1. ASSUME TypeInv, Channel, Places PROVE EveryMessageInOnePlace
  <2>1. /\ Len(queue) \in Nat /\ Len(accepted) \in Nat /\ Len(queue) <= Len(accepted)
        /\ DOMAIN queue = 1 .. Len(queue) /\ DOMAIN accepted = 1 .. Len(accepted)
        /\ \A i \in 1 .. Len(accepted) : accepted[i] \in Messages
    BY <1>1, Lengths DEF Channel
  <2>2. /\ TakenCount \in Nat /\ TakenCount + Len(queue) = Len(accepted)
        /\ Cardinality(Busy) \in Nat /\ Cardinality(finished) \in Nat
    <3>1. IsFiniteSet(Busy) /\ IsFiniteSet(finished)
      BY <1>1, FS_Subset, ProcessorAssumption DEF Busy, Places
    <3> QED BY <2>1, <3>1, FS_CardinalityType DEF TakenCount
  <2> DEFINE held == {worker[w].msg : w \in Busy}
  <2>3. ASSUME NEW i \in 1 .. Len(accepted)
        PROVE  accepted[i] \in ToSet(queue) \cup held \cup finished
    <3>1. CASE i \in 1 .. TakenCount
      <4>1. PICK m \in Messages : m = accepted[i]
        BY <2>1
      <4>2. m \in finished \/ \E w \in Workers : worker[w].msg = m
        BY <1>1, <3>1, <4>1 DEF Places
      <4>3. m \in finished \/ m \in held
        BY <4>2, ProcessorAssumption DEF Busy
      <4> QED BY <4>1, <4>3
    <3>2. CASE i \notin 1 .. TakenCount
      <4>1. i - TakenCount \in 1 .. Len(queue) /\ TakenCount + (i - TakenCount) = i
        BY <2>1, <2>2, <3>2
      <4>2. accepted[i] = queue[i - TakenCount]
        BY <1>1, <4>1 DEF Channel
      <4> QED BY <2>1, <4>1, <4>2 DEF ToSet
    <3> QED BY <3>1, <3>2
  <2>4. ASSUME NEW i \in 1 .. Len(queue) PROVE queue[i] \in ToSet(accepted)
    <3>1. queue[i] = accepted[TakenCount + i] /\ TakenCount + i \in 1 .. Len(accepted)
      BY <1>1, <2>1, <2>2 DEF Channel
    <3> QED BY <2>1, <3>1 DEF ToSet
  <2>5. ASSUME NEW m \in held \cup finished PROVE m \in ToSet(accepted)
    <3>1. m \in Messages
      <4>1. \A w \in Busy : worker[w].msg \in Messages
        BY <1>1, BusyHolds DEF Busy
      <4>2. finished \subseteq Messages
        BY <1>1, TypeParts DEF TypeInv, PoolType
      <4> QED BY <4>1, <4>2
    <3>2. PICK i \in 1 .. TakenCount : accepted[i] = m
      BY <1>1, <3>1 DEF Places, Busy
    <3>3. i \in 1 .. Len(accepted)
      BY <2>1, <2>2
    <3> QED BY <2>1, <3>2, <3>3 DEF ToSet
  <2>6. ToSet(accepted) = ToSet(queue) \cup held \cup finished
    BY <2>1, <2>3, <2>4, <2>5 DEF ToSet
  <2>7. Len(accepted) = Len(queue) + Cardinality(Busy) + Cardinality(finished)
    BY <1>1, <2>1, <2>2 DEF Places
  <2> QED BY <2>6, <2>7 DEF EveryMessageInOnePlace
<1> QED BY <1>1, PlacesCorrect, PTL

-----------------------------------------------------------------------------
(* How far workers overtake each other.                                     *)

\* No message has been overtaken initially, and no step lets one be overtaken by more
\* messages than there are other workers.
LEMMA OvertakingInit == Init => Overtaking
<1> SUFFICES ASSUME Init PROVE Overtaking
  OBVIOUS
<1>1. Busy = {} /\ finished = {} /\ updated = {} /\ TakenCount = 0
  BY FreeType, EmptySeq DEF Busy, Init, TakenCount
<1> QED BY <1>1 DEF Overtaking

LEMMA OvertakingStep ==
    TypeInv /\ Channel /\ Places /\ Overtaking /\ [Next]_vars => Overtaking'
<1> SUFFICES ASSUME TypeInv, Channel, Places, Overtaking, [Next]_vars PROVE Overtaking'
  OBVIOUS
<1>1. CASE \A w \in Workers : ~ (Take(w) \/ UpdateStore(w) \/ Leave(w))
  <2>1. /\ TakenCount' = TakenCount
        /\ \A i \in 1 .. TakenCount : accepted'[i] = accepted[i]
        /\ UNCHANGED <<updated, finished>>
        /\ \A w \in Workers :
              /\ worker'[w].msg = worker[w].msg
              /\ worker'[w].pc = "updating" <=> worker[w].pc = "updating"
              /\ w \in Pool => w \in Pool'
    BY <1>1, Quiet
  <2>2. Busy' = Busy
    BY <2>1 DEF Busy
  <2>3. TakenCount \in Nat
    BY Lengths DEF TakenCount, Channel
  <2>4. ASSUME NEW i \in 1 .. TakenCount, NEW w \in Workers, HoldsBack(w, i)'
        PROVE  HoldsBack(w, i)
    <3>1. \A j \in 1 .. i - 1 : j \in 1 .. TakenCount
      BY <2>3
    <3>2. worker'[w].pc = "updating" /\ \E j \in 1 .. i - 1 : accepted'[j] = worker'[w].msg
      BY <2>4 DEF HoldsBack
    <3> QED BY <2>1, <3>1, <3>2 DEF HoldsBack
  <2>5. \A i \in 1 .. TakenCount' : \E w \in Pool' : ~ HoldsBack(w, i)'
    BY <2>1, <2>4 DEF Overtaking, Pool
  <2>6. \A m \in updated' : \E i \in 1 .. TakenCount' : accepted'[i] = m
    BY <2>1 DEF Overtaking
  <2>7. /\ finished' \subseteq updated'
        /\ \A w \in Workers : w \in Busy' =>
              (worker'[w].msg \in updated' <=> worker'[w].pc # "updating")
    BY <2>1, <2>2 DEF Overtaking
  <2> QED BY <2>5, <2>6, <2>7 DEF Overtaking
<1>2. ASSUME NEW w \in Workers, Take(w) PROVE Overtaking'
  <2> DEFINE m == Head(queue)
             n == TakenCount
  <2>1. /\ n \in Nat /\ TakenCount' = n + 1 /\ accepted' = accepted /\ accepted[n + 1] = m
        /\ \A i \in 1 .. n : accepted[i] # m
        /\ \A v \in Workers \ {w} : worker'[v] = worker[v]
    BY <1>2, TakeIsNext
  <2>2. /\ worker[w].pc = "selecting" /\ worker[w].msg = NoMessage
        /\ worker'[w].msg = m /\ worker'[w].pc = "updating"
        /\ UNCHANGED <<updated, finished>>
    BY <1>2, TakeFields
  <2>3. Pool' = Pool /\ w \in Pool
    BY <1>2, <2>2, PoolStays DEF WorkerStep, Pool
  <2> HIDE DEF m, n
  <2>4. m \notin updated
    BY <2>1 DEF Overtaking, n
  <2>5. \A v \in Workers : v \in Busy' =>
            (worker'[v].msg \in updated' <=> worker'[v].pc # "updating")
    BY <2>1, <2>2, <2>4 DEF Overtaking, Busy
  <2>6. \A x \in updated' : \E i \in 1 .. TakenCount' : accepted'[i] = x
    BY <2>1, <2>2 DEF Overtaking, n
  <2>7. ASSUME NEW i \in 1 .. n + 1 PROVE ~ HoldsBack(w, i)'
    <3>1. \A j \in 1 .. i - 1 : j \in 1 .. n
      BY <2>1
    <3> QED BY <2>1, <2>2, <3>1 DEF HoldsBack
  <2>8. \A i \in 1 .. TakenCount' : \E v \in Pool' : ~ HoldsBack(v, i)'
    BY <2>1, <2>3, <2>7
  <2> QED BY <2>2, <2>5, <2>6, <2>8 DEF Overtaking
<1>3. ASSUME NEW w \in Workers, UpdateStore(w) PROVE Overtaking'
  <2> DEFINE m == worker[w].msg
  <2>1. /\ \A v \in Workers \ {w} : worker'[v] = worker[v]
        /\ UNCHANGED accepted /\ Pool' = Pool
    BY <1>3, WorkerMoves, PoolStays DEF WorkerStep
  <2>2. /\ m \in Messages /\ worker'[w].msg = m /\ worker'[w].pc = "counting"
        /\ updated' = updated \cup {m} /\ UNCHANGED <<queue, finished>>
    BY <1>3, UpdateFields
  <2>3. TakenCount' = TakenCount
    BY <2>1, <2>2 DEF TakenCount
  <2>4. \E i \in 1 .. TakenCount : accepted[i] = m
    BY <2>2 DEF Places
  <2>5. Busy' = Busy /\ w \in Busy
    BY <2>1, <2>2, ProcessorAssumption DEF Busy
  <2>6. \A v \in Workers \ {w} : v \in Busy => worker[v].msg # m
    BY DEF Places
  <2> HIDE DEF m
  <2>7. \A v \in Workers : v \in Busy' =>
            (worker'[v].msg \in updated' <=> worker'[v].pc # "updating")
    BY <2>1, <2>2, <2>5, <2>6 DEF Overtaking
  <2>8. \A x \in updated' : \E i \in 1 .. TakenCount' : accepted'[i] = x
    BY <2>1, <2>2, <2>3, <2>4 DEF Overtaking
  <2>9. \A v \in Workers, i \in 1 .. TakenCount : HoldsBack(v, i)' => HoldsBack(v, i)
    BY <2>1, <2>2 DEF HoldsBack
  <2>10. \A i \in 1 .. TakenCount' : \E v \in Pool' : ~ HoldsBack(v, i)'
    BY <2>1, <2>3, <2>9 DEF Overtaking, Pool
  <2>11. finished' \subseteq updated'
    BY <2>2 DEF Overtaking
  <2> QED BY <2>7, <2>8, <2>10, <2>11 DEF Overtaking
<1>4. ASSUME NEW w \in Workers, Leave(w) PROVE Overtaking'
  <2> DEFINE m == worker[w].msg
  <2>1. /\ \A v \in Workers \ {w} : worker'[v] = worker[v]
        /\ UNCHANGED accepted /\ Pool' = Pool
    BY <1>4, WorkerMoves, PoolStays DEF WorkerStep
  <2>2. /\ m \in Messages /\ worker[w].pc = "leaving" /\ worker'[w].msg = NoMessage
        /\ worker'[w].pc = "selecting"
        /\ finished' = finished \cup {m} /\ UNCHANGED <<queue, updated>>
    BY <1>4, LeaveFields
  <2>3. TakenCount' = TakenCount
    BY <2>1, <2>2 DEF TakenCount
  <2>4. m \in updated
    BY <2>2, BusyHolds DEF Overtaking
  <2> HIDE DEF m
  <2>5. \A v \in Workers : v \in Busy' =>
            (worker'[v].msg \in updated' <=> worker'[v].pc # "updating")
    BY <2>1, <2>2 DEF Overtaking, Busy
  <2>6. \A v \in Workers, i \in 1 .. TakenCount : HoldsBack(v, i)' => HoldsBack(v, i)
    BY <2>1, <2>2 DEF HoldsBack
  <2>7. \A i \in 1 .. TakenCount' : \E v \in Pool' : ~ HoldsBack(v, i)'
    BY <2>1, <2>3, <2>6 DEF Overtaking, Pool
  <2>8. finished' \subseteq updated'
    BY <2>2, <2>4 DEF Overtaking
  <2>9. \A x \in updated' : \E i \in 1 .. TakenCount' : accepted'[i] = x
    BY <2>1, <2>2, <2>3 DEF Overtaking
  <2> QED BY <2>5, <2>7, <2>8, <2>9 DEF Overtaking
<1> QED BY <1>1, <1>2, <1>3, <1>4

\* Of the messages sent before one that the store has seen, at most as many as
\* there are other workers are still to come: each of them is held by a worker
\* of its own, and one worker of the pool holds none of them.
THEOREM OvertakingBoundedCorrect == Spec => []OvertakingBounded
<1>1. ASSUME TypeInv, Channel, Places, Overtaking PROVE OvertakingBounded
  <2> SUFFICES ASSUME NEW i \in DOMAIN accepted, accepted[i] \in updated
               PROVE  Cardinality({j \in 1 .. i - 1 : accepted[j] \notin updated})
                        < Cardinality(Pool)
    BY DEF OvertakingBounded
  <2>1. /\ Len(queue) \in Nat /\ Len(accepted) \in Nat /\ Len(queue) <= Len(accepted)
        /\ DOMAIN accepted = 1 .. Len(accepted)
        /\ \A j \in 1 .. Len(accepted) : accepted[j] \in Messages
    BY <1>1, Lengths DEF Channel
  <2>2. TakenCount \in Nat /\ TakenCount <= Len(accepted)
    BY <2>1 DEF TakenCount
  <2>3. i \in 1 .. TakenCount
    <3>1. PICK j \in 1 .. TakenCount : accepted[j] = accepted[i]
      BY <1>1 DEF Overtaking
    <3>2. j = i
      BY <1>1, <2>1, <2>2, <3>1 DEF Channel
    <3> QED BY <3>2
  <2>4. PICK free \in Pool : ~ HoldsBack(free, i)
    BY <1>1, <2>3 DEF Overtaking
  <2> DEFINE late == {j \in 1 .. i - 1 : accepted[j] \notin updated}
             holder == [j \in late |-> CHOOSE w \in Workers :
                           worker[w].msg = accepted[j] /\ worker[w].pc = "updating"]
  <2>5. ASSUME NEW j \in late
        PROVE  \E w \in Workers : worker[w].msg = accepted[j] /\ worker[w].pc = "updating"
    <3>1. j \in 1 .. TakenCount /\ accepted[j] \in Messages
      BY <2>1, <2>2, <2>3
    <3>2. PICK w \in Workers : worker[w].msg = accepted[j]
      BY <1>1, <3>1 DEF Places, Overtaking
    <3>3. w \in Busy
      BY <1>1, <3>1, <3>2, BusyHolds
    <3> QED BY <1>1, <3>2, <3>3 DEF Overtaking
  <2>6. ASSUME NEW j \in late
        PROVE  /\ holder[j] \in Workers /\ worker[holder[j]].msg = accepted[j]
               /\ worker[holder[j]].pc = "updating"
    BY <2>5
  <2> HIDE DEF holder
  <2>7. ASSUME NEW j \in late PROVE holder[j] \in Pool \ {free}
    <3>1. holder[j] \in Pool
      BY <2>6 DEF Pool
    <3>2. HoldsBack(holder[j], i)
      BY <2>6 DEF HoldsBack
    <3> QED BY <2>4, <3>1, <3>2
  <2>8. ASSUME NEW j \in late, NEW k \in late, holder[j] = holder[k] PROVE j = k
    <3>1. accepted[j] = accepted[k]
      BY <2>6, <2>8
    <3>2. j \in 1 .. Len(accepted) /\ k \in 1 .. Len(accepted)
      BY <2>1, <2>2, <2>3
    <3> QED BY <1>1, <3>1, <3>2 DEF Channel
  <2>9. holder \in Injection(late, Pool \ {free})
    <3>1. DOMAIN holder = late
      BY DEF holder
    <3>2. holder \in [late -> Pool \ {free}]
      <4>1. holder = [j \in late |-> holder[j]]
        BY DEF holder
      <4> HIDE DEF late
      <4> QED BY <2>7, <4>1
    <3> HIDE DEF late
    <3> QED BY <2>8, <3>2 DEF Injection, IsInjective
  <2>10. IsFiniteSet(Pool)
    BY FS_Subset, ProcessorAssumption DEF Pool
  <2>11. /\ IsFiniteSet(Pool \ {free}) /\ Cardinality(Pool) \in Nat
         /\ Cardinality(Pool \ {free}) = Cardinality(Pool) - 1
    BY <2>4, <2>10, FS_RemoveElement, FS_CardinalityType
  <2>12. IsFiniteSet(late) /\ Cardinality(late) <= Cardinality(Pool \ {free})
    <3> HIDE DEF late
    <3> QED BY <2>9, <2>11, FS_Injection
  <2>13. Cardinality(late) \in Nat
    <3> HIDE DEF late
    <3> QED BY <2>12, FS_CardinalityType
  <2> QED BY <2>11, <2>12, <2>13
<1>2. Init => TypeInv /\ Channel /\ Places /\ Overtaking
  BY TypeInit, ChannelInit, PlacesInit, OvertakingInit
<1>3. TypeInv /\ Channel /\ Places /\ Overtaking /\ [Next]_vars
        => (TypeInv /\ Channel /\ Places /\ Overtaking)'
  BY TypeStep, ChannelStep, PlacesStep, OvertakingStep
<1> QED BY <1>1, <1>2, <1>3, PTL DEF Spec

-----------------------------------------------------------------------------
(* The counters.                                                            *)

\* One value of a function changes, or is new: the sum changes by as much.
LEMMA SumUpdate ==
    ASSUME NEW f, NEW e, NEW g, IsFiniteSet(DOMAIN f),
           \A x : x \in DOMAIN g <=> x \in DOMAIN f \/ x = e,
           \A x \in DOMAIN f : f[x] \in Int, \A x \in DOMAIN g : g[x] \in Int,
           \A x \in DOMAIN f \ {e} : g[x] = f[x]
    PROVE  /\ SumFunction(f) \in Int
           /\ e \in DOMAIN f => SumFunction(g) = SumFunction(f) + g[e] - f[e]
           /\ e \notin DOMAIN f => SumFunction(g) = SumFunction(f) + g[e]
<1> DEFINE S == DOMAIN f
<1>0. DOMAIN g = S \cup {e}
  OBVIOUS
<1>1. SumFunction(f) = SumFunctionOnSet(f, S) /\ SumFunction(g) = SumFunctionOnSet(g, S \cup {e})
  BY <1>0, Zenon DEF SumFunction
<1>2. \A x \in S \cup {e} : g[x] \in Int
  OBVIOUS
<1> HIDE DEF S
<1>3. IsFiniteSet(S) /\ (\A x \in S : f[x] \in Int) /\ \A x \in S \ {e} : f[x] = g[x]
  BY DEF S
<1>4. SumFunctionOnSet(f, S) \in Int
  BY <1>3, SumType
<1>5. ASSUME e \in S PROVE SumFunction(g) = SumFunction(f) + g[e] - f[e]
  <2>1. S \cup {e} = S /\ \A x \in S : f[x] \in Int /\ g[x] \in Int
    BY <1>2, <1>3, <1>5
  <2>2. SumFunctionOnSet(g, S) = SumFunctionOnSet(f, S) - f[e] + g[e]
    BY <1>3, <1>5, <2>1, SumChange
  <2>3. SumFunctionOnSet(g, S \cup {e}) = SumFunctionOnSet(g, S)
    BY <2>1, Zenon
  <2>4. f[e] \in Int /\ g[e] \in Int
    BY <1>5, <2>1
  <2> QED BY <1>1, <1>4, <2>2, <2>3, <2>4
<1>6. ASSUME e \notin S PROVE SumFunction(g) = SumFunction(f) + g[e]
  <2>1. SumFunctionOnSet(g, S \cup {e}) = g[e] + SumFunctionOnSet(g, S)
    BY <1>2, <1>3, <1>6, SumAdd
  <2>2. SumFunctionOnSet(g, S) = SumFunctionOnSet(f, S)
    <3>1. \A x \in S : f[x] = g[x]
      BY <1>3, <1>6
    <3> QED BY <1>3, <3>1, SumSame
  <2>3. g[e] \in Int
    BY <1>2
  <2> QED BY <1>1, <1>4, <2>1, <2>2, <2>3
<1> QED BY <1>1, <1>4, <1>5, <1>6 DEF S

\* What the counters rest on: the sensor of a message is known from Update on,
\* and only failures are recorded.
Known ==
    /\ IsFiniteSet(DOMAIN sensors)
    /\ \A w \in Workers :
           /\ worker[w].pc \in {"counting", "validating", "recording"}
                => worker[w].msg.sensor \in DOMAIN sensors
           /\ worker[w].pc = "recording" => worker[w].msg.outcome \in {"anomaly", "error"}

CountingPcs == {"counting", "validating", "recording"}

\* All other steps leave the counters alone, and what is to be counted.
LEMMA CountersQuiet ==
    ASSUME TypeInv, [Next]_vars,
           \A w \in Workers : ~ (\/ UpdateStore(w) \/ CountSequence(w)
                                 \/ Validate(w) \/ RecordFailure(w))
    PROVE  /\ UNCHANGED <<sensors, counts>>
           /\ \A w \in Workers :
                 /\ worker'[w].result = worker[w].result
                 /\ \/ worker'[w] = worker[w]
                    \/ worker'[w].pc \notin CountingPcs /\ worker[w].pc \notin CountingPcs
<1> DEFINE Same == /\ UNCHANGED <<sensors, counts>>
                   /\ \A w \in Workers :
                         /\ worker'[w].result = worker[w].result
                         /\ \/ worker'[w] = worker[w]
                            \/ worker'[w].pc \notin CountingPcs /\ worker[w].pc \notin CountingPcs
<1> SUFFICES Same
  OBVIOUS
<1>a. ASSUME UNCHANGED <<sensors, counts, worker>> PROVE Same
  BY <1>a
<1>1. CASE Start
  <2>1. PICK P \in (SUBSET Workers) \ {{}} :
            worker' = [w \in Workers |-> IF w \in P THEN Free("selecting") ELSE worker[w]]
    BY <1>1 DEF Start
  <2>2. \A w \in Workers : worker[w].pc = "absent" /\ worker[w].result = NoResult
    BY <1>1 DEF Start, Pool, TypeInv, Holding
  <2>3. \A w \in Workers : worker'[w].pc \in {"absent", "selecting"}
                           /\ worker'[w].result = NoResult
    BY <2>1, <2>2, FreeType
  <2>4. UNCHANGED <<sensors, counts>>
    BY <1>1 DEF Start
  <2> QED BY <2>2, <2>3, <2>4 DEF CountingPcs
<1>2. ASSUME NEW t \in Stoppers, StopStep(t) PROVE Same
  BY <1>a, <1>2 DEF StopStep, StopCheck, StopStore, CloseStopChan, CloseStopChanAgain,
     CloseJobsChan, StopReturn, Stopping, Panic, pool
<1>3. ASSUME NEW c \in Enqueuers, NEW m \in Messages, Call(c, m) PROVE Same
  BY <1>a, <1>3 DEF Call, Enqueuing, pool
<1>4. ASSUME NEW c \in Enqueuers, EnqueueStep(c) PROVE Same
  BY <1>a, <1>4 DEF EnqueueStep, Send, Count, SendOnClosed, GiveUp, Refuse, Panic, Enqueuing,
     pool
<1>5. ASSUME NEW w \in Workers, WorkerStep(w) PROVE Same
  <2>1. \A v \in Workers \ {w} : worker'[v] = worker[v]
    BY <1>5, WorkerMoves
  <2>2. Exit(w) \/ Take(w) \/ Leave(w)
    BY <1>5 DEF WorkerStep
  <2>3. /\ worker'[w].pc \notin CountingPcs /\ worker[w].pc \notin CountingPcs
        /\ worker'[w].result = worker[w].result
        /\ UNCHANGED <<sensors, counts>>
    <3>1. CASE Exit(w)
      BY <3>1, ExitFields DEF Exit, CountingPcs
    <3>2. CASE Take(w)
      BY <3>2, TakeFields DEF CountingPcs
    <3>3. CASE Leave(w)
      BY <3>3, LeaveFields DEF CountingPcs
    <3> QED BY <2>2, <3>1, <3>2, <3>3
  <2> QED BY <2>1, <2>3
<1>6. ASSUME NEW v \in Waiters, Wait(v) \/ WaitStep(v) PROVE Same
  BY <1>a, <1>6 DEF Wait, WaitStep, WaitCheck, WaitQuiet, WaitOn, Waiting, pool
<1>7. CASE UNCHANGED vars
  BY <1>a, <1>7 DEF vars, pool
<1> HIDE DEF Same
<1> QED BY <1>1, <1>2, <1>3, <1>4, <1>5, <1>6, <1>7 DEF Next

\* A worker past Update has its sensor in the map, initially and after every step.
LEMMA KnownInit == Init => Known
BY FreeType, FS_EmptySet DEF Init, Known

LEMMA KnownStep == TypeInv /\ Known /\ [Next]_vars => Known'
<1> SUFFICES ASSUME TypeInv, Known, [Next]_vars PROVE Known'
  OBVIOUS
<1>1. CASE \A w \in Workers : ~ (\/ UpdateStore(w) \/ CountSequence(w)
                                 \/ Validate(w) \/ RecordFailure(w))
  BY <1>1, CountersQuiet DEF Known, CountingPcs
<1>2. ASSUME NEW w \in Workers, UpdateStore(w) PROVE Known'
  <2>1. \A v \in Workers \ {w} : worker'[v] = worker[v]
    BY <1>2, WorkerMoves DEF WorkerStep
  <2>2. worker'[w].pc = "counting" /\ worker'[w].msg = worker[w].msg
    BY <1>2, UpdateFields
  <2>3. DOMAIN sensors' = DOMAIN sensors \cup {worker[w].msg.sensor}
    BY <1>2 DEF UpdateStore
  <2>4. IsFiniteSet(DOMAIN sensors')
    BY <2>3, FS_AddElement DEF Known
  <2> QED BY <2>1, <2>2, <2>3, <2>4 DEF Known
<1>3. ASSUME NEW w \in Workers, CountSequence(w) PROVE Known'
  <2>1. \A v \in Workers \ {w} : worker'[v] = worker[v]
    BY <1>3, WorkerMoves DEF WorkerStep
  <2> QED BY <1>3, <2>1, CountFields DEF Known
<1>4. ASSUME NEW w \in Workers, Validate(w) PROVE Known'
  <2>1. \A v \in Workers \ {w} : worker'[v] = worker[v]
    BY <1>4, WorkerMoves DEF WorkerStep
  <2>2. worker[w].msg.outcome \in Outcomes
    BY <1>4, ValidateFields, ProcessorAssumption
  <2>3. /\ worker[w].pc = "validating" /\ worker'[w].msg = worker[w].msg /\ sensors' = sensors
        /\ worker'[w].pc \in {"leaving", "recording"}
        /\ worker'[w].pc = "recording" => worker[w].msg.outcome # "sound"
    BY <1>4, ValidateFields
  <2> QED BY <2>1, <2>2, <2>3 DEF Known, Outcomes
<1>5. ASSUME NEW w \in Workers, RecordFailure(w) PROVE Known'
  <2>1. \A v \in Workers \ {w} : worker'[v] = worker[v]
    BY <1>5, WorkerMoves DEF WorkerStep
  <2>2. DOMAIN sensors' = DOMAIN sensors
    BY <1>5 DEF RecordFailure
  <2>3. worker'[w].pc = "leaving"
    BY <1>5, RecordFields
  <2> QED BY <2>1, <2>2, <2>3 DEF Known
<1> QED BY <1>1, <1>2, <1>3, <1>4, <1>5

\* A counter of every worker, and of every sensor.
OfWorkers(k) == [w \in Workers |-> counts[w][k]]
OfSensors(k) == [s \in DOMAIN sensors |-> sensors[s][k]]

SensorCounters == {"messageCount", "droppedCount", "duplicateCount", "outOfOrderCount",
                   "errorCount", "anomalyCount"}

\* Each counter of an entry is a natural number.
LEMMA CounterTypes ==
    ASSUME NEW e \in Entry, NEW k \in SensorCounters PROVE e[k] \in Nat
BY DEF Entry, SensorCounters

\* One entry changes, or is made: each sum changes by as much.
LEMMA SensorSums ==
    ASSUME TypeInv, TypeInv', Known, NEW s, NEW k \in SensorCounters,
           DOMAIN sensors' = DOMAIN sensors \cup {s},
           \A x \in DOMAIN sensors \ {s} : sensors'[x] = sensors[x]
    PROVE  /\ SumFunction(OfSensors(k)) \in Int
           /\ s \in DOMAIN sensors =>
                 SumFunction(OfSensors(k)') = SumFunction(OfSensors(k)) + sensors'[s][k]
                                                - sensors[s][k]
           /\ s \notin DOMAIN sensors =>
                 SumFunction(OfSensors(k)') = SumFunction(OfSensors(k)) + sensors'[s][k]
<1>1. sensors \in [DOMAIN sensors -> Entry] /\ sensors' \in [DOMAIN sensors' -> Entry]
  BY DEF TypeInv, TypeOK
<1> DEFINE f == OfSensors(k)
           g == OfSensors(k)'
<1>2. /\ DOMAIN f = DOMAIN sensors
      /\ \A x : x \in DOMAIN g <=> x \in DOMAIN f \/ x = s
      /\ \A x \in DOMAIN f : f[x] \in Int
      /\ \A x \in DOMAIN g : g[x] \in Int
  BY <1>1, CounterTypes DEF OfSensors
<1>3. /\ \A x \in DOMAIN f \ {s} : g[x] = f[x]
      /\ g[s] = sensors'[s][k] /\ (s \in DOMAIN sensors => f[s] = sensors[s][k])
  BY DEF OfSensors
<1>4. IsFiniteSet(DOMAIN f)
  BY <1>2 DEF Known
<1> HIDE DEF f, g
<1>5. /\ SumFunction(f) \in Int
      /\ s \in DOMAIN f => SumFunction(g) = SumFunction(f) + g[s] - f[s]
      /\ s \notin DOMAIN f => SumFunction(g) = SumFunction(f) + g[s]
  BY <1>2, <1>3, <1>4, SumUpdate
<1> QED BY <1>2, <1>3, <1>5 DEF f, g

\* The sums after Update, in terms of what it reports.
LEMMA UpdateSums ==
    ASSUME TypeInv, TypeInv', Known, NEW w \in Workers, UpdateStore(w)
    PROVE  LET r == ResultOf(worker[w].msg) IN
           /\ r \in Results
           /\ \A k \in SensorCounters : SumFunction(OfSensors(k)) \in Int
           /\ SumFunction(OfSensors("messageCount")')
                = SumFunction(OfSensors("messageCount")) + 1
           /\ SumFunction(OfSensors("droppedCount")')
                = SumFunction(OfSensors("droppedCount")) + r.dropped
           /\ SumFunction(OfSensors("duplicateCount")')
                = SumFunction(OfSensors("duplicateCount")) + (IF r.duplicate THEN 1 ELSE 0)
           /\ SumFunction(OfSensors("outOfOrderCount")')
                = SumFunction(OfSensors("outOfOrderCount")) + (IF r.outOfOrder THEN 1 ELSE 0)
           /\ SumFunction(OfSensors("errorCount")') = SumFunction(OfSensors("errorCount"))
           /\ SumFunction(OfSensors("anomalyCount")') = SumFunction(OfSensors("anomalyCount"))
<1> DEFINE m == worker[w].msg
           s == m.sensor
           q == m.sequence
           r == ResultOf(m)
           old(k) == IF s \in DOMAIN sensors THEN sensors[s][k] ELSE 0
           new == IF s \in DOMAIN sensors THEN Updated(sensors[s], q) ELSE NewEntry(q)
<1>1. m \in Messages /\ q \in SequenceNumbers
  BY UpdateFields, ProcessorAssumption
<1>2. r \in Results
  BY <1>1, ResultType, TypeParts DEF TypeInv
<1>3. /\ DOMAIN sensors' = DOMAIN sensors \cup {s} /\ sensors'[s] = new
      /\ \A x \in DOMAIN sensors \ {s} : sensors'[x] = sensors[x]
  BY DEF UpdateStore
<1>4. ASSUME NEW k \in SensorCounters
      PROVE  /\ SumFunction(OfSensors(k)) \in Int /\ old(k) \in Int /\ new[k] \in Int
             /\ SumFunction(OfSensors(k)') = SumFunction(OfSensors(k)) + new[k] - old(k)
  <2>1. /\ SumFunction(OfSensors(k)) \in Int
        /\ s \in DOMAIN sensors =>
              SumFunction(OfSensors(k)') = SumFunction(OfSensors(k)) + sensors'[s][k]
                                             - sensors[s][k]
        /\ s \notin DOMAIN sensors =>
              SumFunction(OfSensors(k)') = SumFunction(OfSensors(k)) + sensors'[s][k]
    BY <1>3, SensorSums
  <2>2. new \in Entry /\ (s \in DOMAIN sensors => sensors[s] \in Entry)
    BY <1>1, NewEntryType, UpdatedType, TypeParts DEF TypeInv, PoolType
  <2> HIDE DEF new, s
  <2>3. new[k] \in Int /\ old(k) \in Int
    BY <2>2, CounterTypes
  <2> QED BY <1>3, <2>1, <2>3
<1>5. /\ new.messageCount = old("messageCount") + 1
      /\ new.droppedCount = old("droppedCount") + r.dropped
      /\ new.duplicateCount = old("duplicateCount") + (IF r.duplicate THEN 1 ELSE 0)
      /\ new.outOfOrderCount = old("outOfOrderCount") + (IF r.outOfOrder THEN 1 ELSE 0)
      /\ new.errorCount = old("errorCount") /\ new.anomalyCount = old("anomalyCount")
  <2>1. CASE s \notin DOMAIN sensors
    <3>1. r = NoResult /\ new = NewEntry(q)
      BY <2>1 DEF ResultOf
    <3>2. \A k : old(k) = 0
      BY <2>1
    <3> HIDE DEF old, new, r
    <3> QED BY <3>1, <3>2 DEF NoResult, NewEntry
  <2>2. CASE s \in DOMAIN sensors
    <3> DEFINE e == sensors[s]
    <3>1. e \in Entry
      BY <2>2, TypeParts DEF TypeInv, PoolType
    <3>2. /\ r.dropped = IF Advances(e, q) THEN Gap(e, q) ELSE 0
          /\ r.duplicate = IsDuplicate(e, q)
          /\ r.outOfOrder = IsOutOfOrder(e, q)
      BY <2>2 DEF ResultOf
    <3>3. new = Updated(e, q) /\ \A k : old(k) = e[k]
      BY <2>2
    <3> HIDE DEF new, old, r, e, q, s
    <3> QED BY <1>1, <3>1, <3>2, <3>3, UpdatedCounters
  <2> QED BY <2>1, <2>2
<1> HIDE DEF old, new, r
<1>6. /\ r.dropped \in Int
      /\ (IF r.duplicate THEN 1 ELSE 0) \in Int /\ (IF r.outOfOrder THEN 1 ELSE 0) \in Int
  BY <1>2 DEF Results
<1>7. \A k \in SensorCounters : SumFunction(OfSensors(k)) \in Int
  BY <1>4
<1> DEFINE grows(k, n) == SumFunction(OfSensors(k)') = SumFunction(OfSensors(k)) + n
<1>8. ASSUME NEW k \in SensorCounters, NEW n \in Int, new[k] = old(k) + n
      PROVE  grows(k, n)
  BY <1>4, <1>8
<1> HIDE DEF grows
<1>9. /\ grows("messageCount", 1) /\ grows("droppedCount", r.dropped)
      /\ grows("duplicateCount", IF r.duplicate THEN 1 ELSE 0)
      /\ grows("outOfOrderCount", IF r.outOfOrder THEN 1 ELSE 0)
      /\ grows("errorCount", 0) /\ grows("anomalyCount", 0)
  <2>1. new.errorCount = old("errorCount") + 0 /\ new.anomalyCount = old("anomalyCount") + 0
    BY <1>4, <1>5 DEF SensorCounters
  <2> QED BY <1>5, <1>6, <1>8, <2>1 DEF SensorCounters
<1>10. /\ SumFunction(OfSensors("errorCount")') = SumFunction(OfSensors("errorCount"))
       /\ SumFunction(OfSensors("anomalyCount")') = SumFunction(OfSensors("anomalyCount"))
  BY <1>7, <1>9 DEF grows, SensorCounters
<1> QED BY <1>2, <1>7, <1>9, <1>10 DEF grows, r

\* What the workers have counted or found of drops, and whose finding is a
\* duplicate or a late message.
Pending   == [w \in Workers |-> counts[w].dropped + worker[w].result.dropped]
HandledBy   == [w \in Workers |-> counts[w].processed + counts[w].errors + counts[w].anomalies]
FoundDup  == {w \in Workers : worker[w].result.duplicate}
FoundLate == {w \in Workers : worker[w].result.outOfOrder}

SequenceSums ==
    /\ SumFunction(Pending) = SumFunction(OfSensors("droppedCount"))
    /\ SumFunction(OfWorkers("duplicates")) + Cardinality(FoundDup)
         = SumFunction(OfSensors("duplicateCount"))
    /\ SumFunction(OfWorkers("outOfOrder")) + Cardinality(FoundLate)
         = SumFunction(OfSensors("outOfOrderCount"))

\* The sums of the proofs are those of the property.
LEMMA SequenceSumsAgree == SequenceSums <=> SequenceCountsAgree
<1>1. /\ OfSensors("droppedCount") = [s \in DOMAIN sensors |-> sensors[s].droppedCount]
      /\ OfSensors("duplicateCount") = [s \in DOMAIN sensors |-> sensors[s].duplicateCount]
      /\ OfSensors("outOfOrderCount") = [s \in DOMAIN sensors |-> sensors[s].outOfOrderCount]
      /\ OfWorkers("duplicates") = [w \in Workers |-> counts[w].duplicates]
      /\ OfWorkers("outOfOrder") = [w \in Workers |-> counts[w].outOfOrder]
  BY DEF OfSensors, OfWorkers
<1> QED BY <1>1, Zenon DEF SequenceSums, SequenceCountsAgree, Pending, FoundDup, FoundLate

\* The counters of one worker change.
LEMMA WorkerSum ==
    ASSUME NEW f, NEW g, NEW w \in Workers, DOMAIN f = Workers, DOMAIN g = Workers,
           \A v \in Workers : f[v] \in Int, \A v \in Workers : g[v] \in Int,
           \A v \in Workers \ {w} : g[v] = f[v]
    PROVE  SumFunction(f) \in Int /\ SumFunction(g) = SumFunction(f) + g[w] - f[w]
<1>1. IsFiniteSet(DOMAIN f) /\ w \in DOMAIN f
  BY ProcessorAssumption
<1>2. \A x : x \in DOMAIN g <=> x \in DOMAIN f \/ x = w
  OBVIOUS
<1>3. (\A x \in DOMAIN f : f[x] \in Int) /\ (\A x \in DOMAIN g : g[x] \in Int)
      /\ \A x \in DOMAIN f \ {w} : g[x] = f[x]
  OBVIOUS
<1> QED BY <1>1, <1>2, <1>3, SumUpdate

WorkersTyped ==
    \A w \in Workers :
        /\ \A k \in Counters : counts[w][k] \in Nat
        /\ worker[w].result \in Results /\ worker[w].result.dropped \in Nat
        /\ worker[w].result.duplicate \in BOOLEAN /\ worker[w].result.outOfOrder \in BOOLEAN
        /\ counts[w].dropped \in Nat /\ Pending[w] \in Int /\ HandledBy[w] \in Int

\* The counters and the result of one worker, in this state and in the next.
LEMMA WorkerTypes == TypeInv => WorkersTyped
<1> SUFFICES ASSUME TypeInv, NEW w \in Workers
             PROVE  /\ \A k \in Counters : counts[w][k] \in Nat
                    /\ worker[w].result \in Results /\ worker[w].result.dropped \in Nat
                    /\ worker[w].result.duplicate \in BOOLEAN
                    /\ worker[w].result.outOfOrder \in BOOLEAN
                    /\ counts[w].dropped \in Nat /\ Pending[w] \in Int /\ HandledBy[w] \in Int
  BY DEF WorkersTyped
<1>1. worker[w] \in WorkerStates /\ counts[w] \in [Counters -> Nat]
  BY TypeParts DEF TypeInv, PoolType
<1>2. /\ worker[w].result \in Results /\ worker[w].result.dropped \in Nat
      /\ worker[w].result.duplicate \in BOOLEAN /\ worker[w].result.outOfOrder \in BOOLEAN
  BY <1>1 DEF WorkerStates, Results
<1>3. \A k \in Counters : counts[w][k] \in Nat
  BY <1>1
<1>4. /\ counts[w].dropped \in Nat /\ counts[w].processed \in Nat
      /\ counts[w].errors \in Nat /\ counts[w].anomalies \in Nat
  BY <1>3 DEF Counters
<1> QED BY <1>2, <1>3, <1>4 DEF Pending, HandledBy

LEMMA WorkerTypesNext == TypeInv' => WorkersTyped'
BY WorkerTypes, PTL

\* Counting what was found, and the outcome, counter by counter.
LEMMA AddedFields ==
    ASSUME NEW n \in [Counters -> Nat], NEW r \in Results
    PROVE  /\ Added(n, r).dropped = n.dropped + r.dropped
           /\ Added(n, r).duplicates = n.duplicates + (IF r.duplicate THEN 1 ELSE 0)
           /\ Added(n, r).outOfOrder = n.outOfOrder + (IF r.outOfOrder THEN 1 ELSE 0)
           /\ Added(n, r).processed = n.processed
           /\ Added(n, r).errors = n.errors /\ Added(n, r).anomalies = n.anomalies
<1>1. /\ n.duplicates \in Nat /\ n.outOfOrder \in Nat
      /\ DOMAIN n = Counters
  BY DEF Counters
<1>2. /\ Added(n, r).dropped = n.dropped + r.dropped
      /\ Added(n, r).duplicates = IF r.duplicate THEN n.duplicates + 1 ELSE n.duplicates
      /\ Added(n, r).outOfOrder = IF r.outOfOrder THEN n.outOfOrder + 1 ELSE n.outOfOrder
      /\ Added(n, r).processed = n.processed
      /\ Added(n, r).errors = n.errors /\ Added(n, r).anomalies = n.anomalies
  BY <1>1 DEF Added, Counters
<1> QED BY <1>1, <1>2

\* Counting an outcome leaves the counters of the sequence numbers alone.
LEMMA WithOutcomeFields ==
    ASSUME NEW n \in [Counters -> Nat], NEW outcome \in Outcomes
    PROVE  /\ WithOutcome(n, outcome).dropped = n.dropped
           /\ WithOutcome(n, outcome).duplicates = n.duplicates
           /\ WithOutcome(n, outcome).outOfOrder = n.outOfOrder
           /\ WithOutcome(n, outcome).processed
                = n.processed + (IF outcome = "sound" THEN 1 ELSE 0)
           /\ WithOutcome(n, outcome).errors
                = n.errors + (IF outcome = "error" THEN 1 ELSE 0)
           /\ WithOutcome(n, outcome).anomalies
                = n.anomalies + (IF outcome = "anomaly" THEN 1 ELSE 0)
<1>1. /\ n.processed \in Nat /\ n.errors \in Nat /\ n.anomalies \in Nat
      /\ DOMAIN n = Counters
  BY DEF Counters
<1>2. CASE outcome = "sound"
  BY <1>1, <1>2 DEF WithOutcome, CounterOf, Counters
<1>3. CASE outcome = "error"
  BY <1>1, <1>3 DEF WithOutcome, CounterOf, Counters
<1>4. CASE outcome = "anomaly"
  BY <1>1, <1>4 DEF WithOutcome, CounterOf, Counters
<1> QED BY <1>2, <1>3, <1>4 DEF Outcomes

\* All sums are 0 initially, and every step changes both sides by as much: the proof has
\* one step per action that touches a counter, and one for all others.
LEMMA SequenceInit == Init => SequenceSums /\ Known
<1> SUFFICES ASSUME Init PROVE SequenceSums /\ Known
  OBVIOUS
<1>1. \A k : OfSensors(k) = [s \in {} |-> 0]
  BY DEF Init, OfSensors
<1>2. SumFunction([s \in {} |-> 0]) = 0
  BY SumEmpty DEF SumFunction
<1>3. ASSUME NEW f, DOMAIN f = Workers, \A w \in Workers : f[w] = 0 PROVE SumFunction(f) = 0
  BY <1>3, SumZero, ProcessorAssumption DEF SumFunction
<1>4. /\ \A w \in Workers : Pending[w] = 0
      /\ \A w \in Workers : OfWorkers("duplicates")[w] = 0 /\ OfWorkers("outOfOrder")[w] = 0
  BY FreeType DEF Init, Pending, OfWorkers, NoResult, Counters
<1>5. DOMAIN Pending = Workers /\ \A k : DOMAIN OfWorkers(k) = Workers
  BY DEF Pending, OfWorkers
<1>6. FoundDup = {} /\ FoundLate = {} /\ Cardinality({}) = 0
  BY FreeType, FS_EmptySet DEF Init, FoundDup, FoundLate, NoResult
<1>7. /\ SumFunction(Pending) = 0
      /\ SumFunction(OfWorkers("duplicates")) = 0 /\ SumFunction(OfWorkers("outOfOrder")) = 0
  BY <1>3, <1>4, <1>5
<1> QED BY <1>1, <1>2, <1>6, <1>7, KnownInit DEF SequenceSums

LEMMA SequenceStep == TypeInv /\ TypeInv' /\ Known /\ SequenceSums /\ [Next]_vars => SequenceSums'
<1> SUFFICES ASSUME TypeInv, TypeInv', Known, SequenceSums, [Next]_vars PROVE SequenceSums'
  OBVIOUS
<1>0. /\ IsFiniteSet(FoundDup) /\ IsFiniteSet(FoundLate)
      /\ DOMAIN Pending = Workers /\ DOMAIN Pending' = Workers
      /\ \A k : DOMAIN OfWorkers(k) = Workers /\ DOMAIN OfWorkers(k)' = Workers
  BY FS_Subset, ProcessorAssumption DEF FoundDup, FoundLate, Pending, OfWorkers
<1>1. CASE \A w \in Workers : ~ (\/ UpdateStore(w) \/ CountSequence(w)
                                 \/ Validate(w) \/ RecordFailure(w))
  <2>1. UNCHANGED <<sensors, counts>> /\ \A w \in Workers : worker'[w].result = worker[w].result
    BY <1>1, CountersQuiet
  <2>2. UNCHANGED <<Pending, FoundDup, FoundLate>> /\ \A k : OfWorkers(k)' = OfWorkers(k)
    BY <2>1 DEF Pending, FoundDup, FoundLate, OfWorkers
  <2>3. \A k : OfSensors(k)' = OfSensors(k)
    BY <2>1 DEF OfSensors
  <2> QED BY <2>2, <2>3 DEF SequenceSums
<1>2. ASSUME NEW w \in Workers, UpdateStore(w) PROVE SequenceSums'
  <2> DEFINE r == ResultOf(worker[w].msg)
  <2>1. /\ worker[w].result = NoResult /\ worker'[w].result = r /\ counts' = counts
        /\ \A v \in Workers \ {w} : worker'[v] = worker[v]
    BY <1>2, UpdateFields, WorkerMoves DEF WorkerStep
  <2>2. /\ r \in Results
        /\ SumFunction(OfSensors("droppedCount")')
             = SumFunction(OfSensors("droppedCount")) + r.dropped
        /\ SumFunction(OfSensors("duplicateCount")')
             = SumFunction(OfSensors("duplicateCount")) + (IF r.duplicate THEN 1 ELSE 0)
        /\ SumFunction(OfSensors("outOfOrderCount")')
             = SumFunction(OfSensors("outOfOrderCount")) + (IF r.outOfOrder THEN 1 ELSE 0)
    BY <1>2, UpdateSums
  <2> HIDE DEF r
  <2>3. r.dropped \in Int /\ r.duplicate \in BOOLEAN /\ r.outOfOrder \in BOOLEAN
    BY <2>2 DEF Results
  <2>4. SumFunction(Pending') = SumFunction(Pending) + r.dropped /\ SumFunction(Pending) \in Int
    <3>1. /\ \A v \in Workers : Pending[v] \in Int /\ Pending'[v] \in Int
          /\ \A v \in Workers \ {w} : Pending'[v] = Pending[v]
      BY <2>1, WorkerTypes, WorkerTypesNext DEF WorkersTyped, Pending
    <3>2. Pending[w] = counts[w].dropped /\ Pending'[w] = counts[w].dropped + r.dropped
      BY <2>1, WorkerTypes, WorkerTypesNext DEF WorkersTyped, Pending, NoResult
    <3>3. /\ SumFunction(Pending) \in Int
          /\ SumFunction(Pending') = SumFunction(Pending) + Pending'[w] - Pending[w]
      BY <1>0, <3>1, WorkerSum
    <3>4. counts[w].dropped \in Int
      BY WorkerTypes DEF WorkersTyped
    <3> QED BY <2>3, <3>2, <3>3, <3>4
  <2>5. /\ Cardinality(FoundDup) \in Nat
        /\ Cardinality(FoundDup') = Cardinality(FoundDup) + (IF r.duplicate THEN 1 ELSE 0)
    <3>1. w \notin FoundDup /\ (w \in FoundDup' <=> r.duplicate)
          /\ FoundDup \ {w} = FoundDup' \ {w}
      BY <2>1 DEF FoundDup, NoResult
    <3> QED BY <1>0, <3>1, CountChange
  <2>6. /\ Cardinality(FoundLate) \in Nat
        /\ Cardinality(FoundLate') = Cardinality(FoundLate) + (IF r.outOfOrder THEN 1 ELSE 0)
    <3>1. w \notin FoundLate /\ (w \in FoundLate' <=> r.outOfOrder)
          /\ FoundLate \ {w} = FoundLate' \ {w}
      BY <2>1 DEF FoundLate, NoResult
    <3> QED BY <1>0, <3>1, CountChange
  <2>7. \A k : OfWorkers(k)' = OfWorkers(k)
    BY <2>1 DEF OfWorkers
  <2>8. \A k \in Counters : SumFunction(OfWorkers(k)) \in Int
    <3>1. \A k \in Counters : \A v \in Workers : OfWorkers(k)[v] \in Int
      BY WorkerTypes, WorkerTypesNext DEF WorkersTyped, OfWorkers
    <3> QED BY <1>0, <3>1, WorkerSum
  <2>9. SumFunction(OfWorkers("duplicates")) \in Int /\ SumFunction(OfWorkers("outOfOrder")) \in Int
    BY <2>8 DEF Counters
  <2>10. SumFunction(Pending') = SumFunction(OfSensors("droppedCount")')
    BY <2>2, <2>4 DEF SequenceSums
  <2>11. SumFunction(OfWorkers("duplicates")') + Cardinality(FoundDup')
           = SumFunction(OfSensors("duplicateCount")')
    BY <2>2, <2>3, <2>5, <2>7, <2>9 DEF SequenceSums
  <2>12. SumFunction(OfWorkers("outOfOrder")') + Cardinality(FoundLate')
           = SumFunction(OfSensors("outOfOrderCount")')
    BY <2>2, <2>3, <2>6, <2>7, <2>9 DEF SequenceSums
  <2> QED BY <2>10, <2>11, <2>12 DEF SequenceSums
<1>3. ASSUME NEW w \in Workers, CountSequence(w) PROVE SequenceSums'
  <2> DEFINE r == worker[w].result
             n == counts[w]
  <2>1. /\ worker'[w].result = NoResult /\ sensors' = sensors
        /\ \A v \in Workers \ {w} : worker'[v] = worker[v] /\ counts'[v] = counts[v]
        /\ counts'[w] = Added(n, r)
    <3>1. counts \in [Workers -> [Counters -> Nat]]
      BY TypeParts DEF TypeInv, PoolType
    <3> QED BY <1>3, <3>1, CountFields, WorkerMoves DEF WorkerStep
  <2>2. /\ r \in Results /\ n \in [Counters -> Nat]
        /\ r.dropped \in Nat /\ r.duplicate \in BOOLEAN /\ r.outOfOrder \in BOOLEAN
        /\ n.dropped \in Nat /\ n.duplicates \in Nat /\ n.outOfOrder \in Nat
    <3>1. n \in [Counters -> Nat]
      BY TypeParts DEF TypeInv, PoolType
    <3> QED BY <3>1, WorkerTypes, WorkerTypesNext DEF WorkersTyped, Counters
  <2>3. /\ counts'[w].dropped = n.dropped + r.dropped
        /\ counts'[w].duplicates = n.duplicates + (IF r.duplicate THEN 1 ELSE 0)
        /\ counts'[w].outOfOrder = n.outOfOrder + (IF r.outOfOrder THEN 1 ELSE 0)
    BY <2>1, <2>2, AddedFields
  <2>4. Pending' = Pending
    <3>1. \A v \in Workers : Pending'[v] = Pending[v]
      BY <2>1, <2>2, <2>3 DEF Pending, NoResult
    <3> QED BY <3>1 DEF Pending
  <2>5. /\ Cardinality(FoundDup) \in Nat
        /\ Cardinality(FoundDup') = Cardinality(FoundDup) - (IF r.duplicate THEN 1 ELSE 0)
    <3>1. w \notin FoundDup' /\ (w \in FoundDup <=> r.duplicate)
          /\ FoundDup \ {w} = FoundDup' \ {w}
      BY <2>1 DEF FoundDup, NoResult
    <3> QED BY <1>0, <3>1, CountChange
  <2>6. /\ Cardinality(FoundLate) \in Nat
        /\ Cardinality(FoundLate') = Cardinality(FoundLate) - (IF r.outOfOrder THEN 1 ELSE 0)
    <3>1. w \notin FoundLate' /\ (w \in FoundLate <=> r.outOfOrder)
          /\ FoundLate \ {w} = FoundLate' \ {w}
      BY <2>1 DEF FoundLate, NoResult
    <3> QED BY <1>0, <3>1, CountChange
  <2>7. ASSUME NEW k \in Counters
        PROVE  /\ SumFunction(OfWorkers(k)) \in Int
               /\ SumFunction(OfWorkers(k)')
                    = SumFunction(OfWorkers(k)) + counts'[w][k] - counts[w][k]
    <3>1. /\ \A v \in Workers : OfWorkers(k)[v] \in Int /\ (OfWorkers(k)')[v] \in Int
          /\ \A v \in Workers \ {w} : (OfWorkers(k)')[v] = OfWorkers(k)[v]
          /\ OfWorkers(k)[w] = counts[w][k] /\ (OfWorkers(k)')[w] = counts'[w][k]
      BY <2>1, WorkerTypes, WorkerTypesNext DEF WorkersTyped, OfWorkers
    <3> QED BY <1>0, <3>1, WorkerSum
  <2>8. /\ SumFunction(OfWorkers("duplicates")) \in Int
        /\ SumFunction(OfWorkers("duplicates")')
             = SumFunction(OfWorkers("duplicates")) + counts'[w].duplicates - n.duplicates
        /\ SumFunction(OfWorkers("outOfOrder")) \in Int
        /\ SumFunction(OfWorkers("outOfOrder")')
             = SumFunction(OfWorkers("outOfOrder")) + counts'[w].outOfOrder - n.outOfOrder
    BY <2>7 DEF Counters
  <2>9. \A k : OfSensors(k)' = OfSensors(k)
    BY <2>1 DEF OfSensors
  <2> HIDE DEF r, n
  <2>10. SumFunction(OfWorkers("duplicates")') + Cardinality(FoundDup')
           = SumFunction(OfWorkers("duplicates")) + Cardinality(FoundDup)
    BY <2>2, <2>3, <2>5, <2>8
  <2>11. SumFunction(OfWorkers("outOfOrder")') + Cardinality(FoundLate')
           = SumFunction(OfWorkers("outOfOrder")) + Cardinality(FoundLate)
    BY <2>2, <2>3, <2>6, <2>8
  <2> QED BY <2>4, <2>9, <2>10, <2>11 DEF SequenceSums
<1>4. ASSUME NEW w \in Workers, Validate(w) PROVE SequenceSums'
  <2> DEFINE n == counts[w]
             outcome == worker[w].msg.outcome
  <2>1. /\ counts'[w] = WithOutcome(n, outcome) /\ sensors' = sensors
        /\ \A v \in Workers \ {w} : worker'[v] = worker[v] /\ counts'[v] = counts[v]
        /\ worker'[w].result = worker[w].result
        /\ n \in [Counters -> Nat] /\ outcome \in Outcomes
    <3>1. counts \in [Workers -> [Counters -> Nat]]
      BY TypeParts DEF TypeInv, PoolType
    <3> QED BY <1>4, <3>1, ValidateFields, WorkerMoves, ProcessorAssumption DEF WorkerStep
  <2>2. /\ counts'[w].dropped = n.dropped /\ counts'[w].duplicates = n.duplicates
        /\ counts'[w].outOfOrder = n.outOfOrder
    BY <2>1, WithOutcomeFields
  <2>3. /\ \A v \in Workers : worker'[v].result = worker[v].result
        /\ \A v \in Workers : /\ counts'[v].dropped = counts[v].dropped
                              /\ counts'[v].duplicates = counts[v].duplicates
                              /\ counts'[v].outOfOrder = counts[v].outOfOrder
    BY <2>1, <2>2
  <2>4. UNCHANGED <<Pending, FoundDup, FoundLate>>
        /\ OfWorkers("duplicates")' = OfWorkers("duplicates")
        /\ OfWorkers("outOfOrder")' = OfWorkers("outOfOrder")
    BY <2>3 DEF Pending, FoundDup, FoundLate, OfWorkers
  <2>5. \A k : OfSensors(k)' = OfSensors(k)
    BY <2>1 DEF OfSensors
  <2> QED BY <2>4, <2>5 DEF SequenceSums
<1>5. ASSUME NEW w \in Workers, RecordFailure(w) PROVE SequenceSums'
  <2> DEFINE s == worker[w].msg.sensor
  <2>1. /\ counts' = counts /\ worker'[w].result = worker[w].result
        /\ \A v \in Workers \ {w} : worker'[v] = worker[v]
    BY <1>5, RecordFields, WorkerMoves DEF WorkerStep
  <2>2. /\ DOMAIN sensors' = DOMAIN sensors
        /\ \A x \in DOMAIN sensors \ {s} : sensors'[x] = sensors[x]
        /\ s \in DOMAIN sensors =>
              sensors'[s] \in {WithAnomaly(sensors[s]), WithError(sensors[s])}
    BY <1>5 DEF RecordFailure
  <2>3. s \in DOMAIN sensors => sensors[s] \in Entry
    BY TypeParts DEF TypeInv, PoolType
  <2>4. \A x \in DOMAIN sensors :
           /\ sensors'[x].droppedCount = sensors[x].droppedCount
           /\ sensors'[x].duplicateCount = sensors[x].duplicateCount
           /\ sensors'[x].outOfOrderCount = sensors[x].outOfOrderCount
    BY <2>2, <2>3, FailureFields
  <2>5. /\ OfSensors("droppedCount")' = OfSensors("droppedCount")
        /\ OfSensors("duplicateCount")' = OfSensors("duplicateCount")
        /\ OfSensors("outOfOrderCount")' = OfSensors("outOfOrderCount")
    BY <2>2, <2>4 DEF OfSensors
  <2>6. UNCHANGED <<Pending, FoundDup, FoundLate>> /\ \A k : OfWorkers(k)' = OfWorkers(k)
    BY <2>1 DEF Pending, FoundDup, FoundLate, OfWorkers
  <2> QED BY <2>5, <2>6 DEF SequenceSums
<1> QED BY <1>1, <1>2, <1>3, <1>4, <1>5

\* The drops, duplicates and late messages that the workers have counted agree
\* with those of the sensors, but for what is found and not counted yet.
THEOREM SequenceCountsAgreeCorrect == Spec => []SequenceCountsAgree
<1>1. Init => TypeInv /\ Known /\ SequenceSums
  BY TypeInit, SequenceInit
<1>2. TypeInv /\ Known /\ SequenceSums /\ [Next]_vars => (TypeInv /\ Known /\ SequenceSums)'
  BY TypeStep, KnownStep, SequenceStep
<1> QED BY <1>1, <1>2, SequenceSumsAgree, PTL DEF Spec

\* The workers whose message has reached the store and has no outcome yet, and
\* those whose failure the store does not know yet.
InHand == {w \in Workers : worker[w].pc \in {"counting", "validating"}
                           /\ worker[w].msg.outcome \in Outcomes}
Failing(outcome) == {w \in Workers : worker[w].pc \in {"recording"}
                                     /\ worker[w].msg.outcome \in {outcome}}

OutcomeSums ==
    /\ SumFunction(OfSensors("messageCount")) = SumFunction(HandledBy) + Cardinality(InHand)
    /\ SumFunction(OfWorkers("errors"))
         = SumFunction(OfSensors("errorCount")) + Cardinality(Failing("error"))
    /\ SumFunction(OfWorkers("anomalies"))
         = SumFunction(OfSensors("anomalyCount")) + Cardinality(Failing("anomaly"))

\* The sums of the proofs are those of the property.
LEMMA OutcomeSumsAgree == OutcomeSums <=> OutcomesAgree
<1>1. /\ OfSensors("messageCount") = [s \in DOMAIN sensors |-> sensors[s].messageCount]
      /\ OfSensors("errorCount") = [s \in DOMAIN sensors |-> sensors[s].errorCount]
      /\ OfSensors("anomalyCount") = [s \in DOMAIN sensors |-> sensors[s].anomalyCount]
      /\ OfWorkers("errors") = [w \in Workers |-> counts[w].errors]
      /\ OfWorkers("anomalies") = [w \in Workers |-> counts[w].anomalies]
  BY DEF OfSensors, OfWorkers
<1> QED BY <1>1, Zenon DEF OutcomeSums, OutcomesAgree, At, HandledBy, InHand, Failing

\* The same for the outcomes: what a worker still holds is the difference.
LEMMA OutcomeInit == Init => OutcomeSums
<1> SUFFICES ASSUME Init PROVE OutcomeSums
  OBVIOUS
<1>1. \A k : OfSensors(k) = [s \in {} |-> 0]
  BY DEF Init, OfSensors
<1>2. SumFunction([s \in {} |-> 0]) = 0
  BY SumEmpty DEF SumFunction
<1>3. ASSUME NEW f, DOMAIN f = Workers, \A w \in Workers : f[w] = 0 PROVE SumFunction(f) = 0
  BY <1>3, SumZero, ProcessorAssumption DEF SumFunction
<1>4. /\ \A w \in Workers : HandledBy[w] = 0
      /\ \A w \in Workers : OfWorkers("errors")[w] = 0 /\ OfWorkers("anomalies")[w] = 0
  BY DEF Init, HandledBy, OfWorkers, Counters
<1>5. DOMAIN HandledBy = Workers /\ \A k : DOMAIN OfWorkers(k) = Workers
  BY DEF HandledBy, OfWorkers
<1>6. InHand = {} /\ (\A outcome : Failing(outcome) = {}) /\ Cardinality({}) = 0
  <2>1. \A w \in Workers : worker[w].pc = "absent"
    BY DEF Init, Free
  <2>2. InHand = {} /\ \A outcome : Failing(outcome) = {}
    BY <2>1 DEF InHand, Failing
  <2> QED BY <2>2, FS_EmptySet
<1>7. /\ SumFunction(HandledBy) = 0
      /\ SumFunction(OfWorkers("errors")) = 0 /\ SumFunction(OfWorkers("anomalies")) = 0
  BY <1>3, <1>4, <1>5
<1>8. /\ \A k : SumFunction(OfSensors(k)) = 0
      /\ Cardinality(InHand) = 0 /\ \A outcome : Cardinality(Failing(outcome)) = 0
  BY <1>1, <1>2, <1>6, Zenon
<1> QED BY <1>7, <1>8 DEF OutcomeSums

LEMMA OutcomeStep == TypeInv /\ TypeInv' /\ Known /\ OutcomeSums /\ [Next]_vars => OutcomeSums'
<1> SUFFICES ASSUME TypeInv, TypeInv', Known, OutcomeSums, [Next]_vars PROVE OutcomeSums'
  OBVIOUS
<1>0. /\ IsFiniteSet(InHand) /\ \A outcome : IsFiniteSet(Failing(outcome))
      /\ DOMAIN HandledBy = Workers /\ DOMAIN HandledBy' = Workers
      /\ \A k : DOMAIN OfWorkers(k) = Workers /\ DOMAIN OfWorkers(k)' = Workers
  BY FS_Subset, ProcessorAssumption DEF InHand, Failing, HandledBy, OfWorkers
<1>a. /\ Cardinality(InHand) \in Nat /\ \A outcome : Cardinality(Failing(outcome)) \in Nat
  BY <1>0, FS_CardinalityType
<1>1. CASE \A w \in Workers : ~ (\/ UpdateStore(w) \/ CountSequence(w)
                                 \/ Validate(w) \/ RecordFailure(w))
  <2>1. /\ UNCHANGED <<sensors, counts>>
        /\ \A w \in Workers : \/ worker'[w] = worker[w]
                              \/ /\ worker'[w].pc \notin CountingPcs
                                 /\ worker[w].pc \notin CountingPcs
    BY <1>1, CountersQuiet
  <2>2. UNCHANGED InHand /\ \A outcome : Failing(outcome)' = Failing(outcome)
    BY <2>1 DEF InHand, Failing, CountingPcs
  <2>3. /\ HandledBy' = HandledBy /\ \A k : OfWorkers(k)' = OfWorkers(k)
        /\ \A k : OfSensors(k)' = OfSensors(k)
    BY <2>1 DEF HandledBy, OfWorkers, OfSensors
  <2> QED BY <2>2, <2>3 DEF OutcomeSums
<1>2. ASSUME NEW w \in Workers, UpdateStore(w) PROVE OutcomeSums'
  <2>1. /\ counts' = counts /\ worker[w].pc = "updating" /\ worker'[w].pc = "counting"
        /\ worker'[w].msg.outcome \in Outcomes
        /\ \A v \in Workers \ {w} : worker'[v] = worker[v]
    BY <1>2, UpdateFields, WorkerMoves, ProcessorAssumption DEF WorkerStep
  <2>2. Cardinality(InHand') = Cardinality(InHand) + 1
    <3>1. w \notin InHand /\ w \in InHand' /\ InHand \ {w} = InHand' \ {w}
      BY <2>1 DEF InHand
    <3> QED BY <1>0, <3>1, CountChange
  <2>3. /\ \A outcome : Failing(outcome)' = Failing(outcome)
        /\ HandledBy' = HandledBy /\ \A k : OfWorkers(k)' = OfWorkers(k)
    BY <2>1 DEF Failing, HandledBy, OfWorkers
  <2>4. /\ SumFunction(OfSensors("messageCount")')
             = SumFunction(OfSensors("messageCount")) + 1
        /\ SumFunction(OfSensors("errorCount")') = SumFunction(OfSensors("errorCount"))
        /\ SumFunction(OfSensors("anomalyCount")') = SumFunction(OfSensors("anomalyCount"))
    BY <1>2, UpdateSums
  <2>5. SumFunction(HandledBy) \in Int
    <3>1. \A v \in Workers : HandledBy[v] \in Int
      BY WorkerTypes DEF WorkersTyped
    <3> QED BY <1>0, <3>1, WorkerSum
  <2>6. SumFunction(OfSensors("messageCount")') = SumFunction(HandledBy') + Cardinality(InHand')
    BY <1>a, <2>2, <2>3, <2>4, <2>5 DEF OutcomeSums
  <2> QED BY <2>3, <2>4, <2>6 DEF OutcomeSums
<1>3. ASSUME NEW w \in Workers, CountSequence(w) PROVE OutcomeSums'
  <2> DEFINE r == worker[w].result
             n == counts[w]
  <2>1. /\ worker[w].pc = "counting" /\ worker'[w].pc = "validating"
        /\ worker'[w].msg = worker[w].msg /\ sensors' = sensors
        /\ \A v \in Workers \ {w} : worker'[v] = worker[v] /\ counts'[v] = counts[v]
        /\ counts'[w] = Added(n, r)
    <3>1. counts \in [Workers -> [Counters -> Nat]]
      BY TypeParts DEF TypeInv, PoolType
    <3> QED BY <1>3, <3>1, CountFields, WorkerMoves DEF WorkerStep
  <2>2. r \in Results /\ n \in [Counters -> Nat]
    BY WorkerTypes, TypeParts DEF WorkersTyped, TypeInv, PoolType
  <2>3. /\ counts'[w].processed = n.processed /\ counts'[w].errors = n.errors
        /\ counts'[w].anomalies = n.anomalies
    BY <2>1, <2>2, AddedFields
  <2>4. \A v \in Workers : /\ counts'[v].processed = counts[v].processed
                           /\ counts'[v].errors = counts[v].errors
                           /\ counts'[v].anomalies = counts[v].anomalies
    BY <2>1, <2>3
  <2>5. /\ HandledBy' = HandledBy /\ OfWorkers("errors")' = OfWorkers("errors")
        /\ OfWorkers("anomalies")' = OfWorkers("anomalies")
    BY <2>4 DEF HandledBy, OfWorkers
  <2>6. UNCHANGED InHand /\ \A outcome : Failing(outcome)' = Failing(outcome)
    BY <2>1 DEF InHand, Failing
  <2>7. \A k : OfSensors(k)' = OfSensors(k)
    BY <2>1 DEF OfSensors
  <2> QED BY <2>5, <2>6, <2>7 DEF OutcomeSums
<1>4. ASSUME NEW w \in Workers, Validate(w) PROVE OutcomeSums'
  <2> DEFINE n == counts[w]
             outcome == worker[w].msg.outcome
             one(o) == IF outcome = o THEN 1 ELSE 0
  <2>1. /\ worker[w].pc = "validating" /\ worker'[w].msg = worker[w].msg
        /\ worker'[w].pc = IF outcome = "sound" THEN "leaving" ELSE "recording"
        /\ counts'[w] = WithOutcome(n, outcome) /\ sensors' = sensors
        /\ \A v \in Workers \ {w} : worker'[v] = worker[v] /\ counts'[v] = counts[v]
        /\ n \in [Counters -> Nat] /\ outcome \in Outcomes
    <3>1. counts \in [Workers -> [Counters -> Nat]]
      BY TypeParts DEF TypeInv, PoolType
    <3> QED BY <1>4, <3>1, ValidateFields, WorkerMoves, ProcessorAssumption DEF WorkerStep
  <2>2. /\ counts'[w].processed = n.processed + one("sound")
        /\ counts'[w].errors = n.errors + one("error")
        /\ counts'[w].anomalies = n.anomalies + one("anomaly")
    BY <2>1, WithOutcomeFields
  <2>3. one("sound") + one("error") + one("anomaly") = 1 /\ \A o : one(o) \in {0, 1}
    BY <2>1 DEF Outcomes
  <2>4. n.processed \in Nat /\ n.errors \in Nat /\ n.anomalies \in Nat
    BY <2>1 DEF Counters
  <2>5. Cardinality(InHand') = Cardinality(InHand) - 1
    <3>1. w \in InHand /\ w \notin InHand' /\ InHand \ {w} = InHand' \ {w}
      BY <2>1 DEF InHand
    <3> QED BY <1>0, <3>1, CountChange
  <2>6. ASSUME NEW o \in {"error", "anomaly"}
        PROVE  Cardinality(Failing(o)') = Cardinality(Failing(o)) + one(o)
    <3>1. /\ w \notin Failing(o) /\ (w \in Failing(o)' <=> outcome = o)
          /\ Failing(o) \ {w} = Failing(o)' \ {w}
      BY <2>1 DEF Failing
    <3>2. /\ outcome = o => Cardinality(Failing(o)') = Cardinality(Failing(o)) + 1
          /\ outcome # o => Cardinality(Failing(o)') = Cardinality(Failing(o))
      BY <1>0, <3>1, CountChange
    <3> QED BY <1>a, <3>2
  <2>7. SumFunction(HandledBy) \in Int /\ SumFunction(HandledBy') = SumFunction(HandledBy) + 1
    <3>1. /\ \A v \in Workers : HandledBy[v] \in Int /\ HandledBy'[v] \in Int
          /\ \A v \in Workers \ {w} : HandledBy'[v] = HandledBy[v]
      BY <2>1, WorkerTypes, WorkerTypesNext DEF WorkersTyped, HandledBy
    <3>2. /\ HandledBy[w] = n.processed + n.errors + n.anomalies
          /\ HandledBy'[w] = (n.processed + one("sound")) + (n.errors + one("error"))
                             + (n.anomalies + one("anomaly"))
      BY <2>2 DEF HandledBy
    <3>3. /\ SumFunction(HandledBy) \in Int
          /\ SumFunction(HandledBy') = SumFunction(HandledBy) + HandledBy'[w] - HandledBy[w]
      BY <1>0, <3>1, WorkerSum
    <3> HIDE DEF one
    <3>4. HandledBy'[w] = HandledBy[w] + 1 /\ HandledBy[w] \in Int
      BY <2>3, <2>4, <3>2
    <3> QED BY <3>3, <3>4
  <2>8. ASSUME NEW k \in Counters
        PROVE  /\ SumFunction(OfWorkers(k)) \in Int
               /\ SumFunction(OfWorkers(k)')
                    = SumFunction(OfWorkers(k)) + counts'[w][k] - counts[w][k]
    <3>1. /\ \A v \in Workers : OfWorkers(k)[v] \in Int /\ (OfWorkers(k)')[v] \in Int
          /\ \A v \in Workers \ {w} : (OfWorkers(k)')[v] = OfWorkers(k)[v]
          /\ OfWorkers(k)[w] = counts[w][k] /\ (OfWorkers(k)')[w] = counts'[w][k]
      BY <2>1, WorkerTypes, WorkerTypesNext DEF WorkersTyped, OfWorkers
    <3> QED BY <1>0, <3>1, WorkerSum
  <2>9. /\ SumFunction(OfWorkers("errors")) \in Int
        /\ SumFunction(OfWorkers("errors")')
             = SumFunction(OfWorkers("errors")) + counts'[w].errors - n.errors
        /\ SumFunction(OfWorkers("anomalies")) \in Int
        /\ SumFunction(OfWorkers("anomalies")')
             = SumFunction(OfWorkers("anomalies")) + counts'[w].anomalies - n.anomalies
    BY <2>8 DEF Counters
  <2>10. \A k : OfSensors(k)' = OfSensors(k)
    BY <2>1 DEF OfSensors
  <2>11. \A k \in SensorCounters : SumFunction(OfSensors(k)) \in Int
    <3>1. ASSUME NEW k \in SensorCounters
          PROVE  /\ DOMAIN OfSensors(k) = DOMAIN sensors
                 /\ \A s \in DOMAIN sensors : OfSensors(k)[s] \in Int
      BY CounterTypes, TypeParts DEF TypeInv, PoolType, OfSensors
    <3> QED BY <3>1, SumType DEF SumFunction, Known
  <2>12. /\ SumFunction(OfSensors("errorCount")) \in Int
         /\ SumFunction(OfSensors("anomalyCount")) \in Int
    BY <2>11 DEF SensorCounters
  <2> HIDE DEF one, n, outcome
  <2>13. SumFunction(OfSensors("messageCount")') = SumFunction(HandledBy') + Cardinality(InHand')
    BY <1>a, <2>5, <2>7, <2>10 DEF OutcomeSums
  <2>14. SumFunction(OfWorkers("errors")')
           = SumFunction(OfSensors("errorCount")') + Cardinality(Failing("error")')
    <3>1. Cardinality(Failing("error")') = Cardinality(Failing("error")) + one("error")
      BY <2>6
    <3>2. SumFunction(OfWorkers("errors")') = SumFunction(OfWorkers("errors")) + one("error")
      BY <2>2, <2>3, <2>4, <2>9
    <3>3. SumFunction(OfWorkers("errors"))
            = SumFunction(OfSensors("errorCount")) + Cardinality(Failing("error"))
      BY DEF OutcomeSums
    <3> QED BY <1>a, <2>3, <2>10, <2>12, <3>1, <3>2, <3>3
  <2>15. SumFunction(OfWorkers("anomalies")')
           = SumFunction(OfSensors("anomalyCount")') + Cardinality(Failing("anomaly")')
    <3>1. Cardinality(Failing("anomaly")') = Cardinality(Failing("anomaly")) + one("anomaly")
      BY <2>6
    <3>2. SumFunction(OfWorkers("anomalies")')
            = SumFunction(OfWorkers("anomalies")) + one("anomaly")
      BY <2>2, <2>3, <2>4, <2>9
    <3>3. SumFunction(OfWorkers("anomalies"))
            = SumFunction(OfSensors("anomalyCount")) + Cardinality(Failing("anomaly"))
      BY DEF OutcomeSums
    <3> QED BY <1>a, <2>3, <2>10, <2>12, <3>1, <3>2, <3>3
  <2> QED BY <2>13, <2>14, <2>15 DEF OutcomeSums
<1>5. ASSUME NEW w \in Workers, RecordFailure(w) PROVE OutcomeSums'
  <2> DEFINE m == worker[w].msg
             s == m.sensor
             one(o) == IF m.outcome = o THEN 1 ELSE 0
  <2>1. /\ worker[w].pc = "recording" /\ worker'[w].pc = "leaving"
        /\ worker'[w].msg = m /\ counts' = counts
        /\ \A v \in Workers \ {w} : worker'[v] = worker[v]
    BY <1>5, RecordFields, WorkerMoves DEF WorkerStep
  <2>2. s \in DOMAIN sensors /\ m.outcome \in {"anomaly", "error"}
    BY <2>1 DEF Known
  <2>3. /\ DOMAIN sensors' = DOMAIN sensors
        /\ \A x \in DOMAIN sensors \ {s} : sensors'[x] = sensors[x]
        /\ sensors'[s] = IF m.outcome = "anomaly" THEN WithAnomaly(sensors[s])
                                                  ELSE WithError(sensors[s])
    BY <1>5, <2>2 DEF RecordFailure
  <2>4. sensors[s] \in Entry
    BY <2>2, TypeParts DEF TypeInv, PoolType
  <2>5. /\ sensors[s].errorCount \in Nat /\ sensors[s].anomalyCount \in Nat
    BY <2>4 DEF Entry
  <2>6. /\ sensors'[s].messageCount = sensors[s].messageCount
        /\ sensors'[s].errorCount = sensors[s].errorCount + one("error")
        /\ sensors'[s].anomalyCount = sensors[s].anomalyCount + one("anomaly")
    <3>1. CASE m.outcome = "anomaly"
      BY <2>3, <2>4, <2>5, <3>1, FailureFields
    <3>2. CASE m.outcome = "error"
      BY <2>3, <2>4, <2>5, <3>2, FailureFields
    <3> QED BY <2>2, <3>1, <3>2
  <2>7. OfSensors("messageCount")' = OfSensors("messageCount")
    BY <2>3, <2>6 DEF OfSensors
  <2>8. ASSUME NEW k \in SensorCounters
        PROVE  /\ SumFunction(OfSensors(k)) \in Int
               /\ SumFunction(OfSensors(k)')
                    = SumFunction(OfSensors(k)) + sensors'[s][k] - sensors[s][k]
    <3>1. DOMAIN sensors' = DOMAIN sensors \cup {s}
      BY <2>2, <2>3
    <3> HIDE DEF s
    <3> QED BY <2>2, <2>3, <3>1, SensorSums
  <2>9. ASSUME NEW o \in {"error", "anomaly"}
        PROVE  Cardinality(Failing(o)') = Cardinality(Failing(o)) - one(o)
    <3>1. /\ w \notin Failing(o)' /\ (w \in Failing(o) <=> m.outcome = o)
          /\ Failing(o) \ {w} = Failing(o)' \ {w}
      BY <2>1 DEF Failing
    <3>2. /\ m.outcome = o => Cardinality(Failing(o)') = Cardinality(Failing(o)) - 1
          /\ m.outcome # o => Cardinality(Failing(o)') = Cardinality(Failing(o))
      BY <1>0, <3>1, CountChange
    <3> QED BY <1>a, <3>2
  <2>10. UNCHANGED InHand
    BY <2>1 DEF InHand
  <2>11. HandledBy' = HandledBy /\ \A k : OfWorkers(k)' = OfWorkers(k)
    BY <2>1 DEF HandledBy, OfWorkers
  <2>12. \A o : one(o) \in Int
    OBVIOUS
  <2>13. /\ SumFunction(OfSensors("errorCount")) \in Int
         /\ SumFunction(OfSensors("errorCount")')
              = SumFunction(OfSensors("errorCount")) + sensors'[s].errorCount
                - sensors[s].errorCount
         /\ SumFunction(OfSensors("anomalyCount")) \in Int
         /\ SumFunction(OfSensors("anomalyCount")')
              = SumFunction(OfSensors("anomalyCount")) + sensors'[s].anomalyCount
                - sensors[s].anomalyCount
    BY <2>8 DEF SensorCounters
  <2> HIDE DEF one, s, m
  <2>14. SumFunction(OfWorkers("errors")')
           = SumFunction(OfSensors("errorCount")') + Cardinality(Failing("error")')
    <3>1. Cardinality(Failing("error")') = Cardinality(Failing("error")) - one("error")
      BY <2>9
    <3>2. SumFunction(OfSensors("errorCount")')
            = SumFunction(OfSensors("errorCount")) + one("error")
      BY <2>5, <2>6, <2>12, <2>13
    <3>3. SumFunction(OfWorkers("errors"))
            = SumFunction(OfSensors("errorCount")) + Cardinality(Failing("error"))
      BY DEF OutcomeSums
    <3> QED BY <1>a, <2>11, <2>12, <2>13, <3>1, <3>2, <3>3
  <2>15. SumFunction(OfWorkers("anomalies")')
           = SumFunction(OfSensors("anomalyCount")') + Cardinality(Failing("anomaly")')
    <3>1. Cardinality(Failing("anomaly")') = Cardinality(Failing("anomaly")) - one("anomaly")
      BY <2>9
    <3>2. SumFunction(OfSensors("anomalyCount")')
            = SumFunction(OfSensors("anomalyCount")) + one("anomaly")
      BY <2>5, <2>6, <2>12, <2>13
    <3>3. SumFunction(OfWorkers("anomalies"))
            = SumFunction(OfSensors("anomalyCount")) + Cardinality(Failing("anomaly"))
      BY DEF OutcomeSums
    <3> QED BY <1>a, <2>11, <2>12, <2>13, <3>1, <3>2, <3>3
  <2> QED BY <2>7, <2>10, <2>11, <2>14, <2>15 DEF OutcomeSums
<1> QED BY <1>1, <1>2, <1>3, <1>4, <1>5

\* Every message that the store has counted has one outcome or is in hand, and
\* the store's errors and anomalies follow those of the workers.
THEOREM OutcomesAgreeCorrect == Spec => []OutcomesAgree
<1>1. Init => TypeInv /\ Known /\ OutcomeSums
  BY TypeInit, KnownInit, OutcomeInit
<1>2. TypeInv /\ Known /\ OutcomeSums /\ [Next]_vars => (TypeInv /\ Known /\ OutcomeSums)'
  BY TypeStep, KnownStep, OutcomeStep
<1> QED BY <1>1, <1>2, OutcomeSumsAgree, PTL DEF Spec

-----------------------------------------------------------------------------
(* What a reader sees (Statistics).                                         *)

\* The workers whose message has no outcome yet, and the callers between their send
\* and their count.
Unfinished == {w \in Workers : worker[w].pc \in {"updating", "counting", "validating"}}
Counting   == {c \in Enqueuers : caller[c].pc = "counting"}

\* Every message that was taken has an outcome, or is with a worker that has not come
\* to it.
OutcomesTaken == SumFunction(HandledBy) + Cardinality(Unfinished) = TakenCount

\* Every message that was sent is counted, or its caller is about to count it.
SentCounted == IsFiniteSet(Counting) /\ Len(accepted) = enqueued + Cardinality(Counting)

Sums == OutcomesTaken /\ SentCounted

\* A worker counts an outcome in Validate, and only there.
LEMMA ValidateSum ==
    ASSUME TypeInv, TypeInv', NEW w \in Workers, Validate(w)
    PROVE  SumFunction(HandledBy) \in Int /\ SumFunction(HandledBy') = SumFunction(HandledBy) + 1
<1> DEFINE n == counts[w]
           outcome == worker[w].msg.outcome
           one(o) == IF outcome = o THEN 1 ELSE 0
<1>1. /\ counts'[w] = WithOutcome(n, outcome)
      /\ \A v \in Workers \ {w} : counts'[v] = counts[v]
      /\ n \in [Counters -> Nat] /\ outcome \in Outcomes
  <2>1. counts \in [Workers -> [Counters -> Nat]]
    BY TypeParts DEF TypeInv, PoolType
  <2> QED BY <2>1, ValidateFields, ProcessorAssumption
<1>2. /\ counts'[w].processed = n.processed + one("sound")
      /\ counts'[w].errors = n.errors + one("error")
      /\ counts'[w].anomalies = n.anomalies + one("anomaly")
  BY <1>1, WithOutcomeFields
<1>3. one("sound") + one("error") + one("anomaly") = 1 /\ \A o : one(o) \in {0, 1}
  BY <1>1 DEF Outcomes
<1>4. n.processed \in Nat /\ n.errors \in Nat /\ n.anomalies \in Nat
  BY <1>1 DEF Counters
<1>5. /\ \A v \in Workers : HandledBy[v] \in Int /\ HandledBy'[v] \in Int
      /\ \A v \in Workers \ {w} : HandledBy'[v] = HandledBy[v]
      /\ DOMAIN HandledBy = Workers /\ DOMAIN HandledBy' = Workers
  BY <1>1, WorkerTypes, WorkerTypesNext DEF WorkersTyped, HandledBy
<1>6. /\ HandledBy[w] = n.processed + n.errors + n.anomalies
      /\ HandledBy'[w] = (n.processed + one("sound")) + (n.errors + one("error"))
                           + (n.anomalies + one("anomaly"))
  BY <1>2 DEF HandledBy
<1>7. /\ SumFunction(HandledBy) \in Int
      /\ SumFunction(HandledBy') = SumFunction(HandledBy) + HandledBy'[w] - HandledBy[w]
  BY <1>5, WorkerSum
<1> HIDE DEF one, n, outcome
<1>8. HandledBy'[w] = HandledBy[w] + 1 /\ HandledBy[w] \in Int
  BY <1>3, <1>4, <1>6
<1> QED BY <1>7, <1>8

LEMMA CountSame ==
    ASSUME TypeInv, NEW w \in Workers, CountSequence(w)
    PROVE  HandledBy' = HandledBy
<1>1. /\ counts' = [counts EXCEPT ![w] = Added(counts[w], worker[w].result)]
      /\ counts \in [Workers -> [Counters -> Nat]] /\ worker[w].result \in Results
  BY CountFields, TypeParts, WorkerTypes DEF TypeInv, PoolType, WorkersTyped
<1>2. /\ counts'[w].processed = counts[w].processed /\ counts'[w].errors = counts[w].errors
      /\ counts'[w].anomalies = counts[w].anomalies
  BY <1>1, AddedFields
<1>3. \A v \in Workers : /\ counts'[v].processed = counts[v].processed
                         /\ counts'[v].errors = counts[v].errors
                         /\ counts'[v].anomalies = counts[v].anomalies
  BY <1>1, <1>2
<1> QED BY <1>3 DEF HandledBy

\* The types of the two sides.
LEMMA SumTypes ==
    ASSUME TypeInv
    PROVE  /\ IsFiniteSet(Unfinished) /\ Cardinality(Unfinished) \in Nat
           /\ SumFunction(HandledBy) \in Int /\ TakenCount \in Int
<1>1. IsFiniteSet(Unfinished)
  BY FS_Subset, ProcessorAssumption DEF Unfinished
<1>2. SumFunction(HandledBy) \in Int
  <2>1. DOMAIN HandledBy = Workers /\ \A v \in Workers : HandledBy[v] \in Int
    BY WorkerTypes DEF WorkersTyped, HandledBy
  <2> QED BY <2>1, SumType, ProcessorAssumption DEF SumFunction
<1>3. TakenCount \in Int
  BY Lengths DEF TakenCount
<1> QED BY <1>1, <1>2, <1>3, FS_CardinalityType

\* The outcomes, and those to come, are as many as the messages taken.
LEMMA OutcomesTakenStep ==
    TypeInv /\ TypeInv' /\ Channel /\ OutcomesTaken /\ [Next]_vars => OutcomesTaken'
<1> SUFFICES ASSUME TypeInv, TypeInv', Channel, OutcomesTaken, [Next]_vars PROVE OutcomesTaken'
  OBVIOUS
<1>0. IsFiniteSet(Unfinished) /\ Cardinality(Unfinished) \in Nat
      /\ SumFunction(HandledBy) \in Int /\ TakenCount \in Int
  BY SumTypes
<1>1. ASSUME NEW w \in Workers, Take(w) PROVE OutcomesTaken'
  <2>1. TakenCount' = TakenCount + 1
    BY <1>1, TakeIsNext
  <2>2. /\ worker[w].pc = "selecting" /\ worker'[w].pc = "updating"
        /\ \A v \in Workers \ {w} : worker'[v] = worker[v]
        /\ counts' = counts
    BY <1>1, TakeFields, WorkerMoves DEF WorkerStep
  <2>3. Cardinality(Unfinished') = Cardinality(Unfinished) + 1
    <3>1. w \notin Unfinished /\ w \in Unfinished' /\ Unfinished \ {w} = Unfinished' \ {w}
      BY <2>2 DEF Unfinished
    <3> QED BY <1>0, <3>1, CountChange
  <2>4. HandledBy' = HandledBy
    BY <2>2 DEF HandledBy
  <2> QED BY <1>0, <2>1, <2>3, <2>4 DEF OutcomesTaken
<1>2. ASSUME NEW w \in Workers, Validate(w) PROVE OutcomesTaken'
  <2>1. UNCHANGED <<queue, accepted>>
    BY <1>2, ValidateFields, WorkerMoves DEF WorkerStep
  <2>2. /\ worker[w].pc = "validating" /\ worker'[w].pc \in {"leaving", "recording"}
        /\ \A v \in Workers \ {w} : worker'[v] = worker[v]
    BY <1>2, ValidateFields, WorkerMoves DEF WorkerStep
  <2>3. Cardinality(Unfinished') = Cardinality(Unfinished) - 1
    <3>1. w \in Unfinished /\ w \notin Unfinished' /\ Unfinished \ {w} = Unfinished' \ {w}
      BY <2>2 DEF Unfinished
    <3> QED BY <1>0, <3>1, CountChange
  <2>4. SumFunction(HandledBy') = SumFunction(HandledBy) + 1
    BY <1>2, ValidateSum
  <2>5. TakenCount' = TakenCount
    BY <2>1 DEF TakenCount
  <2> QED BY <1>0, <2>3, <2>4, <2>5 DEF OutcomesTaken
<1>a. ASSUME TakenCount' = TakenCount, Unfinished' = Unfinished, HandledBy' = HandledBy
      PROVE  OutcomesTaken'
  BY <1>a DEF OutcomesTaken
<1>3. ASSUME NEW w \in Workers, UpdateStore(w) \/ RecordFailure(w) \/ Leave(w)
      PROVE  OutcomesTaken'
  <2>1. UNCHANGED <<counts, queue, accepted>> /\ \A v \in Workers \ {w} : worker'[v] = worker[v]
    BY <1>3, UpdateFields, RecordFields, LeaveFields, WorkerMoves DEF WorkerStep
  <2>2. w \in Unfinished' <=> w \in Unfinished
    BY <1>3, UpdateFields, RecordFields, LeaveFields DEF Unfinished
  <2> QED BY <1>a, <2>1, <2>2 DEF TakenCount, Unfinished, HandledBy
<1>4. ASSUME NEW w \in Workers, CountSequence(w) PROVE OutcomesTaken'
  <2>1. /\ UNCHANGED <<queue, accepted>> /\ \A v \in Workers \ {w} : worker'[v] = worker[v]
        /\ worker[w].pc = "counting" /\ worker'[w].pc = "validating"
    BY <1>4, CountFields, WorkerMoves DEF WorkerStep
  <2> QED BY <1>a, <1>4, <2>1, CountSame DEF TakenCount, Unfinished
<1>5. CASE \A w \in Workers : ~ (\/ Take(w) \/ UpdateStore(w) \/ CountSequence(w) \/ Validate(w)
                                 \/ RecordFailure(w) \/ Leave(w))
  <2>1. /\ TakenCount' = TakenCount
        /\ \A w \in Workers : worker'[w].pc = "updating" <=> worker[w].pc = "updating"
    BY <1>5, Quiet
  <2>2. /\ counts' = counts
        /\ \A w \in Workers : \/ worker'[w] = worker[w]
                              \/ worker'[w].pc \notin CountingPcs /\ worker[w].pc \notin CountingPcs
    BY <1>5, CountersQuiet
  <2>3. Unfinished' = Unfinished
    BY <2>1, <2>2 DEF Unfinished, CountingPcs
  <2> QED BY <1>a, <2>1, <2>2, <2>3 DEF HandledBy
<1> QED BY <1>1, <1>2, <1>3, <1>4, <1>5

\* A send comes before its count.
LEMMA SentCountedStep == TypeInv /\ SentCounted /\ [Next]_vars => SentCounted'
<1> SUFFICES ASSUME TypeInv, SentCounted, [Next]_vars PROVE SentCounted'
  OBVIOUS
<1>0. IsFiniteSet(Counting) /\ Cardinality(Counting) \in Nat /\ Len(accepted) \in Nat /\ enqueued \in Nat
      /\ Len(accepted) = enqueued + Cardinality(Counting)
  BY FS_CardinalityType, Lengths, TypeParts DEF SentCounted, TypeInv, IntakeType
<1>a. ASSUME UNCHANGED <<accepted, enqueued>>, Counting' = Counting PROVE SentCounted'
  BY <1>0, <1>a DEF SentCounted
<1>1. CASE UNCHANGED <<accepted, enqueued, caller>>
  BY <1>1, <1>a DEF Counting
<1>2. CASE UNCHANGED vars \/ Start
  BY <1>1, <1>2 DEF vars, Start, intake
<1>3. ASSUME NEW t \in Stoppers, StopStep(t) PROVE SentCounted'
  BY <1>1, <1>3 DEF StopStep, StopCheck, StopStore, CloseStopChan, CloseStopChanAgain,
     CloseJobsChan, StopReturn, Stopping, Panic, intake
<1>4. ASSUME NEW w \in Workers, WorkerStep(w) PROVE SentCounted'
  BY <1>1, <1>4, WorkerMoves
<1>5. ASSUME NEW v \in Waiters, Wait(v) \/ WaitStep(v) PROVE SentCounted'
  BY <1>1, <1>5 DEF Wait, WaitStep, WaitCheck, WaitQuiet, WaitOn, Waiting, intake
<1>b. ASSUME NEW c \in Enqueuers, NEW next \in CallerStates, NEW from, Enqueuing(c, from, next)
      PROVE  /\ caller[c].pc = from /\ (c \in Counting' <=> next.pc = "counting")
             /\ Counting \ {c} = Counting' \ {c}
  <2>1. caller'[c] = next /\ \A d \in Enqueuers \ {c} : caller'[d] = caller[d]
    BY <1>b, EnqueuingType DEF TypeInv
  <2> QED BY <1>b, <2>1 DEF Counting, Enqueuing
<1>6. ASSUME NEW c \in Enqueuers, NEW m \in Messages, Call(c, m) PROVE SentCounted'
  <2> DEFINE next == IF isRunning THEN [pc |-> "selecting", msg |-> m] ELSE Idle
  <2>1. next \in CallerStates /\ next.pc # "counting"
    BY DEF Idle, CallerStates
  <2>2. Enqueuing(c, "idle", next) /\ UNCHANGED <<accepted, enqueued>>
    BY <1>6 DEF Call
  <2> HIDE DEF next
  <2>3. Counting' = Counting
    BY <1>b, <2>1, <2>2 DEF Counting
  <2> QED BY <1>a, <2>2, <2>3
<1>7. ASSUME NEW c \in Enqueuers, GiveUp(c) \/ Refuse(c) PROVE SentCounted'
  <2>1. Idle \in CallerStates /\ Idle.pc # "counting"
    BY DEF Idle, CallerStates
  <2>2. Enqueuing(c, "selecting", Idle) /\ UNCHANGED <<accepted, enqueued>>
    BY <1>7 DEF GiveUp, Refuse
  <2>3. Counting' = Counting
    BY <1>b, <2>1, <2>2 DEF Counting
  <2> QED BY <1>a, <2>2, <2>3
<1>8. ASSUME NEW c \in Enqueuers, Send(c) PROVE SentCounted'
  <2>1. /\ caller[c].pc = "selecting" /\ caller'[c].pc = "counting"
        /\ \A d \in Enqueuers \ {c} : caller'[d] = caller[d]
        /\ Len(accepted') = Len(accepted) + 1 /\ enqueued' = enqueued
    BY <1>8, SendFields DEF Send
  <2>2. c \notin Counting /\ c \in Counting' /\ Counting \ {c} = Counting' \ {c}
    BY <2>1 DEF Counting
  <2>3. IsFiniteSet(Counting') /\ Cardinality(Counting') = Cardinality(Counting) + 1
    BY <1>0, <2>2, CountChange
  <2> QED BY <1>0, <2>1, <2>3 DEF SentCounted
<1>9. ASSUME NEW c \in Enqueuers, Count(c) PROVE SentCounted'
  <2>1. Idle \in CallerStates /\ Idle.pc # "counting"
    BY DEF Idle, CallerStates
  <2>2. Enqueuing(c, "counting", Idle) /\ accepted' = accepted /\ enqueued' = enqueued + 1
    BY <1>9 DEF Count
  <2>3. c \in Counting /\ c \notin Counting' /\ Counting \ {c} = Counting' \ {c}
    BY <1>b, <2>1, <2>2 DEF Counting
  <2>4. IsFiniteSet(Counting') /\ Cardinality(Counting') = Cardinality(Counting) - 1
    BY <1>0, <2>3, CountChange
  <2> QED BY <1>0, <2>2, <2>4 DEF SentCounted
<1>10. ASSUME NEW c \in Enqueuers, SendOnClosed(c) PROVE SentCounted'
  BY <1>1, <1>10 DEF SendOnClosed, Panic, intake
<1> QED BY <1>2, <1>3, <1>4, <1>5, <1>6, <1>7, <1>8, <1>9, <1>10 DEF Next, EnqueueStep

LEMMA SumsInit == Init => Sums
<1> SUFFICES ASSUME Init PROVE Sums
  OBVIOUS
<1>1. SumFunction(HandledBy) = 0
  <2>1. DOMAIN HandledBy = Workers /\ \A w \in Workers : HandledBy[w] = 0
    BY DEF Init, HandledBy, Counters
  <2> QED BY <2>1, SumZero, ProcessorAssumption DEF SumFunction
<1>2. Unfinished = {} /\ Counting = {}
  BY FreeType DEF Init, Unfinished, Counting, Idle
<1>3. IsFiniteSet({}) /\ Cardinality({}) = 0
  BY FS_EmptySet
<1>4. Len(accepted) = 0 /\ Len(queue) = 0 /\ enqueued = 0
  BY EmptySeq DEF Init
<1>5. TakenCount = 0
  BY <1>4 DEF TakenCount
<1>6. Cardinality(Unfinished) = 0 /\ Cardinality(Counting) = 0 /\ IsFiniteSet(Counting)
  BY <1>2, <1>3
<1> QED BY <1>1, <1>4, <1>5, <1>6 DEF Sums, OutcomesTaken, SentCounted


\* The place of a counter in LoadOrder.
PlaceInOrder(k) ==
    CASE k = "processed" -> 1 [] k = "errors" -> 2 [] k = "anomalies" -> 3
      [] k = "dropped" -> 4 [] k = "duplicates" -> 5 [] k = "outOfOrder" -> 6

LEMMA OrderOfLoads ==
    /\ Len(LoadOrder) = 6
    /\ \A i \in 1 .. 6 : LoadOrder[i] \in Counters /\ PlaceInOrder(LoadOrder[i]) = i
    /\ \A k \in Counters : PlaceInOrder(k) \in 1 .. 6 /\ LoadOrder[PlaceInOrder(k)] = k
<1>1. /\ PlaceInOrder("processed") = 1 /\ PlaceInOrder("errors") = 2
      /\ PlaceInOrder("anomalies") = 3 /\ PlaceInOrder("dropped") = 4
      /\ PlaceInOrder("duplicates") = 5 /\ PlaceInOrder("outOfOrder") = 6
  BY DEF PlaceInOrder
<1>2. /\ Len(LoadOrder) = 6
      /\ LoadOrder[1] = "processed" /\ LoadOrder[2] = "errors" /\ LoadOrder[3] = "anomalies"
      /\ LoadOrder[4] = "dropped" /\ LoadOrder[5] = "duplicates" /\ LoadOrder[6] = "outOfOrder"
  BY DEF LoadOrder
<1>3. \A i \in 1 .. 6 : i = 1 \/ i = 2 \/ i = 3 \/ i = 4 \/ i = 5 \/ i = 6
  OBVIOUS
<1> QED BY <1>1, <1>2, <1>3 DEF Counters

\* The slice of the workers, each once.
LEMMA PoolSlice ==
    ASSUME NEW P, IsFiniteSet(P)
    PROVE  /\ Cardinality(P) \in Nat
           /\ SetToSeq(P) \in [1 .. Cardinality(P) -> P]
           /\ \A i, j \in 1 .. Cardinality(P) : SetToSeq(P)[i] = SetToSeq(P)[j] => i = j
<1>1. Cardinality(P) \in Nat /\ ExistsBijection(1 .. Cardinality(P), P)
  BY FS_CardinalityType
<1>2. \E f \in [1 .. Cardinality(P) -> P] : IsInjective(f)
  BY <1>1, Zenon DEF ExistsBijection, Bijection, Injection
<1>3. SetToSeq(P) \in [1 .. Cardinality(P) -> P] /\ IsInjective(SetToSeq(P))
  BY <1>2, Zenon DEF SetToSeq
<1> QED BY <1>1, <1>3 DEF IsInjective

\* The workers of which a reader has loaded a counter when it has loaded n counters of the
\* pool P.
Loaded(P, k, n) ==
    {SetToSeq(P)[i] : i \in {j \in 1 .. Cardinality(P) : 6 * (j - 1) + PlaceInOrder(k) <= n}}

\* Each load adds one worker to those of one counter.
LEMMA LoadedStep ==
    ASSUME NEW P, IsFiniteSet(P), NEW n \in Nat, n < 6 * Cardinality(P)
    PROVE  LET w == SetToSeq(P)[1 + n \div 6]
               k == LoadOrder[1 + (n % 6)]
           IN  /\ w \in P /\ k \in Counters
               /\ Loaded(P, k, n + 1) = Loaded(P, k, n) \cup {w} /\ w \notin Loaded(P, k, n)
               /\ \A j \in Counters \ {k} : Loaded(P, j, n + 1) = Loaded(P, j, n)
<1> DEFINE q == n \div 6
           s == n % 6
           c == Cardinality(P)
           slice == SetToSeq(P)
           w == slice[1 + q]
           k == LoadOrder[1 + s]
           Index(j, m) == {i \in 1 .. c : 6 * (i - 1) + PlaceInOrder(j) <= m}
<1>1. n = 6 * q + s /\ q \in Nat /\ s \in 0 .. 5
  OBVIOUS
<1>2. /\ c \in Nat /\ slice \in [1 .. c -> P]
      /\ \A i, j \in 1 .. c : slice[i] = slice[j] => i = j
  BY PoolSlice
<1>3. \A j, m : Loaded(P, j, m) = {slice[i] : i \in Index(j, m)}
  BY DEF Loaded
<1>4. n < 6 * c
  OBVIOUS
<1> HIDE DEF q, s, c, slice
<1>5. 1 + q \in 1 .. c /\ 1 + s \in 1 .. 6
  BY <1>1, <1>2, <1>4
<1>6. w \in P /\ k \in Counters /\ PlaceInOrder(k) = 1 + s
  BY <1>2, <1>5, OrderOfLoads
<1>a. ASSUME NEW p \in 1 .. 6, NEW i \in 1 .. c
      PROVE  /\ 6 * (i - 1) + p <= n => 6 * (i - 1) + p <= n + 1
             /\ 6 * (i - 1) + p = n + 1 <=> i = 1 + q /\ p = 1 + s
             /\ 6 * (i - 1) + p <= n + 1 => 6 * (i - 1) + p <= n \/ 6 * (i - 1) + p = n + 1
             /\ 6 * (i - 1) + p = n + 1 => ~ (6 * (i - 1) + p <= n)
  BY <1>1, <1>2, <1>a
<1>7. Index(k, n + 1) = Index(k, n) \cup {1 + q} /\ 1 + q \notin Index(k, n)
  <2>1. PlaceInOrder(k) \in 1 .. 6 /\ PlaceInOrder(k) = 1 + s
    BY <1>6, OrderOfLoads
  <2> QED BY <1>5, <1>a, <2>1
<1>8. ASSUME NEW j \in Counters \ {k} PROVE Index(j, n + 1) = Index(j, n)
  <2>1. PlaceInOrder(j) \in 1 .. 6 /\ PlaceInOrder(j) # 1 + s
    BY <1>6, OrderOfLoads
  <2> QED BY <1>a, <2>1
<1>9. \A j, m : Index(j, m) \subseteq 1 .. c
  OBVIOUS
<1> HIDE DEF Index
<1>10. Loaded(P, k, n + 1) = Loaded(P, k, n) \cup {w}
  BY <1>3, <1>7
<1>11. w \notin Loaded(P, k, n)
  BY <1>2, <1>3, <1>5, <1>7, <1>9
<1>12. \A j \in Counters \ {k} : Loaded(P, j, n + 1) = Loaded(P, j, n)
  BY <1>3, <1>8
<1> HIDE DEF w, k
<1>13. /\ w \in P /\ k \in Counters
       /\ Loaded(P, k, n + 1) = Loaded(P, k, n) \cup {w} /\ w \notin Loaded(P, k, n)
       /\ \A j \in Counters \ {k} : Loaded(P, j, n + 1) = Loaded(P, j, n)
  BY <1>6, <1>10, <1>11, <1>12
<1> QED BY <1>13 DEF w, k, q, s, slice

LEMMA LoadedType ==
    ASSUME NEW P, IsFiniteSet(P), NEW k \in Counters
    PROVE  Loaded(P, k, 0) = {} /\ \A n : Loaded(P, k, n) \subseteq P
<1>1. Cardinality(P) \in Nat /\ SetToSeq(P) \in [1 .. Cardinality(P) -> P]
  BY PoolSlice
<1>2. PlaceInOrder(k) \in 1 .. 6
  BY OrderOfLoads
<1>3. \A i \in 1 .. Cardinality(P) : ~ (6 * (i - 1) + PlaceInOrder(k) <= 0)
  BY <1>1, <1>2
<1> QED BY <1>1, <1>3 DEF Loaded

\* No step takes anything back: counters grow, more is accepted, and a pool that is there
\* stays as it is.
LEMMA CountsGrow ==
    ASSUME TypeInv, [Next]_vars, NEW w \in Workers, NEW k \in Counters
    PROVE  counts[w][k] \in Nat /\ counts[w][k] <= counts'[w][k]
<1>1. counts \in [Workers -> [Counters -> Nat]] /\ counts[w][k] \in Nat
  BY TypeParts DEF TypeInv, PoolType
<1>2. CASE counts' = counts
  BY <1>1, <1>2
<1>3. ASSUME NEW v \in Workers, CountSequence(v) PROVE counts[w][k] <= counts'[w][k]
  <2> DEFINE n == counts[v]
             r == worker[v].result
  <2>1. counts' = [counts EXCEPT ![v] = Added(n, r)] /\ r \in Results /\ n \in [Counters -> Nat]
    BY <1>1, <1>3, CountFields, WorkerTypes DEF WorkersTyped
  <2>2. n[k] <= Added(n, r)[k]
    <3>1. r.dropped \in Nat
      BY <2>1 DEF Results
    <3>2. /\ n["dropped"] \in Nat /\ n["duplicates"] \in Nat /\ n["outOfOrder"] \in Nat
          /\ n[k] \in Nat
      BY <2>1 DEF Counters
    <3> HIDE DEF n, r
    <3>3. /\ Added(n, r)["dropped"] = n["dropped"] + r.dropped
          /\ Added(n, r)["duplicates"] \in {n["duplicates"], n["duplicates"] + 1}
          /\ Added(n, r)["outOfOrder"] \in {n["outOfOrder"], n["outOfOrder"] + 1}
          /\ \A j \in {"processed", "errors", "anomalies"} : Added(n, r)[j] = n[j]
      BY <2>1 DEF Added, Counters
    <3>4. k \in {"dropped", "duplicates", "outOfOrder"} \/ k \in {"processed", "errors", "anomalies"}
      BY DEF Counters
    <3> QED BY <3>1, <3>2, <3>3, <3>4
  <2> HIDE DEF r
  <2> QED BY <1>1, <2>1, <2>2
<1>4. ASSUME NEW v \in Workers, Validate(v) PROVE counts[w][k] <= counts'[w][k]
  <2> DEFINE n == counts[v]
             o == worker[v].msg.outcome
  <2>1. counts' = [counts EXCEPT ![v] = WithOutcome(n, o)] /\ n \in [Counters -> Nat]
    BY <1>1, <1>4, ValidateFields
  <2>2. n[k] <= WithOutcome(n, o)[k]
    <3>1. n[k] \in Nat /\ \A j \in Counters : n[j] \in Nat
      BY <2>1
    <3> HIDE DEF n, o
    <3>2. WithOutcome(n, o)[k] \in {n[k], n[k] + 1}
      BY <2>1, <3>1 DEF WithOutcome
    <3> QED BY <3>1, <3>2
  <2> HIDE DEF o
  <2> QED BY <1>1, <2>1, <2>2
<1>5. CASE \A v \in Workers : ~ CountSequence(v) /\ ~ Validate(v)
  <2>1. ASSUME NEW v \in Workers, UpdateStore(v) \/ RecordFailure(v) PROVE counts' = counts
    BY <2>1, UpdateFields, RecordFields
  <2> QED BY <1>2, <1>5, <2>1, CountersQuiet
<1> QED BY <1>1, <1>3, <1>4, <1>5

LEMMA AcceptedGrows ==
    ASSUME TypeInv, [Next]_vars
    PROVE  Len(accepted') \in Nat /\ Len(accepted) <= Len(accepted')
<1>0. Len(accepted) \in Nat
  BY Lengths
<1>1. CASE UNCHANGED accepted
  BY <1>0, <1>1
<1>2. ASSUME NEW c \in Enqueuers, Send(c) PROVE Len(accepted') = Len(accepted) + 1
  BY <1>2, SendFields
<1>3. CASE \A c \in Enqueuers : ~ Send(c)
  <2>1. ASSUME NEW w \in Workers, WorkerStep(w) PROVE UNCHANGED accepted
    BY <2>1, WorkerMoves
  <2>2. CASE UNCHANGED vars \/ Start
    BY <1>1, <2>2 DEF vars, intake, Start
  <2>3. ASSUME NEW t \in Stoppers, StopStep(t) PROVE UNCHANGED accepted
    BY <2>3 DEF StopStep, StopCheck, StopStore, CloseStopChan, CloseStopChanAgain,
       CloseJobsChan, StopReturn, Stopping, Panic, intake
  <2>4. ASSUME NEW c \in Enqueuers, NEW m \in Messages, Call(c, m) PROVE UNCHANGED accepted
    BY <2>4 DEF Call
  <2>5. ASSUME NEW c \in Enqueuers, EnqueueStep(c) PROVE UNCHANGED accepted
    BY <1>3, <2>5 DEF EnqueueStep, Count, SendOnClosed, GiveUp, Refuse, Panic, intake
  <2>6. ASSUME NEW v \in Waiters, Wait(v) \/ WaitStep(v) PROVE UNCHANGED accepted
    BY <2>6 DEF Wait, WaitStep, WaitCheck, WaitQuiet, WaitOn, Waiting, intake
  <2> QED BY <1>1, <2>1, <2>2, <2>3, <2>4, <2>5, <2>6 DEF Next
<1> QED BY <1>0, <1>2, <1>3

LEMMA PoolFixed == ASSUME TypeInv, [Next]_vars, Pool # {} PROVE Pool' = Pool
<1>1. ASSUME UNCHANGED worker PROVE Pool' = Pool
  BY <1>1 DEF Pool
<1>2. ASSUME NEW w \in Workers, WorkerStep(w) PROVE Pool' = Pool
  BY <1>2, PoolStays
<1>3. CASE UNCHANGED vars
  BY <1>1, <1>3 DEF vars, pool
<1>4. ASSUME Start PROVE FALSE
  BY <1>4 DEF Start
<1>5. ASSUME NEW t \in Stoppers, StopStep(t) PROVE UNCHANGED worker
  BY <1>5 DEF StopStep, StopCheck, StopStore, CloseStopChan, CloseStopChanAgain,
     CloseJobsChan, StopReturn, Stopping, Panic, pool
<1>6. ASSUME NEW c \in Enqueuers, NEW m \in Messages, Call(c, m) PROVE UNCHANGED worker
  BY <1>6 DEF Call, Enqueuing, pool
<1>7. ASSUME NEW c \in Enqueuers, EnqueueStep(c) PROVE UNCHANGED worker
  BY <1>7 DEF EnqueueStep, Send, Count, SendOnClosed, GiveUp, Refuse, Panic, Enqueuing, pool
<1>8. ASSUME NEW v \in Waiters, Wait(v) \/ WaitStep(v) PROVE UNCHANGED worker
  BY <1>8 DEF Wait, WaitStep, WaitCheck, WaitQuiet, WaitOn, Waiting, pool
<1> QED BY <1>1, <1>2, <1>3, <1>4, <1>5, <1>6, <1>7, <1>8 DEF Next

-----------------------------------------------------------------------------
(* What each reader has.                                                    *)

ReaderStates ==
    [ loads : Nat, sums : [Counters -> Nat], todo : SUBSET {"depth", "enqueued"},
      depth : Nat, enqueued : Nat, uncounted : Nat,
      listed : BOOLEAN, messages : Nat, failures : Nat ]

OutcomesSeen(x) == x.sums["processed"] + x.sums["errors"] + x.sums["anomalies"]
FailuresSeen(x) == x.sums["errors"] + x.sums["anomalies"]

\* What was loaded is no more than the counters are now; what was loaded after the
\* counters is no less than they were.
ReaderInv(x) ==
    /\ x.loads <= 6 * Cardinality(Pool)
    /\ \A k \in Counters :
           x.sums[k] <= SumFunctionOnSet(OfWorkers(k), Loaded(Pool, k, x.loads))
    /\ x.todo # {"depth", "enqueued"} => Pool # {} /\ x.loads = 6 * Cardinality(Pool)
    /\ x.listed => x.todo = {}
    /\ "depth" \notin x.todo => OutcomesSeen(x) + x.depth <= Len(accepted)
    /\ "enqueued" \notin x.todo => OutcomesSeen(x) <= x.enqueued + x.uncounted
    /\ x.listed => /\ OutcomesSeen(x) <= x.messages
                   /\ FailuresSeen(x) <= x.failures + Cardinality(Pool)

Readings ==
    /\ reading \in [Readers -> ReaderStates]
    /\ \A r \in Readers, x \in ReaderStates : reading[r] = x => ReaderInv(x)

\* The pool is finite.
LEMMA PoolFinite == IsFiniteSet(Pool) /\ Cardinality(Pool) \in Nat /\ Pool \subseteq Workers
BY FS_Subset, FS_CardinalityType, ProcessorAssumption DEF Pool

\* Sums over some of the workers.
LEMMA PartialSums ==
    ASSUME TypeInv, NEW k \in Counters, NEW T, T \subseteq Workers
    PROVE  /\ IsFiniteSet(T) /\ SumFunctionOnSet(OfWorkers(k), T) \in Nat
           /\ SumFunction(OfWorkers(k)) \in Nat
           /\ SumFunctionOnSet(OfWorkers(k), T) <= SumFunction(OfWorkers(k))
<1>1. IsFiniteSet(T) /\ IsFiniteSet(Workers)
  BY FS_Subset, ProcessorAssumption
<1>2. /\ \A v \in Workers : OfWorkers(k)[v] \in Nat
      /\ \A v \in T : OfWorkers(k)[v] \in Nat
      /\ DOMAIN OfWorkers(k) = Workers
  BY WorkerTypes DEF WorkersTyped, OfWorkers
<1>3. SumFunction(OfWorkers(k)) = SumFunctionOnSet(OfWorkers(k), Workers)
  BY <1>2, Zenon DEF SumFunction
<1>4. SumFunctionOnSet(OfWorkers(k), T) <= SumFunctionOnSet(OfWorkers(k), Workers)
  BY <1>1, <1>2, SumSubset
<1>5. SumFunctionOnSet(OfWorkers(k), T) \in Nat /\ SumFunctionOnSet(OfWorkers(k), Workers) \in Nat
  BY <1>1, <1>2, SumType
<1> QED BY <1>1, <1>3, <1>4, <1>5

\* All outcomes of all workers.
LEMMA AllOutcomes ==
    ASSUME TypeInv
    PROVE  SumFunction(HandledBy) = SumFunction(OfWorkers("processed"))
               + SumFunction(OfWorkers("errors")) + SumFunction(OfWorkers("anomalies"))
<1> DEFINE p == OfWorkers("processed")
           e == OfWorkers("errors")
           a == OfWorkers("anomalies")
           b == [v \in Workers |-> p[v] + e[v]]
<1>1. /\ DOMAIN p = Workers /\ DOMAIN e = Workers /\ DOMAIN a = Workers
      /\ DOMAIN HandledBy = Workers /\ DOMAIN b = Workers
  BY DEF OfWorkers, HandledBy
<1>2. \A v \in Workers : /\ p[v] \in Nat /\ e[v] \in Nat /\ a[v] \in Nat
                         /\ HandledBy[v] = p[v] + e[v] + a[v]
  BY WorkerTypes DEF WorkersTyped, OfWorkers, HandledBy, Counters
<1>3. \A v \in Workers : /\ p[v] \in Int /\ e[v] \in Int /\ b[v] \in Int /\ a[v] \in Int
                         /\ b[v] = p[v] + e[v] /\ HandledBy[v] = b[v] + a[v]
  BY <1>2
<1> HIDE DEF p, e, a, b
<1>4. SumFunctionOnSet(b, Workers) = SumFunctionOnSet(p, Workers) + SumFunctionOnSet(e, Workers)
  BY <1>3, SumPlus, ProcessorAssumption
<1>5. SumFunctionOnSet(HandledBy, Workers)
        = SumFunctionOnSet(b, Workers) + SumFunctionOnSet(a, Workers)
  BY <1>3, SumPlus, ProcessorAssumption
<1>6. /\ SumFunction(p) = SumFunctionOnSet(p, Workers)
      /\ SumFunction(e) = SumFunctionOnSet(e, Workers)
      /\ SumFunction(a) = SumFunctionOnSet(a, Workers)
      /\ SumFunction(HandledBy) = SumFunctionOnSet(HandledBy, Workers)
  BY <1>1, Zenon DEF SumFunction
<1>7. SumFunction(HandledBy) = SumFunction(p) + SumFunction(e) + SumFunction(a)
  BY <1>4, <1>5, <1>6
<1> QED BY <1>7 DEF p, e, a

\* What a reader has added up is no more than what the workers have now.
LEMMA SeenSoFar ==
    ASSUME TypeInv, NEW x \in ReaderStates, ReaderInv(x)
    PROVE  /\ \A k \in Counters : x.sums[k] \in Nat
           /\ OutcomesSeen(x) \in Nat /\ FailuresSeen(x) \in Nat
           /\ OutcomesSeen(x) <= SumFunction(HandledBy)
           /\ FailuresSeen(x) <= SumFunction(OfWorkers("errors"))
                                   + SumFunction(OfWorkers("anomalies"))
<1>1. ASSUME NEW k \in Counters
      PROVE  /\ x.sums[k] \in Nat /\ SumFunction(OfWorkers(k)) \in Nat
             /\ x.sums[k] <= SumFunction(OfWorkers(k))
  <2> DEFINE T == Loaded(Pool, k, x.loads)
  <2>1. T \subseteq Workers
    BY PoolFinite, LoadedType
  <2>2. x.sums[k] <= SumFunctionOnSet(OfWorkers(k), T) /\ x.sums[k] \in Nat
    BY DEF ReaderInv, ReaderStates
  <2> HIDE DEF T
  <2> QED BY <2>1, <2>2, PartialSums
<1>2. {"processed", "errors", "anomalies"} \subseteq Counters
  BY DEF Counters
<1> QED BY <1>1, <1>2, AllOutcomes DEF OutcomesSeen, FailuresSeen

\* The processor goes on: what a reader has stays behind it.
LEMMA ReaderInvStep ==
    ASSUME TypeInv, TypeInv', [Next]_vars, NEW x \in ReaderStates, ReaderInv(x)
    PROVE  ReaderInv(x)'
<1> DEFINE before(k) == SumFunctionOnSet(OfWorkers(k), Loaded(Pool, k, x.loads))
           after(k) == SumFunctionOnSet(OfWorkers(k)', Loaded(Pool', k, x.loads))
<1>1. /\ x.loads \in Nat /\ \A k \in Counters : x.sums[k] \in Nat
      /\ OutcomesSeen(x) \in Nat /\ x.depth \in Nat
  BY SeenSoFar DEF ReaderStates
<1>2. CASE Pool # {}
  <2>1. Pool' = Pool
    BY <1>2, PoolFixed
  <2>2. ASSUME NEW k \in Counters PROVE before(k) <= after(k) /\ before(k) \in Int /\ after(k) \in Int
    <3> DEFINE T == Loaded(Pool, k, x.loads)
    <3>1. T \subseteq Workers /\ IsFiniteSet(T)
      BY PoolFinite, LoadedType, PartialSums
    <3>2. \A v \in T : /\ OfWorkers(k)[v] \in Nat /\ OfWorkers(k)'[v] \in Nat
                       /\ OfWorkers(k)[v] <= OfWorkers(k)'[v]
      BY <2>2, <3>1, CountsGrow, WorkerTypesNext DEF OfWorkers, WorkersTyped
    <3> HIDE DEF T
    <3> DEFINE f == OfWorkers(k)
               g == OfWorkers(k)'
    <3>3. \A v \in T : f[v] \in Nat /\ g[v] \in Nat /\ f[v] <= g[v]
      BY <3>2
    <3> HIDE DEF f, g
    <3>4. SumFunctionOnSet(f, T) <= SumFunctionOnSet(g, T)
      BY <3>1, <3>3, SumGrows
    <3>5. SumFunctionOnSet(f, T) \in Nat /\ SumFunctionOnSet(g, T) \in Nat
      BY <3>1, <3>3, SumType
    <3> QED BY <2>1, <3>4, <3>5 DEF f, g, T
  <2>3. Len(accepted) \in Nat /\ Len(accepted') \in Nat /\ Len(accepted) <= Len(accepted')
    BY AcceptedGrows, Lengths
  <2>4. \A k \in Counters : x.sums[k] <= before(k)
    BY DEF ReaderInv
  <2>5. \A k \in Counters : x.sums[k] <= after(k)
    <3> HIDE DEF before, after
    <3> QED BY <1>1, <2>2, <2>4
  <2>6. "depth" \notin x.todo => OutcomesSeen(x) + x.depth <= Len(accepted')
    BY <1>1, <2>3 DEF ReaderInv
  <2> QED BY <1>2, <2>1, <2>5, <2>6 DEF ReaderInv
<1>3. CASE Pool = {}
  <2>1. x.loads = 0 /\ x.todo = {"depth", "enqueued"} /\ ~ x.listed
    <3>1. Cardinality(Pool) = 0
      BY <1>3, FS_EmptySet, Zenon
    <3>2. /\ x.loads <= 6 * Cardinality(Pool)
          /\ x.todo # {"depth", "enqueued"} => Pool # {}
          /\ x.listed => x.todo = {}
      BY DEF ReaderInv
    <3>3. x.loads = 0
      BY <1>1, <3>1, <3>2
    <3>4. x.todo = {"depth", "enqueued"} /\ x.todo # {}
      BY <1>3, <3>2
    <3>5. ~ x.listed
      BY <3>2, <3>4, Zenon
    <3> QED BY <3>3, <3>4, <3>5
  <2>2. \A k \in Counters : Loaded(Pool, k, 0) = {} /\ Loaded(Pool', k, 0) = {}
    <3>1. IsFiniteSet(Pool) /\ IsFiniteSet(Pool')
      BY FS_Subset, ProcessorAssumption DEF Pool
    <3> QED BY <3>1, LoadedType
  <2>3. \A k \in Counters : before(k) = 0 /\ after(k) = 0
    BY <2>1, <2>2, SumEmpty
  <2>4. \A k \in Counters : x.sums[k] <= before(k)
    BY DEF ReaderInv
  <2>5. \A k \in Counters : x.sums[k] <= after(k)
    <3> HIDE DEF before, after
    <3> QED BY <2>3, <2>4
  <2>6. Cardinality(Pool') \in Nat
    BY FS_Subset, FS_CardinalityType, ProcessorAssumption DEF Pool
  <2> QED BY <2>1, <2>5, <2>6 DEF ReaderInv
<1> QED BY <1>2, <1>3

\* A reader goes on; the processor stands still meanwhile.
LEMMA ReadsMoves ==
    ASSUME Readings, NEW r \in Readers, NEW next \in ReaderStates, ReaderInv(next),
           Reads(r, next)
    PROVE  Readings'
<1>1. /\ reading' = [reading EXCEPT ![r] = next]
      /\ UNCHANGED <<worker, counts, accepted>>
  BY DEF Reads, vars, pool, intake
<1>2. reading \in [Readers -> ReaderStates]
  BY DEF Readings
<1>3. UNCHANGED Pool /\ \A k : UNCHANGED OfWorkers(k)
  BY <1>1 DEF Pool, OfWorkers
<1>4. ASSUME NEW s \in Readers, NEW x \in ReaderStates, reading'[s] = x PROVE ReaderInv(x)'
  <2>1. ReaderInv(x)
    BY <1>1, <1>2, <1>4 DEF Readings
  <2> QED BY <1>1, <1>3, <2>1 DEF ReaderInv
<1>5. reading' \in [Readers -> ReaderStates]
  BY <1>1, <1>2
<1> QED BY <1>4, <1>5 DEF Readings

LEMMA LoadCounterStep ==
    ASSUME TypeInv, Readings, NEW r \in Readers, LoadCounter(r)
    PROVE  Readings'
<1> DEFINE x == reading[r]
           n == x.loads
           w == SetToSeq(Pool)[1 + n \div 6]
           k == LoadOrder[1 + (n % 6)]
           next == [x EXCEPT !.loads = n + 1, !.sums[k] = @ + counts[w][k]]
<1>1. x \in ReaderStates /\ ReaderInv(x) /\ n \in Nat
  BY DEF Readings, ReaderStates
<1>2. n < 6 * Cardinality(Pool) /\ Reads(r, next)
  BY OrderOfLoads, Zenon DEF LoadCounter
<1>3. /\ w \in Pool /\ k \in Counters
      /\ Loaded(Pool, k, n + 1) = Loaded(Pool, k, n) \cup {w} /\ w \notin Loaded(Pool, k, n)
      /\ \A j \in Counters \ {k} : Loaded(Pool, j, n + 1) = Loaded(Pool, j, n)
  BY <1>1, <1>2, LoadedStep, PoolFinite
<1> HIDE DEF x, w, k
<1>4. counts[w][k] \in Nat /\ Cardinality(Pool) \in Nat
  BY <1>3, PoolFinite, WorkerTypes DEF WorkersTyped
<1>5. /\ next.loads = n + 1 /\ next.todo = x.todo /\ next.listed = x.listed
      /\ next.sums = [x.sums EXCEPT ![k] = x.sums[k] + counts[w][k]]
  BY <1>1 DEF ReaderStates
<1>6. x.sums \in [Counters -> Nat]
  BY <1>1 DEF ReaderStates
<1>7. next \in ReaderStates
  <2>1. next.sums \in [Counters -> Nat]
    BY <1>3, <1>4, <1>5, <1>6
  <2>2. ASSUME NEW S \in [Counters -> Nat], NEW m \in Nat
        PROVE  [x EXCEPT !.loads = m, !.sums = S] \in ReaderStates
    BY <1>1, <2>2 DEF ReaderStates
  <2>3. next = [x EXCEPT !.loads = n + 1, !.sums = next.sums]
    BY <1>1, <1>5 DEF ReaderStates
  <2>4. n + 1 \in Nat
    BY <1>1
  <2> HIDE DEF next, n
  <2>5. [x EXCEPT !.loads = n + 1, !.sums = next.sums] \in ReaderStates
    BY <2>1, <2>2, <2>4
  <2> QED BY <2>3, <2>5, Zenon
<1>8. x.todo = {"depth", "enqueued"} /\ ~ x.listed
  BY <1>1, <1>2, <1>4 DEF ReaderInv
<1>9. ASSUME NEW j \in Counters
      PROVE  next.sums[j] <= SumFunctionOnSet(OfWorkers(j), Loaded(Pool, j, n + 1))
  <2> DEFINE T == Loaded(Pool, j, n)
             f == OfWorkers(j)
  <2>1. x.sums[j] <= SumFunctionOnSet(f, T)
    BY <1>1 DEF ReaderInv
  <2>2. CASE j # k
    <3>1. next.sums[j] = x.sums[j] /\ Loaded(Pool, j, n + 1) = T
      BY <1>3, <1>5, <1>6, <2>2
    <3> QED BY <2>1, <3>1
  <2>3. CASE j = k
    <3>1. T \subseteq Workers /\ IsFiniteSet(T) /\ SumFunctionOnSet(f, T) \in Nat
      BY PoolFinite, LoadedType, PartialSums
    <3>2. \A v \in T \cup {w} : f[v] \in Int
      BY <1>3, <3>1, PoolFinite, WorkerTypes DEF WorkersTyped, OfWorkers
    <3>3. f[w] = counts[w][k]
      BY <1>3, <2>3, PoolFinite DEF OfWorkers
    <3>4. w \notin T /\ Loaded(Pool, j, n + 1) = T \cup {w}
      BY <1>3, <2>3
    <3>5. next.sums[j] = x.sums[j] + counts[w][k] /\ x.sums[j] \in Nat
      BY <1>5, <1>6, <2>3
    <3> HIDE DEF T, f, next
    <3>6. SumFunctionOnSet(f, T \cup {w}) = f[w] + SumFunctionOnSet(f, T)
      BY <3>1, <3>2, <3>4, SumAdd
    <3>7. next.sums[j] <= SumFunctionOnSet(f, T \cup {w})
      BY <1>4, <2>1, <3>1, <3>3, <3>5, <3>6
    <3> QED BY <3>4, <3>7 DEF f
  <2> QED BY <2>2, <2>3
<1> HIDE DEF next, n
<1>10. n + 1 <= 6 * Cardinality(Pool)
  BY <1>1, <1>2, <1>4
<1>11. ReaderInv(next)
  BY <1>5, <1>8, <1>9, <1>10 DEF ReaderInv
<1> QED BY <1>2, <1>7, <1>11, ReadsMoves

\* What all readers have of x, when one reader sets next to what it loads from it.
LEMMA ReaderAt ==
    ASSUME TypeInv, Readings, NEW r \in Readers
    PROVE  /\ reading[r] \in ReaderStates /\ ReaderInv(reading[r])
           /\ WorkersRead(r) <=> Pool # {} /\ reading[r].loads = 6 * Cardinality(Pool)
<1>1. reading[r] \in ReaderStates /\ ReaderInv(reading[r])
  BY DEF Readings
<1>2. WorkersRead(r) <=> Pool # {} /\ reading[r].loads = 6 * Cardinality(Pool)
  BY OrderOfLoads, Zenon DEF WorkersRead
<1> QED BY <1>1, <1>2

LEMMA LoadDepthStep ==
    ASSUME TypeInv, Channel, OutcomesTaken, Readings, NEW r \in Readers, LoadDepth(r)
    PROVE  Readings'
<1> DEFINE x == reading[r]
           next == [x EXCEPT !.todo = @ \ {"depth"}, !.depth = Len(queue)]
<1>1. x \in ReaderStates /\ ReaderInv(x) /\ Pool # {} /\ x.loads = 6 * Cardinality(Pool)
  BY ReaderAt DEF LoadDepth
<1>2. "depth" \in x.todo /\ Reads(r, next)
  BY DEF LoadDepth
<1>3. Len(queue) \in Nat /\ Len(accepted) \in Nat /\ TakenCount = Len(accepted) - Len(queue)
  BY Lengths DEF TakenCount
<1> HIDE DEF x
<1>4. next \in ReaderStates
  BY <1>1, <1>3 DEF ReaderStates
<1>5. /\ next.loads = x.loads /\ next.sums = x.sums /\ next.listed = x.listed
      /\ next.todo = x.todo \ {"depth"} /\ next.depth = Len(queue)
      /\ next.enqueued = x.enqueued /\ next.uncounted = x.uncounted
  BY <1>1 DEF ReaderStates
<1> HIDE DEF next
<1>6. OutcomesSeen(next) = OutcomesSeen(x)
  BY <1>5 DEF OutcomesSeen
<1>7. OutcomesSeen(next) + next.depth <= Len(accepted)
  <2>1. OutcomesSeen(x) \in Nat /\ OutcomesSeen(x) <= SumFunction(HandledBy)
    BY <1>1, SeenSoFar
  <2>2. SumFunction(HandledBy) + Cardinality(Unfinished) = TakenCount
    BY DEF OutcomesTaken
  <2>3. Cardinality(Unfinished) \in Nat /\ SumFunction(HandledBy) \in Int
    BY SumTypes
  <2> QED BY <1>3, <1>5, <1>6, <2>1, <2>2, <2>3
<1>8. ~ next.listed
  <2>1. x.todo # {} /\ (x.listed => x.todo = {})
    BY <1>1, <1>2 DEF ReaderInv
  <2> QED BY <1>5, <2>1, Zenon
<1>9. "enqueued" \notin next.todo => OutcomesSeen(next) <= next.enqueued + next.uncounted
  BY <1>1, <1>5, <1>6 DEF ReaderInv
<1>10. /\ next.loads <= 6 * Cardinality(Pool)
       /\ \A k \in Counters :
              next.sums[k] <= SumFunctionOnSet(OfWorkers(k), Loaded(Pool, k, next.loads))
       /\ Pool # {} /\ next.loads = 6 * Cardinality(Pool)
  BY <1>1, <1>5 DEF ReaderInv
<1>11. ReaderInv(next)
  BY <1>7, <1>8, <1>9, <1>10 DEF ReaderInv
<1> QED BY <1>2, <1>4, <1>11, ReadsMoves

LEMMA LoadEnqueuedStep ==
    ASSUME TypeInv, Channel, OutcomesTaken, SentCounted, Readings, NEW r \in Readers,
           LoadEnqueued(r)
    PROVE  Readings'
<1> DEFINE x == reading[r]
           next == [x EXCEPT !.todo = @ \ {"enqueued"}, !.enqueued = enqueued,
                             !.uncounted = Cardinality(Counting)]
<1>1. x \in ReaderStates /\ ReaderInv(x) /\ Pool # {} /\ x.loads = 6 * Cardinality(Pool)
  BY ReaderAt DEF LoadEnqueued
<1>2. "enqueued" \in x.todo /\ Reads(r, next)
  BY DEF LoadEnqueued, Counting
<1>3. /\ Len(queue) \in Nat /\ Len(accepted) \in Nat /\ TakenCount = Len(accepted) - Len(queue)
      /\ enqueued \in Nat /\ Cardinality(Counting) \in Nat
      /\ Len(accepted) = enqueued + Cardinality(Counting)
  BY Lengths, FS_CardinalityType, TypeParts DEF TakenCount, SentCounted, TypeInv, IntakeType
<1> HIDE DEF x
<1>4. next \in ReaderStates
  BY <1>1, <1>3 DEF ReaderStates
<1>5. /\ next.loads = x.loads /\ next.sums = x.sums /\ next.listed = x.listed
      /\ next.todo = x.todo \ {"enqueued"} /\ next.depth = x.depth
      /\ next.enqueued = enqueued /\ next.uncounted = Cardinality(Counting)
  BY <1>1 DEF ReaderStates
<1> HIDE DEF next
<1>6. OutcomesSeen(next) = OutcomesSeen(x)
  BY <1>5 DEF OutcomesSeen
<1>7. OutcomesSeen(next) <= next.enqueued + next.uncounted
  <2>1. OutcomesSeen(x) \in Nat /\ OutcomesSeen(x) <= SumFunction(HandledBy)
    BY <1>1, SeenSoFar
  <2>2. SumFunction(HandledBy) + Cardinality(Unfinished) = TakenCount
    BY DEF OutcomesTaken
  <2>3. Cardinality(Unfinished) \in Nat /\ SumFunction(HandledBy) \in Int
    BY SumTypes
  <2> QED BY <1>3, <1>5, <1>6, <2>1, <2>2, <2>3
<1>8. ~ next.listed
  <2>1. x.todo # {} /\ (x.listed => x.todo = {})
    BY <1>1, <1>2 DEF ReaderInv
  <2> QED BY <1>5, <2>1, Zenon
<1>9. "depth" \notin next.todo => OutcomesSeen(next) + next.depth <= Len(accepted)
  BY <1>1, <1>5, <1>6 DEF ReaderInv
<1>10. /\ next.loads <= 6 * Cardinality(Pool)
       /\ \A k \in Counters :
              next.sums[k] <= SumFunctionOnSet(OfWorkers(k), Loaded(Pool, k, next.loads))
       /\ Pool # {} /\ next.loads = 6 * Cardinality(Pool)
  BY <1>1, <1>5 DEF ReaderInv
<1>11. ReaderInv(next)
  BY <1>7, <1>8, <1>9, <1>10 DEF ReaderInv
<1> QED BY <1>2, <1>4, <1>11, ReadsMoves

\* The failures that the store does not know yet are at most one per worker.
LEMMA FewFailing ==
    ASSUME TypeInv
    PROVE  /\ Cardinality(Failing("error")) \in Nat /\ Cardinality(Failing("anomaly")) \in Nat
           /\ Cardinality(Failing("error")) + Cardinality(Failing("anomaly")) <= Cardinality(Pool)
<1> DEFINE e == Failing("error")
           a == Failing("anomaly")
<1>1. e \subseteq Pool /\ a \subseteq Pool /\ e \cap a = {}
  BY DEF Failing, Pool
<1> HIDE DEF e, a
<1>2. IsFiniteSet(Pool) /\ Cardinality(Pool) \in Nat
  BY PoolFinite
<1>3. IsFiniteSet(e) /\ IsFiniteSet(a)
  BY <1>1, <1>2, FS_Subset
<1>4. Cardinality(e \cup a) = Cardinality(e) + Cardinality(a) - Cardinality(e \cap a)
  BY <1>3, FS_Union
<1>5. Cardinality(e \cup a) <= Cardinality(Pool)
  <2>1. e \cup a \subseteq Pool
    BY <1>1
  <2> QED BY <1>2, <2>1, FS_Subset
<1>6. Cardinality(e \cap a) = 0
  BY <1>1, FS_EmptySet, Zenon
<1>7. Cardinality(e) \in Nat /\ Cardinality(a) \in Nat
  BY <1>3, FS_CardinalityType
<1>8. Cardinality(e) + Cardinality(a) <= Cardinality(Pool)
  BY <1>2, <1>4, <1>5, <1>6, <1>7
<1> QED BY <1>7, <1>8 DEF e, a

\* Sums over the sensors.
LEMMA SensorSumType ==
    ASSUME TypeInv, Known, NEW k \in SensorCounters
    PROVE  SumOf(k) = SumFunction(OfSensors(k)) /\ SumFunction(OfSensors(k)) \in Nat
<1>1. sensors \in [DOMAIN sensors -> Entry] /\ IsFiniteSet(DOMAIN sensors)
  BY DEF TypeInv, TypeOK, Known
<1>2. DOMAIN OfSensors(k) = DOMAIN sensors /\ \A s \in DOMAIN sensors : OfSensors(k)[s] \in Nat
  BY <1>1, CounterTypes DEF OfSensors
<1>3. SumFunctionOnSet(OfSensors(k), DOMAIN sensors) \in Nat
  BY <1>1, <1>2, SumType
<1>4. SumFunction(OfSensors(k)) = SumFunctionOnSet(OfSensors(k), DOMAIN sensors)
  BY <1>2, Zenon DEF SumFunction
<1>5. SumOf(k) = SumFunction(OfSensors(k))
  BY Zenon DEF SumOf, OfSensors
<1> QED BY <1>3, <1>4, <1>5

LEMMA ListSensorsStep ==
    ASSUME TypeInv, Known, OutcomeSums, Readings, NEW r \in Readers, ListSensors(r)
    PROVE  Readings'
<1> DEFINE x == reading[r]
           next == [x EXCEPT !.listed = TRUE, !.messages = SumOf("messageCount"),
                             !.failures = SumOf("errorCount") + SumOf("anomalyCount")]
<1>1. x \in ReaderStates /\ ReaderInv(x) /\ Pool # {} /\ x.loads = 6 * Cardinality(Pool)
  BY ReaderAt DEF ListSensors, HasStats
<1>2. x.todo = {} /\ Reads(r, next)
  BY DEF ListSensors, HasStats
<1>3. /\ SumOf("messageCount") = SumFunction(OfSensors("messageCount"))
      /\ SumOf("errorCount") = SumFunction(OfSensors("errorCount"))
      /\ SumOf("anomalyCount") = SumFunction(OfSensors("anomalyCount"))
      /\ SumOf("messageCount") \in Nat /\ SumOf("errorCount") \in Nat
      /\ SumOf("anomalyCount") \in Nat
  BY SensorSumType DEF SensorCounters
<1> HIDE DEF x
<1>4. next \in ReaderStates
  <2>1. ASSUME NEW m \in Nat, NEW f \in Nat
        PROVE  [x EXCEPT !.listed = TRUE, !.messages = m, !.failures = f] \in ReaderStates
    BY <1>1, <2>1 DEF ReaderStates
  <2>2. SumOf("errorCount") + SumOf("anomalyCount") \in Nat
    BY <1>3
  <2> QED BY <1>3, <2>1, <2>2
<1>5. /\ next.loads = x.loads /\ next.sums = x.sums /\ next.todo = x.todo
      /\ next.depth = x.depth /\ next.enqueued = x.enqueued /\ next.uncounted = x.uncounted
      /\ next.messages = SumOf("messageCount")
      /\ next.failures = SumOf("errorCount") + SumOf("anomalyCount")
  BY <1>1 DEF ReaderStates
<1> HIDE DEF next
<1>6. OutcomesSeen(next) = OutcomesSeen(x) /\ FailuresSeen(next) = FailuresSeen(x)
  BY <1>5 DEF OutcomesSeen, FailuresSeen
<1>7. /\ OutcomesSeen(x) \in Nat /\ FailuresSeen(x) \in Nat
      /\ OutcomesSeen(x) <= SumFunction(HandledBy)
      /\ FailuresSeen(x) <= SumFunction(OfWorkers("errors")) + SumFunction(OfWorkers("anomalies"))
  BY <1>1, SeenSoFar
<1>8. OutcomesSeen(next) <= next.messages
  <2>1. SumFunction(OfSensors("messageCount")) = SumFunction(HandledBy) + Cardinality(InHand)
    BY DEF OutcomeSums
  <2>2. Cardinality(InHand) \in Nat /\ SumFunction(HandledBy) \in Int
    <3>1. IsFiniteSet(InHand)
      BY FS_Subset, ProcessorAssumption DEF InHand
    <3> QED BY <3>1, FS_CardinalityType, SumTypes
  <2> QED BY <1>3, <1>5, <1>6, <1>7, <2>1, <2>2
<1>9. FailuresSeen(next) <= next.failures + Cardinality(Pool)
  <2>1. /\ SumFunction(OfWorkers("errors"))
             = SumFunction(OfSensors("errorCount")) + Cardinality(Failing("error"))
        /\ SumFunction(OfWorkers("anomalies"))
             = SumFunction(OfSensors("anomalyCount")) + Cardinality(Failing("anomaly"))
    BY DEF OutcomeSums
  <2>2. Cardinality(Pool) \in Nat
    BY PoolFinite
  <2> QED BY <1>3, <1>5, <1>6, <1>7, <2>1, <2>2, FewFailing
<1>10. /\ next.loads <= 6 * Cardinality(Pool)
       /\ \A k \in Counters :
              next.sums[k] <= SumFunctionOnSet(OfWorkers(k), Loaded(Pool, k, next.loads))
       /\ Pool # {} /\ next.loads = 6 * Cardinality(Pool)
       /\ OutcomesSeen(next) + next.depth <= Len(accepted)
       /\ OutcomesSeen(next) <= next.enqueued + next.uncounted
       /\ next.todo = {}
  BY <1>1, <1>2, <1>5, <1>6 DEF ReaderInv
<1>11. ReaderInv(next)
  BY <1>8, <1>9, <1>10 DEF ReaderInv
<1> QED BY <1>2, <1>4, <1>11, ReadsMoves

-----------------------------------------------------------------------------
(* Readers and processor together.                                          *)

StatInv == TypeInv /\ Channel /\ Known /\ OutcomeSums /\ Sums /\ Readings

LEMMA StatInvInit == StatInit => StatInv
<1> SUFFICES ASSUME StatInit PROVE StatInv
  OBVIOUS
<1>1. TypeInv /\ Channel /\ Known /\ OutcomeSums /\ Sums
  BY TypeInit, ChannelInit, KnownInit, OutcomeInit, SumsInit DEF StatInit
<1>2. Unread \in ReaderStates
  BY DEF Unread, ReaderStates
<1>3. ReaderInv(Unread)
  <2>1. /\ Unread.loads = 0 /\ Unread.todo = {"depth", "enqueued"} /\ Unread.listed = FALSE
        /\ \A k \in Counters : Unread.sums[k] = 0
    BY DEF Unread
  <2>2. IsFiniteSet(Pool) /\ Cardinality(Pool) \in Nat
    BY PoolFinite
  <2>3. \A k \in Counters : SumFunctionOnSet(OfWorkers(k), Loaded(Pool, k, 0)) = 0
    BY <2>2, LoadedType, SumEmpty
  <2> QED BY <2>1, <2>2, <2>3 DEF ReaderInv
<1>4. Readings
  BY <1>2, <1>3 DEF StatInit, Readings
<1> QED BY <1>1, <1>4 DEF StatInv

\* A step of the processor, or of a reader.
LEMMA StatInvStep == StatInv /\ [StatNext]_statVars => StatInv'
<1> SUFFICES ASSUME StatInv, [StatNext]_statVars PROVE StatInv'
  OBVIOUS
<1>0. /\ TypeInv /\ Channel /\ Known /\ OutcomeSums /\ Sums /\ Readings
      /\ OutcomesTaken /\ SentCounted
  BY DEF StatInv, Sums
<1>1. ASSUME [Next]_vars PROVE (TypeInv /\ Channel /\ Known /\ OutcomeSums /\ Sums)'
  <2>1. TypeInv' /\ Channel' /\ Known'
    BY <1>0, <1>1, TypeStep, ChannelStep, KnownStep
  <2>2. OutcomeSums' /\ OutcomesTaken' /\ SentCounted'
    BY <1>0, <1>1, <2>1, OutcomeStep, OutcomesTakenStep, SentCountedStep
  <2> QED BY <2>1, <2>2 DEF Sums
<1>2. CASE [Next]_vars /\ UNCHANGED reading
  <2>1. TypeInv'
    BY <1>1, <1>2
  <2>2. ASSUME NEW r \in Readers, NEW x \in ReaderStates, reading'[r] = x PROVE ReaderInv(x)'
    <3>1. ReaderInv(x)
      BY <1>0, <1>2, <2>2 DEF Readings
    <3> QED BY <1>0, <1>2, <2>1, <3>1, ReaderInvStep
  <2>3. Readings'
    BY <1>0, <1>2, <2>2 DEF Readings
  <2> QED BY <1>1, <1>2, <2>3 DEF StatInv
<1>3. ASSUME NEW r \in Readers, StatsStep(r) \/ ListSensors(r) PROVE StatInv'
  <2>1. Readings'
    BY <1>0, <1>3, LoadCounterStep, LoadDepthStep, LoadEnqueuedStep, ListSensorsStep
       DEF StatsStep
  <2>2. UNCHANGED vars
    BY <1>3 DEF StatsStep, LoadCounter, LoadDepth, LoadEnqueued, ListSensors, Reads
  <2> QED BY <1>1, <2>1, <2>2 DEF StatInv
<1> QED BY <1>2, <1>3 DEF StatNext, statVars

\* The figures of a response bound each other: no message is seen both in the queue and
\* as an outcome, outcomes exceed what was counted as sent by no more than the callers
\* about to count, and the sensors listed afterwards have all of them.
THEOREM ResponseAddsUpCorrect == StatSpec => []ResponseAddsUp
<1>1. StatInv => ResponseAddsUp
  <2> SUFFICES ASSUME StatInv, NEW r \in Readers
               PROVE  /\ HasStats(r) =>
                             /\ Handled(r) + reading[r].depth <= Len(accepted)
                             /\ Handled(r) <= reading[r].enqueued + reading[r].uncounted
                      /\ reading[r].listed =>
                             /\ Handled(r) <= reading[r].messages
                             /\ reading[r].sums["errors"] + reading[r].sums["anomalies"]
                                  <= reading[r].failures + Cardinality(Pool)
    BY DEF ResponseAddsUp
  <2>1. ReaderInv(reading[r])
    BY ReaderAt DEF StatInv
  <2>2. HasStats(r) => reading[r].todo = {}
    BY DEF HasStats
  <2>3. Handled(r) = OutcomesSeen(reading[r])
    BY DEF Handled, OutcomesSeen
  <2> QED BY <2>1, <2>2, <2>3 DEF ReaderInv, FailuresSeen
<1>2. StatSpec => []StatInv
  BY StatInvInit, StatInvStep, PTL DEF StatSpec
<1> QED BY <1>1, <1>2, PTL

-----------------------------------------------------------------------------
(* The file (Replay).                                                       *)

\* The place of a message is that where it stands in Stream.
LEMMA StreamPlaces ==
    ASSUME ReplaySetting
    PROVE  /\ Len(Stream) \in Nat /\ DOMAIN Stream = 1 .. Len(Stream)
           /\ \A m \in Messages : PlaceOf(m) \in 1 .. Len(Stream) /\ Stream[PlaceOf(m)] = m
           /\ \A i \in 1 .. Len(Stream) : Stream[i] \in Messages /\ PlaceOf(Stream[i]) = i
<1>1. /\ Len(Stream) \in Nat /\ DOMAIN Stream = 1 .. Len(Stream)
      /\ \A i \in 1 .. Len(Stream) : Stream[i] \in Messages
  BY DEF ReplaySetting
<1>2. ASSUME NEW m \in Messages PROVE \E i \in DOMAIN Stream : Stream[i] = m
  BY DEF ReplaySetting, ToSet
<1>3. ASSUME NEW m \in Messages PROVE PlaceOf(m) \in DOMAIN Stream /\ Stream[PlaceOf(m)] = m
  BY <1>2, Zenon DEF PlaceOf
<1>4. \A i, j \in DOMAIN Stream : Stream[i] = Stream[j] => i = j
  BY DEF ReplaySetting, IsInjective
<1> QED BY <1>1, <1>3, <1>4

LineStates == [msgs : Seq(Messages), sound : BOOLEAN, ended : BOOLEAN]

\* What a message's write left, seen from a line that holds bytes of it: only the last
\* message of a line may have its newline, and the line is sound when all its messages are.
LineShape(line) ==
    /\ \A k \in 1 .. Len(line.msgs) :
           /\ PlaceOf(line.msgs[k]) <= Len(wrote) /\ wrote[PlaceOf(line.msgs[k])] # "nothing"
           /\ wrote[PlaceOf(line.msgs[k])] \in {"whole", "long"}
                <=> (k = Len(line.msgs) /\ line.ended)
    /\ \A j, k \in 1 .. Len(line.msgs) :
           j < k => PlaceOf(line.msgs[j]) < PlaceOf(line.msgs[k])
    /\ line.sound <=> \A k \in 1 .. Len(line.msgs) :
                          wrote[PlaceOf(line.msgs[k])] \in {"whole", "unended"}

FileType ==
    /\ wrote \in Seq(Writes) /\ Len(wrote) <= Len(Stream)
    /\ file \in Seq(LineStates)

\* The messages stand in the file in the order of Stream, all but those whose write left
\* nothing; all lines but the last one are ended.
FileInv ==
    /\ FileType
    /\ \A l \in 1 .. Len(file) :
           /\ Len(file[l].msgs) > 0 /\ LineShape(file[l])
           /\ l < Len(file) => file[l].ended
    /\ \A l, h \in 1 .. Len(file) : l < h =>
           \A j \in 1 .. Len(file[l].msgs), k \in 1 .. Len(file[h].msgs) :
               PlaceOf(file[l].msgs[j]) < PlaceOf(file[h].msgs[k])
    /\ \A i \in 1 .. Len(wrote) : wrote[i] # "nothing" =>
           \E l \in 1 .. Len(file) : \E k \in 1 .. Len(file[l].msgs) : file[l].msgs[k] = Stream[i]

Over == {"quiet", "timedOut", "notRunning"}

\* Main does one thing after the other.
Control ==
    /\ stopper[Main] # "idle" => waiter[Main] \in Over
    /\ stopper[Main] = "idle" => ~ stopClosed /\ ~ jobsClosed /\ (Pool # {} => isRunning)
    /\ waiter[Main] # "idle" => caller[Main].pc = "idle" /\ lineNum = Len(file) /\ Pool # {}
    /\ reading[Main].loads # 0 \/ reading[Main].todo # {"depth", "enqueued"}
         => waiter[Main] \in Over
    /\ Pool = {} => lineNum = 0 /\ exit = "no"

\* What is played is the beginning of the file, line by line.
Played ==
    /\ lineNum \in Nat /\ lineNum <= Len(file)
    /\ \A l \in 1 .. lineNum : Parses(file[l])
    /\ Len(accepted) = IF caller[Main].pc = "selecting" THEN lineNum - 1 ELSE lineNum
    /\ caller[Main].pc = "selecting" =>
           lineNum > 0 /\ caller[Main].msg = file[lineNum].msgs[1]
    /\ \A i \in 1 .. Len(accepted) : accepted[i] = file[i].msgs[1]
    /\ exit = "failed" =>
           caller[Main].pc = "idle" /\ lineNum < Len(file) /\ ~ Parses(file[lineNum + 1])

CountedBy(n) ==
    SumFunctionOnSet(OfWorkers("processed"), Loaded(Pool, "processed", n))
    + SumFunctionOnSet(OfWorkers("errors"), Loaded(Pool, "errors", n))
    + SumFunctionOnSet(OfWorkers("anomalies"), Loaded(Pool, "anomalies", n))

\* After quiescence the workers finish what they hold, and take nothing more.
Quiesced ==
    /\ "enqueued" \notin reading[Main].todo => reading[Main].enqueued = lineNum
    /\ \A w \in Workers \ Pool, k \in Counters : counts[w][k] = 0
    /\ waiter[Main] = "quiet" =>
           /\ queue = <<>>
           /\ "depth" \notin reading[Main].todo => reading[Main].depth = 0
           /\ CountedBy(reading[Main].loads)
                <= OutcomesSeen(reading[Main]) + Cardinality(Pool \ Unfinished)

LEMMA WrittenFields ==
    ASSUME NEW line \in LineStates, NEW m \in Messages, NEW how \in Writes
    PROVE  /\ Written(line, m, how) \in LineStates
           /\ Len(line.msgs) \in Nat /\ Len(Written(line, m, how).msgs) = Len(line.msgs) + 1
           /\ \A k \in 1 .. Len(line.msgs) :
                  line.msgs[k] \in Messages /\ Written(line, m, how).msgs[k] = line.msgs[k]
           /\ Written(line, m, how).msgs[Len(line.msgs) + 1] = m
           /\ Written(line, m, how).sound <=> line.sound /\ how \in {"whole", "unended"}
           /\ Written(line, m, how).ended <=> how \in {"whole", "long"}
<1>1. line.msgs \in Seq(Messages) /\ line.sound \in BOOLEAN
  BY DEF LineStates
<1>2. /\ Append(line.msgs, m) \in Seq(Messages) /\ Len(line.msgs) \in Nat
      /\ Len(Append(line.msgs, m)) = Len(line.msgs) + 1
      /\ \A k \in 1 .. Len(line.msgs) :
             line.msgs[k] \in Messages /\ Append(line.msgs, m)[k] = line.msgs[k]
      /\ Append(line.msgs, m)[Len(line.msgs) + 1] = m
  BY <1>1, AppendProperties, LenProperties, ElementOfSeq
<1>3. /\ Written(line, m, how).msgs = Append(line.msgs, m)
      /\ Written(line, m, how).sound = (line.sound /\ how \in {"whole", "unended"})
      /\ Written(line, m, how).ended = (how \in {"whole", "long"})
  BY DEF Written
<1>4. Written(line, m, how) \in LineStates
  BY <1>1, <1>2 DEF Written, LineStates
<1> QED BY <1>2, <1>3, <1>4

\* The line behind which a write goes: what is open at the end of the file, or a new one.
LEMMA RecordShape ==
    ASSUME ReplaySetting, FileInv, NEW how \in Writes, Record(how)
    PROVE  /\ Pool = {} /\ Len(wrote) < Len(Stream) /\ Stream[Len(wrote) + 1] \in Messages
           /\ wrote' = Append(wrote, how) /\ UNCHANGED <<statVars, lineNum, exit>>
           /\ how = "nothing" => file' = file
           /\ how # "nothing" =>
                  \E n \in Nat \ {0}, base \in LineStates :
                      /\ file' \in Seq(LineStates) /\ Len(file') = n
                      /\ file'[n] = Written(base, Stream[Len(wrote) + 1], how)
                      /\ \A l \in 1 .. n - 1 :
                             l \in 1 .. Len(file) /\ file'[l] = file[l] /\ file[l].ended
                      /\ ~ base.ended
                      /\ \/ n = Len(file) + 1 /\ base = NewLine
                         \/ n = Len(file) /\ base = file[n]
<1> DEFINE m == Stream[Len(wrote) + 1]
           open == file # <<>> /\ ~ Last(file).ended
<1>1. /\ Pool = {} /\ Len(wrote) < Len(Stream) /\ wrote' = Append(wrote, how)
      /\ UNCHANGED <<statVars, lineNum, exit>>
      /\ file' = IF how = "nothing" THEN file
                 ELSE IF open THEN Front(file) \o <<Written(Last(file), m, how)>>
                 ELSE Append(file, Written(NewLine, m, how))
  BY DEF Record
<1>2. /\ file \in Seq(LineStates) /\ Len(file) \in Nat /\ Len(wrote) \in Nat
      /\ \A l \in 1 .. Len(file) : file[l] \in LineStates
      /\ \A l \in 1 .. Len(file) : l < Len(file) => file[l].ended
  BY LenProperties, ElementOfSeq DEF FileInv, FileType
<1>3. m \in Messages
  <2>1. Len(wrote) + 1 \in 1 .. Len(Stream)
    BY <1>1, <1>2, StreamPlaces
  <2> QED BY <2>1, StreamPlaces
<1> HIDE DEF m
<1>4. NewLine \in LineStates /\ ~ NewLine.ended
  BY EmptySeq DEF NewLine, LineStates
<1>5. CASE how # "nothing" /\ open
  <2> DEFINE n == Len(file)
             base == file[n]
             new == Written(base, m, how)
  <2>1. n \in Nat \ {0} /\ n \in 1 .. Len(file)
    BY <1>2, <1>5, EmptySeq
  <2>2. base \in LineStates /\ ~ base.ended /\ Last(file) = base
    BY <1>2, <1>5, <2>1 DEF Last
  <2>3. new \in LineStates
    BY <1>3, <2>2, WrittenFields
  <2>4. /\ Front(file) \in Seq(LineStates) /\ Len(Front(file)) = n - 1
        /\ \A l \in 1 .. n - 1 : Front(file)[l] = file[l]
    <3> HIDE DEF base, new, n
    <3>1. \A i \in 1 .. n - 1 : file[i] \in LineStates /\ 1 + i - 1 = i
      BY <1>2, <2>1 DEF n
    <3>2. n - 1 - 1 + 1 = n - 1 /\ n - 1 \in Int /\ (1 <= n - 1 \/ n - 1 = 0)
      BY <2>1
    <3>3. Front(file) = SubSeq(file, 1, n - 1)
      BY DEF Front, n
    <3> QED BY <3>1, <3>2, <3>3, SubSeqProperties
  <2>5. file' = Front(file) \o <<new>>
    BY <1>1, <1>5, <2>2
  <2> HIDE DEF new
  <2>6. /\ file' \in Seq(LineStates) /\ Len(file') = n /\ file'[n] = new
        /\ \A l \in 1 .. n - 1 : file'[l] = Front(file)[l]
    <3>1. <<new>> \in Seq(LineStates) /\ Len(<<new>>) = 1 /\ <<new>>[1] = new
      BY <2>3
    <3> DEFINE one == <<new>>
               f == Front(file)
    <3> HIDE DEF one, f, n
    <3>2. /\ f \o one \in Seq(LineStates) /\ Len(f \o one) = Len(f) + Len(one)
          /\ \A i \in 1 .. Len(f) + Len(one) :
                 (f \o one)[i] = IF i <= Len(f) THEN f[i] ELSE one[i - Len(f)]
      BY <2>4, <3>1, ConcatProperties DEF f, one
    <3>3. Len(f) = n - 1 /\ Len(one) = 1 /\ one[1] = new /\ n \in Nat \ {0}
      BY <2>1, <2>4, <3>1 DEF f, one
    <3>4. file' = f \o one
      BY <2>5 DEF f, one
    <3> QED BY <3>2, <3>3, <3>4 DEF f
  <2>7. \A l \in 1 .. n - 1 : l \in 1 .. Len(file) /\ file'[l] = file[l] /\ file[l].ended
    <3>1. \A l \in 1 .. n - 1 : l \in 1 .. Len(file) /\ l < Len(file)
      BY <1>2
    <3> QED BY <1>2, <2>4, <2>6, <3>1
  <2> HIDE DEF n
  <2>8. \E k \in Nat \ {0}, b \in LineStates :
            /\ file' \in Seq(LineStates) /\ Len(file') = k
            /\ file'[k] = Written(b, m, how)
            /\ \A l \in 1 .. k - 1 :
                   l \in 1 .. Len(file) /\ file'[l] = file[l] /\ file[l].ended
            /\ ~ b.ended
            /\ \/ k = Len(file) + 1 /\ b = NewLine
               \/ k = Len(file) /\ b = file[k]
    <3>1. n = Len(file)
      BY DEF n
    <3> n \in Nat \ {0} /\ base \in LineStates
      BY <2>1, <2>2
    <3> WITNESS n \in Nat \ {0}, base \in LineStates
    <3> QED BY <2>2, <2>6, <2>7, <3>1 DEF new
  <2> QED BY <1>1, <1>3, <1>5, <2>8 DEF m
<1>6. CASE how # "nothing" /\ ~ open
  <2> DEFINE n == Len(file) + 1
             new == Written(NewLine, m, how)
  <2>1. n \in Nat \ {0} /\ n - 1 = Len(file)
    BY <1>2
  <2>2. new \in LineStates
    BY <1>3, <1>4, WrittenFields
  <2>3. file' = Append(file, new)
    BY <1>1, <1>6
  <2> HIDE DEF new
  <2>4. /\ file' \in Seq(LineStates) /\ Len(file') = n /\ file'[n] = new
        /\ \A l \in 1 .. Len(file) : file'[l] = file[l]
    BY <1>2, <2>2, <2>3, AppendProperties
  <2>5. \A l \in 1 .. Len(file) : file[l].ended
    <3>1. CASE file = <<>>
      BY <1>2, <3>1, EmptySeq
    <3>2. CASE file # <<>>
      <4>1. file[Len(file)].ended
        BY <1>6, <3>2 DEF Last
      <4> QED BY <1>2, <4>1
    <3> QED BY <3>1, <3>2
  <2> HIDE DEF n
  <2>6. \E k \in Nat \ {0}, b \in LineStates :
            /\ file' \in Seq(LineStates) /\ Len(file') = k
            /\ file'[k] = Written(b, m, how)
            /\ \A l \in 1 .. k - 1 :
                   l \in 1 .. Len(file) /\ file'[l] = file[l] /\ file[l].ended
            /\ ~ b.ended
            /\ \/ k = Len(file) + 1 /\ b = NewLine
               \/ k = Len(file) /\ b = file[k]
    <3>1. n = Len(file) + 1
      BY DEF n
    <3> n \in Nat \ {0} /\ NewLine \in LineStates
      BY <1>4, <2>1
    <3> WITNESS n \in Nat \ {0}, NewLine \in LineStates
    <3> QED BY <1>4, <2>1, <2>4, <2>5, <3>1 DEF new
  <2> QED BY <1>1, <1>3, <1>6, <2>6 DEF m
<1>7. CASE how = "nothing"
  BY <1>1, <1>3, <1>7 DEF m
<1> QED BY <1>5, <1>6, <1>7

\* A write does not change what became of the ones before it.
LEMMA LineShapeKept ==
    ASSUME ReplaySetting, FileType, NEW how \in Writes, wrote' = Append(wrote, how),
           NEW line \in LineStates, LineShape(line)
    PROVE  LineShape(line)'
<1>1. /\ Len(wrote) \in Nat /\ Len(wrote') = Len(wrote) + 1
      /\ \A i \in 1 .. Len(wrote) : wrote'[i] = wrote[i]
  BY AppendProperties, LenProperties DEF FileType
<1>2. \A k \in 1 .. Len(line.msgs) : PlaceOf(line.msgs[k]) \in 1 .. Len(wrote)
  <2>1. \A k \in 1 .. Len(line.msgs) : line.msgs[k] \in Messages
    BY ElementOfSeq DEF LineStates
  <2> QED BY <1>1, <2>1, StreamPlaces DEF LineShape
<1>3. \A k \in 1 .. Len(line.msgs) :
          /\ PlaceOf(line.msgs[k]) <= Len(wrote')
          /\ wrote'[PlaceOf(line.msgs[k])] = wrote[PlaceOf(line.msgs[k])]
  BY <1>1, <1>2
<1> QED BY <1>3 DEF LineShape

\* A write behind a line that is not ended keeps its shape.
LEMMA LineShapeWritten ==
    ASSUME ReplaySetting, FileType, NEW how \in Writes, wrote' = Append(wrote, how),
           how # "nothing", NEW m \in Messages, PlaceOf(m) = Len(wrote) + 1,
           NEW line \in LineStates, LineShape(line), ~ line.ended
    PROVE  LineShape(Written(line, m, how))'
<1> DEFINE new == Written(line, m, how)
           n == Len(line.msgs)
<1>1. /\ Len(wrote) \in Nat /\ Len(wrote') = Len(wrote) + 1
      /\ \A i \in 1 .. Len(wrote) : wrote'[i] = wrote[i]
      /\ wrote'[Len(wrote) + 1] = how
  BY AppendProperties, LenProperties DEF FileType
<1>3. /\ new \in LineStates /\ n \in Nat /\ Len(new.msgs) = n + 1
      /\ \A k \in 1 .. n : line.msgs[k] \in Messages /\ new.msgs[k] = line.msgs[k]
      /\ new.msgs[n + 1] = m
      /\ new.sound <=> line.sound /\ how \in {"whole", "unended"}
      /\ new.ended <=> how \in {"whole", "long"}
  BY WrittenFields
<1> HIDE DEF new, n
<1>4. \A k \in 1 .. n : PlaceOf(line.msgs[k]) \in 1 .. Len(wrote)
  BY <1>1, <1>3, StreamPlaces DEF LineShape, n
<1> DEFINE old(k) == wrote[PlaceOf(line.msgs[k])]
           fate(k) == wrote'[PlaceOf(new.msgs[k])]
<1>5. /\ \A k \in 1 .. n : /\ PlaceOf(new.msgs[k]) = PlaceOf(line.msgs[k])
                           /\ PlaceOf(new.msgs[k]) \in 1 .. Len(wrote) /\ fate(k) = old(k)
      /\ PlaceOf(new.msgs[n + 1]) = Len(wrote) + 1 /\ fate(n + 1) = how
  BY <1>1, <1>3, <1>4
<1>6. /\ \A k \in 1 .. n : old(k) # "nothing" /\ old(k) \notin {"whole", "long"}
      /\ \A j, k \in 1 .. n : j < k => PlaceOf(line.msgs[j]) < PlaceOf(line.msgs[k])
      /\ line.sound <=> \A k \in 1 .. n : old(k) \in {"whole", "unended"}
  BY DEF LineShape, n
<1> HIDE DEF old, fate
<1>7. \A k \in 1 .. n + 1 : k \in 1 .. n \/ k = n + 1
  BY <1>3
<1>8. \A k \in 1 .. n : k \in 1 .. n + 1 /\ k # n + 1 /\ k < n + 1
  BY <1>3
<1>9. n + 1 \in 1 .. n + 1
  BY <1>3
<1>10. \A k \in 1 .. n + 1 :
           /\ PlaceOf(new.msgs[k]) <= Len(wrote') /\ fate(k) # "nothing"
           /\ fate(k) \in {"whole", "long"} <=> (k = n + 1 /\ new.ended)
  <2>1. \A k \in 1 .. n + 1 : PlaceOf(new.msgs[k]) <= Len(wrote')
    BY <1>1, <1>5, <1>7
  <2>2. \A k \in 1 .. n + 1 :
            /\ fate(k) # "nothing"
            /\ fate(k) \in {"whole", "long"} <=> (k = n + 1 /\ new.ended)
    BY <1>3, <1>5, <1>6, <1>7, <1>8
  <2> QED BY <2>1, <2>2
<1>11. ASSUME NEW j \in 1 .. n + 1, NEW k \in 1 .. n + 1, j < k
       PROVE  PlaceOf(new.msgs[j]) < PlaceOf(new.msgs[k])
  <2>1. j \in 1 .. n
    BY <1>3, <1>11
  <2>2. CASE k \in 1 .. n
    BY <1>5, <1>6, <1>11, <2>1, <2>2
  <2>3. CASE k = n + 1
    BY <1>1, <1>5, <2>1, <2>3
  <2> QED BY <1>7, <2>2, <2>3
<1>12. new.sound <=> \A k \in 1 .. n + 1 : fate(k) \in {"whole", "unended"}
  BY <1>3, <1>5, <1>6, <1>7, <1>8, <1>9
<1>13. LineShape(new)'
  BY <1>3, <1>10, <1>11, <1>12 DEF LineShape, fate
<1> QED BY <1>13 DEF new

LEMMA FileInvInit == ReplayInit /\ ReplaySetting => FileInv
<1> SUFFICES ASSUME ReplayInit, ReplaySetting PROVE FileInv
  OBVIOUS
<1>1. file = <<>> /\ wrote = <<>> /\ Len(<<>>) = 0 /\ Len(Stream) \in Nat
  BY StreamPlaces DEF ReplayInit
<1>2. FileType
  BY <1>1 DEF FileType
<1> QED BY <1>1, <1>2 DEF FileInv

\* Record keeps the order of the file, whatever its write leaves.
LEMMA RecordFileInv ==
    ASSUME ReplaySetting, FileInv, NEW how \in Writes, Record(how) PROVE FileInv'
<1>1. /\ wrote \in Seq(Writes) /\ Len(wrote) \in Nat /\ file \in Seq(LineStates)
      /\ Len(file) \in Nat /\ \A l \in 1 .. Len(file) : file[l] \in LineStates
      /\ Len(wrote) < Len(Stream) /\ wrote' = Append(wrote, how) /\ Len(Stream) \in Nat
      /\ Len(wrote) + 1 \in 1 .. Len(Stream)
      /\ FileType
  <2>1. wrote \in Seq(Writes) /\ file \in Seq(LineStates) /\ FileType
    BY DEF FileInv, FileType
  <2>2. Len(wrote) \in Nat /\ Len(file) \in Nat /\ \A l \in 1 .. Len(file) : file[l] \in LineStates
    BY <2>1, LenProperties, ElementOfSeq
  <2>3. Len(wrote) < Len(Stream) /\ wrote' = Append(wrote, how)
    BY RecordShape
  <2>4. Len(Stream) \in Nat
    BY StreamPlaces
  <2>5. Len(wrote) + 1 \in 1 .. Len(Stream)
    BY <2>2, <2>3, <2>4
  <2> QED BY <2>1, <2>2, <2>3, <2>4, <2>5
<1>2. PICK m \in Messages : m = Stream[Len(wrote) + 1] /\ PlaceOf(m) = Len(wrote) + 1
  BY <1>1, StreamPlaces
<1>3. /\ wrote' \in Seq(Writes) /\ Len(wrote') = Len(wrote) + 1 /\ Len(wrote') <= Len(Stream)
      /\ \A i \in 1 .. Len(wrote) : wrote'[i] = wrote[i]
      /\ wrote'[Len(wrote) + 1] = how
  BY <1>1, AppendProperties
<1>4. \A l \in 1 .. Len(file) : LineShape(file[l]) /\ Len(file[l].msgs) > 0
  BY DEF FileInv
<1>5. ASSUME NEW line \in LineStates, LineShape(line) PROVE LineShape(line)'
  BY <1>1, <1>5, LineShapeKept
<1>6. \A i \in 1 .. Len(wrote) : wrote[i] # "nothing" =>
          \E l \in 1 .. Len(file) : \E k \in 1 .. Len(file[l].msgs) : file[l].msgs[k] = Stream[i]
  BY DEF FileInv
<1>7. \A i \in 1 .. Len(wrote') : i \in 1 .. Len(wrote) \/ i = Len(wrote) + 1
  BY <1>1, <1>3
<1>8. CASE how = "nothing"
  <2>1. file' = file
    BY <1>8, RecordShape
  <2>2. FileType'
    BY <1>1, <1>3, <2>1 DEF FileType
  <2>3. \A l \in 1 .. Len(file) : file'[l] = file[l] /\ LineShape(file[l])'
    <3>1. ASSUME NEW l \in 1 .. Len(file), NEW line \in LineStates, line = file[l]
          PROVE  LineShape(line)'
      BY <1>4, <1>5, <3>1
    <3>2. ASSUME NEW l \in 1 .. Len(file), NEW line \in LineStates, line = file'[l]
          PROVE  LineShape(line)'
      BY <2>1, <3>1, <3>2
    <3> QED BY <1>1, <2>1, <3>2
  <2>4. \A i \in 1 .. Len(wrote') : wrote'[i] # "nothing" =>
            \E l \in 1 .. Len(file) : \E k \in 1 .. Len(file[l].msgs) : file[l].msgs[k] = Stream[i]
    BY <1>3, <1>6, <1>7, <1>8
  <2> QED BY <2>1, <2>2, <2>3, <2>4 DEF FileInv
<1>9. CASE how # "nothing"
  <2>1. PICK n \in Nat \ {0}, base \in LineStates :
            /\ file' \in Seq(LineStates) /\ Len(file') = n
            /\ file'[n] = Written(base, m, how)
            /\ \A l \in 1 .. n - 1 :
                   l \in 1 .. Len(file) /\ file'[l] = file[l] /\ file[l].ended
            /\ ~ base.ended
            /\ \/ n = Len(file) + 1 /\ base = NewLine
               \/ n = Len(file) /\ base = file[n]
    BY <1>2, <1>9, RecordShape
  <2> DEFINE new == Written(base, m, how)
             c == Len(base.msgs)
  <2>2. /\ new \in LineStates /\ c \in Nat /\ Len(new.msgs) = c + 1
        /\ \A k \in 1 .. c : base.msgs[k] \in Messages /\ new.msgs[k] = base.msgs[k]
        /\ new.msgs[c + 1] = m
    BY <1>2, WrittenFields
  <2>3. LineShape(base)
    <3>1. CASE base = NewLine
      <4>1. /\ base.msgs = <<>> /\ base.sound = TRUE /\ Len(<<>>) = 0
            /\ \A k \in 1 .. Len(base.msgs) : FALSE
        BY <3>1 DEF NewLine
      <4> QED BY <4>1 DEF LineShape
    <3>2. CASE n = Len(file) /\ base = file[n]
      <4>1. n \in 1 .. Len(file)
        BY <2>1, <3>2
      <4> QED BY <1>4, <3>2, <4>1
    <3> QED BY <2>1, <3>1, <3>2
  <2>4. LineShape(new)'
    BY <1>1, <1>2, <1>9, <2>1, <2>3, LineShapeWritten
  <2> HIDE DEF new, c
  <2>5. \A l \in 1 .. n : l \in 1 .. n - 1 \/ l = n
    BY <2>1
  <2>6. file'[n] = new
    BY <2>1 DEF new
  <2>7. ASSUME NEW l \in 1 .. n, NEW line \in LineStates, line = file'[l]
        PROVE  LineShape(line)' /\ Len(line.msgs) > 0
    <3>1. CASE l = n
      BY <2>2, <2>4, <2>6, <2>7, <3>1
    <3>2. CASE l \in 1 .. n - 1
      <4>1. l \in 1 .. Len(file) /\ line = file[l]
        BY <2>1, <2>7, <3>2
      <4> QED BY <1>4, <1>5, <4>1
    <3> QED BY <2>5, <3>1, <3>2
  <2>8. \A l \in 1 .. n : file'[l] \in LineStates
    BY <2>1, ElementOfSeq
  <2>9. \A l \in 1 .. n : /\ Len(file'[l].msgs) > 0 /\ LineShape(file[l])'
                          /\ l < n => file'[l].ended
    <3>1. \A l \in 1 .. n : Len(file'[l].msgs) > 0 /\ LineShape(file[l])'
      BY <2>7, <2>8
    <3>2. \A l \in 1 .. n : l < n => file'[l].ended
      BY <2>1, <2>5
    <3> QED BY <3>1, <3>2
  <2>10. \A l \in 1 .. Len(file) : \A k \in 1 .. Len(file[l].msgs) :
             PlaceOf(file[l].msgs[k]) <= Len(wrote) /\ PlaceOf(file[l].msgs[k]) \in Int
    <3>1. ASSUME NEW l \in 1 .. Len(file), NEW k \in 1 .. Len(file[l].msgs)
          PROVE  file[l].msgs[k] \in Messages
      BY <1>1, <3>1, ElementOfSeq DEF LineStates
    <3> QED BY <1>4, <3>1, StreamPlaces DEF LineShape
  <2>11. ASSUME NEW l \in 1 .. n, NEW h \in 1 .. n, l < h,
                NEW j \in 1 .. Len(file'[l].msgs), NEW k \in 1 .. Len(file'[h].msgs)
         PROVE  PlaceOf(file'[l].msgs[j]) < PlaceOf(file'[h].msgs[k])
    <3>1. l \in 1 .. n - 1 /\ l \in 1 .. Len(file) /\ file'[l] = file[l]
      BY <2>1, <2>11
    <3>2. CASE h \in 1 .. n - 1
      <4>1. h \in 1 .. Len(file) /\ file'[h] = file[h]
        BY <2>1, <3>2
      <4> QED BY <2>11, <3>1, <4>1 DEF FileInv
    <3>3. CASE h = n /\ k \in 1 .. c
      <4>1. base = file[n] /\ n \in 1 .. Len(file)
        <5>1. base # NewLine
          BY <2>2, <3>3 DEF NewLine, c
        <5> QED BY <2>1, <5>1
      <4>2. file'[h].msgs[k] = file[n].msgs[k] /\ k \in 1 .. Len(file[n].msgs)
        BY <2>2, <2>6, <3>3, <4>1 DEF c
      <4> QED BY <2>11, <3>1, <3>3, <4>1, <4>2 DEF FileInv
    <3>4. CASE h = n /\ k = c + 1
      <4>1. PlaceOf(file'[h].msgs[k]) = Len(wrote) + 1
        BY <1>2, <2>2, <2>6, <3>4
      <4>2. PlaceOf(file[l].msgs[j]) <= Len(wrote) /\ PlaceOf(file[l].msgs[j]) \in Int
        BY <2>10, <3>1
      <4> QED BY <1>1, <3>1, <4>1, <4>2
    <3> QED BY <2>2, <2>5, <2>6, <3>2, <3>3, <3>4
  <2>12. ASSUME NEW i \in 1 .. Len(wrote'), wrote'[i] # "nothing"
         PROVE  \E l \in 1 .. n : \E k \in 1 .. Len(file'[l].msgs) : file'[l].msgs[k] = Stream[i]
    <3>1. CASE i = Len(wrote) + 1
      <4>1. n \in 1 .. n /\ c + 1 \in 1 .. Len(file'[n].msgs) /\ file'[n].msgs[c + 1] = Stream[i]
        BY <1>2, <2>2, <2>6, <3>1
      <4> QED BY <4>1
    <3>2. CASE i \in 1 .. Len(wrote)
      <4>0. PICK l \in 1 .. Len(file) :
                \E k \in 1 .. Len(file[l].msgs) : file[l].msgs[k] = Stream[i]
        BY <1>3, <1>6, <2>12, <3>2
      <4>1. PICK k \in 1 .. Len(file[l].msgs) : file[l].msgs[k] = Stream[i]
        BY <4>0
      <4>2. CASE l \in 1 .. n - 1
        BY <2>1, <4>1, <4>2
      <4>3. CASE l = n
        <5>1. base = file[n]
          BY <1>1, <2>1, <4>3
        <5>2. n \in 1 .. n /\ k \in 1 .. Len(file'[n].msgs) /\ file'[n].msgs[k] = Stream[i]
          BY <2>2, <2>6, <4>1, <4>3, <5>1 DEF c
        <5> QED BY <5>2
      <4>4. l \in 1 .. n - 1 \/ l = n
        BY <1>1, <2>1
      <4> QED BY <4>2, <4>3, <4>4
    <3> QED BY <1>7, <3>1, <3>2
  <2>13. FileType'
    BY <1>3, <2>1, StreamPlaces DEF FileType
  <2>14. Len(file') = n
    BY <2>1
  <2> QED BY <2>9, <2>11, <2>12, <2>13, <2>14 DEF FileInv
<1> QED BY <1>8, <1>9

LEMMA FileKept == ASSUME FileInv, UNCHANGED fileVars PROVE FileInv'
BY DEF fileVars, FileInv, FileType, LineShape

-----------------------------------------------------------------------------
(* The player.                                                              *)

\* Main is the only goroutine that enqueues, stops, waits and reads.
LEMMA OnlyMain ==
    ASSUME ReplaySetting, StatInv
    PROVE  /\ Enqueuers = {Main} /\ Main \in Callers
           /\ caller \in [{Main} -> CallerStates]
           /\ stopper \in [{Main} ->
                  {"idle", "storing", "closingStop", "closingJobs", "waiting", "returned", "noop"}]
           /\ waiter \in [{Main} ->
                  {"idle", "checking", "looking", "quiet", "timedOut", "notRunning"}]
           /\ reading \in [{Main} -> ReaderStates] /\ ReaderInv(reading[Main])
           /\ isRunning \in BOOLEAN /\ stopClosed \in BOOLEAN /\ jobsClosed \in BOOLEAN
<1>1. Enqueuers = {Main} /\ Callers = {Main} /\ Waiters = {Main} /\ Stoppers = {Main} /\ Readers = {Main}
  BY DEF ReplaySetting, Enqueuers
<1>2. TypeInv /\ Readings
  BY DEF StatInv
<1>3. ReaderInv(reading[Main])
  BY <1>1, <1>2, ReaderAt
<1> QED BY <1>1, <1>2, <1>3, TypeParts DEF TypeInv, LifecycleType, IntakeType, RestType, Readings

\* A line that parses holds one message.
LEMMA LineMessage ==
    ASSUME FileInv, NEW l \in 1 .. Len(file)
    PROVE  file[l] \in LineStates /\ file[l].msgs[1] \in Messages
<1>1. file[l] \in LineStates /\ Len(file[l].msgs) > 0
  BY ElementOfSeq DEF FileInv, FileType
<1>2. file[l].msgs \in Seq(Messages) /\ 1 \in 1 .. Len(file[l].msgs)
  BY <1>1, LenProperties DEF LineStates
<1> QED BY <1>1, <1>2, ElementOfSeq

\* The program is a processor with a reader.
LEMMA ReplayIsStat ==
    ASSUME ReplaySetting, StatInv, FileInv, Control, Played, [ReplayNext]_replayVars
    PROVE  [StatNext]_statVars
<1>1. CASE UNCHANGED statVars
  BY <1>1
<1>2. ASSUME crashed = "no", Start \/ StopStep(Main) \/ EnqueueStep(Main) \/ Wait(Main) \/ WaitStep(Main),
             UNCHANGED reading
      PROVE  StatNext
  <2>1. Next
    BY <1>2, OnlyMain DEF Next, ReplaySetting
  <2> QED BY <1>2, <2>1 DEF StatNext
<1>3. CASE UNCHANGED replayVars \/ \E how \in Writes : Record(how)
  BY <1>1, <1>3 DEF replayVars, Record
<1>4. CASE Running /\ Inside(Start)
  BY <1>2, <1>4 DEF Running, Inside
<1>5. CASE Running /\ PlayLine
  <2>1. lineNum + 1 \in 1 .. Len(file)
    <3>1. lineNum < Len(file)
      BY <1>5 DEF PlayLine
    <3>2. Len(file) \in Nat /\ lineNum \in Nat
      BY LenProperties DEF FileInv, FileType, Played
    <3> QED BY <3>1, <3>2
  <2>2. PICK m \in Messages : Call(Main, m)
    BY <1>5, <2>1, LineMessage DEF PlayLine
  <2>3. Next
    BY <1>5, <2>2, OnlyMain DEF Next, Running
  <2> QED BY <1>5, <2>3 DEF StatNext, PlayLine
<1>6. CASE PlayBad \/ Exits
  BY <1>1, <1>6 DEF PlayBad, Exits
<1>7. CASE Running /\ Report
  BY <1>7 DEF StatNext, Report, Running, ReplaySetting
<1>8. CASE Running /\ (Inside(EnqueueStep(Main)) \/ Inside(WaitForQuiescence) \/ Inside(StopAtEnd))
  BY <1>2, <1>8 DEF Inside, Running, WaitForQuiescence, StopAtEnd
<1>9. ASSUME NEW w \in Workers, Pooled(w) PROVE StatNext
  <2>1. Next /\ UNCHANGED reading
    BY <1>9 DEF Next, Pooled, Inside, Running
  <2> QED BY <2>1 DEF StatNext
<1> QED BY <1>3, <1>4, <1>5, <1>6, <1>7, <1>8, <1>9 DEF ReplayNext, MainStep

\* What a step of Main's leaves alone.
LEMMA EnqueueMoves ==
    ASSUME ReplaySetting, StatInv, EnqueueStep(Main)
    PROVE  /\ UNCHANGED <<lifecycle, worker, counts, sensors, updated, finished, waiter>>
           /\ caller[Main].pc \in {"selecting", "counting"}
BY DEF EnqueueStep, Send, Count, SendOnClosed, GiveUp, Refuse, Enqueuing, Panic, lifecycle, pool

LEMMA StopMoves ==
    ASSUME ReplaySetting, StatInv, StopStep(Main)
    PROVE  /\ UNCHANGED <<intake, pool, waiter>>
           /\ stopper'[Main] # "idle"
<1>1. stopper \in [{Main} ->
          {"idle", "storing", "closingStop", "closingJobs", "waiting", "returned", "noop"}]
  BY OnlyMain
<1>2. ASSUME NEW from, NEW to \in {"storing", "closingStop", "closingJobs", "waiting", "returned", "noop"},
             Stopping(Main, from, to)
      PROVE  UNCHANGED <<intake, pool, waiter>> /\ stopper'[Main] # "idle"
  BY <1>1, <1>2 DEF Stopping
<1>3. CASE CloseStopChanAgain(Main)
  BY <1>3 DEF CloseStopChanAgain, Panic, lifecycle
<1>4. CASE StopCheck(Main)
  BY <1>2, <1>4 DEF StopCheck
<1>5. CASE StopStore(Main) \/ CloseStopChan(Main) \/ CloseJobsChan(Main) \/ StopReturn(Main)
  BY <1>2, <1>5 DEF StopStore, CloseStopChan, CloseJobsChan, StopReturn
<1> QED BY <1>3, <1>4, <1>5 DEF StopStep

LEMMA WaitMoves ==
    ASSUME ReplaySetting, StatInv, Wait(Main) \/ WaitStep(Main)
    PROVE  /\ UNCHANGED <<lifecycle, intake, pool>>
           /\ Wait(Main) => waiter[Main] = "idle" /\ waiter'[Main] = "checking"
           /\ WaitStep(Main) => /\ waiter[Main] \in {"checking", "looking"}
                                /\ waiter'[Main] # "idle"
           /\ waiter'[Main] = "quiet" => queue = <<>>
<1>1. waiter \in [{Main} ->
          {"idle", "checking", "looking", "quiet", "timedOut", "notRunning"}]
  BY OnlyMain
<1>2. ASSUME NEW from, NEW to, Waiting(Main, from, to)
      PROVE  UNCHANGED <<lifecycle, intake, pool>> /\ waiter[Main] = from /\ waiter'[Main] = to
  BY <1>1, <1>2 DEF Waiting
<1>3. CASE Wait(Main)
  <2>1. Waiting(Main, "idle", "checking") /\ waiter[Main] # "checking"
    BY <1>3 DEF Wait, Waiting
  <2> QED BY <1>2, <2>1 DEF WaitStep, WaitCheck, WaitQuiet, WaitOn, Waiting
<1>4. CASE WaitCheck(Main)
  BY <1>2, <1>4 DEF WaitCheck, Wait, Waiting
<1>5. CASE WaitQuiet(Main)
  BY <1>2, <1>5 DEF WaitQuiet, LooksEmpty, Wait, Waiting
<1>6. CASE WaitOn(Main)
  BY <1>2, <1>6 DEF WaitOn, Wait, Waiting
<1> QED BY <1>3, <1>4, <1>5, <1>6 DEF WaitStep

\* A call that Main makes while the processor is running.
LEMMA CallMoves ==
    ASSUME ReplaySetting, StatInv, NEW m \in Messages, Call(Main, m)
    PROVE  /\ caller[Main].pc = "idle"
           /\ isRunning => caller'[Main] = [pc |-> "selecting", msg |-> m]
           /\ UNCHANGED <<lifecycle, queue, enqueued, accepted, worker, counts, sensors, updated,
                          finished, waiter>>
BY OnlyMain DEF Call, Enqueuing, pool

LEMMA ReportMoves ==
    ASSUME ReplaySetting, StatInv, StatsStep(Main)
    PROVE  UNCHANGED vars
BY DEF StatsStep, LoadCounter, LoadDepth, LoadEnqueued, Reads

LEMMA ControlStep ==
    ASSUME ReplaySetting, StatInv, FileInv, Control, Played, [ReplayNext]_replayVars
    PROVE  Control'
<1>0. /\ Pool = {} => waiter[Main] = "idle" /\ lineNum = 0 /\ exit = "no"
      /\ waiter[Main] = "idle" => /\ stopper[Main] = "idle" /\ reading[Main].loads = 0
                                  /\ reading[Main].todo = {"depth", "enqueued"}
  BY DEF Control, Over
<1>a. ASSUME UNCHANGED worker PROVE Pool' = Pool
  BY <1>a DEF Pool
<1>1. CASE UNCHANGED replayVars \/ \E how \in Writes : Record(how)
  <2>1. UNCHANGED statVars /\ lineNum' = lineNum /\ exit' = exit /\ (file' = file \/ Pool = {})
    BY <1>1 DEF replayVars, fileVars, Record
  <2>2. Pool' = Pool /\ UNCHANGED <<lifecycle, caller, waiter, reading>>
    BY <1>a, <2>1 DEF statVars, vars, pool, intake
  <2> QED BY <1>0, <2>1, <2>2 DEF Control, lifecycle
<1>2. CASE Inside(Start)
  <2>1. PICK P \in (SUBSET Workers) \ {{}} :
            worker' = [w \in Workers |-> IF w \in P THEN Free("selecting") ELSE worker[w]]
    BY <1>2 DEF Inside, Start
  <2>2. PICK w \in Workers : w \in P
    BY <2>1
  <2>3. Pool' # {}
    <3>1. worker'[w].pc = "selecting"
      BY <2>1, <2>2, FreeType
    <3> QED BY <3>1 DEF Pool
  <2>4. /\ Pool = {} /\ isRunning' = TRUE
        /\ UNCHANGED <<stopClosed, jobsClosed, stopper, caller, waiter, reading, file, lineNum, exit>>
    BY <1>2 DEF Inside, Start, fileVars, intake
  <2> QED BY <1>0, <2>3, <2>4 DEF Control
<1>3. CASE PlayLine
  <2>1. waiter[Main] = "idle" /\ Pool # {} /\ UNCHANGED <<reading, file>>
    BY <1>3 DEF PlayLine, BetweenLines, fileVars
  <2>2. UNCHANGED <<lifecycle, worker, waiter>>
    BY <1>3 DEF PlayLine, Call, Enqueuing, pool
  <2> QED BY <1>0, <1>a, <2>1, <2>2 DEF Control, lifecycle
<1>4. CASE PlayBad \/ Exits
  <2>1. UNCHANGED <<statVars, fileVars, lineNum>> /\ Pool # {}
    <3>1. CASE PlayBad
      BY <3>1 DEF PlayBad, BetweenLines
    <3>2. CASE Exits
      BY <1>0, <3>2 DEF Exits
    <3> QED BY <1>4, <3>1, <3>2
  <2>2. Pool' = Pool /\ UNCHANGED <<lifecycle, caller, waiter, reading, file, lineNum>>
    BY <1>a, <2>1 DEF statVars, vars, pool, intake, fileVars
  <2> QED BY <2>1, <2>2 DEF Control, lifecycle
<1>5. CASE Report
  <2>1. waiter[Main] \in Over /\ UNCHANGED <<vars, fileVars, lineNum, exit>>
    BY <1>5, ReportMoves DEF Report, Over
  <2>2. Pool' = Pool /\ UNCHANGED <<lifecycle, caller, waiter, file, lineNum, exit>>
    BY <1>a, <2>1 DEF vars, pool, intake, fileVars
  <2> QED BY <2>1, <2>2 DEF Control, lifecycle, Over
<1>6. CASE Inside(EnqueueStep(Main))
  <2>1. /\ UNCHANGED <<lifecycle, worker, waiter, reading, file, lineNum, exit>>
        /\ caller[Main].pc # "idle"
    BY <1>6, EnqueueMoves DEF Inside, fileVars
  <2> QED BY <1>0, <1>a, <2>1 DEF Control, lifecycle
<1>7. CASE Inside(WaitForQuiescence)
  <2>1. /\ UNCHANGED <<lifecycle, intake, pool, reading, file, lineNum, exit>>
        /\ Wait(Main) \/ WaitStep(Main)
        /\ waiter'[Main] # "idle" /\ waiter[Main] \notin Over
    BY <1>7, WaitMoves DEF Inside, WaitForQuiescence, fileVars, Over
  <2>2. Pool' = Pool /\ UNCHANGED caller
    BY <1>a, <2>1 DEF pool, intake
  <2>3. caller[Main].pc = "idle" /\ lineNum = Len(file) /\ Pool # {}
    <3>1. CASE BetweenLines /\ lineNum = Len(file)
      BY <3>1 DEF BetweenLines
    <3>2. CASE WaitStep(Main)
      BY <3>2, WaitMoves DEF Control
    <3> QED BY <1>7, <3>1, <3>2 DEF Inside, WaitForQuiescence
  <2> QED BY <2>1, <2>2, <2>3 DEF Control, lifecycle
<1>8. CASE Inside(StopAtEnd)
  <2>1. /\ UNCHANGED <<intake, pool, waiter, reading, file, lineNum, exit>>
        /\ stopper'[Main] # "idle" /\ reading[Main].todo = {}
    BY <1>8, StopMoves DEF Inside, StopAtEnd, HasStats, fileVars
  <2>2. Pool' = Pool /\ UNCHANGED caller
    BY <1>a, <2>1 DEF pool, intake
  <2> QED BY <2>1, <2>2 DEF Control
<1>9. ASSUME NEW w \in Workers, Pooled(w) PROVE Control'
  <2>1. Pool' = Pool
    BY <1>9, PoolStays DEF Pooled, Inside, StatInv
  <2>2. UNCHANGED <<lifecycle, caller, waiter, reading, file, lineNum, exit>>
    BY <1>9, WorkerMoves DEF Pooled, Inside, fileVars, StatInv
  <2> QED BY <2>1, <2>2 DEF Control, lifecycle
<1> QED BY <1>1, <1>2, <1>3, <1>4, <1>5, <1>6, <1>7, <1>8, <1>9 DEF ReplayNext, MainStep

LEMMA PlayedStep ==
    ASSUME ReplaySetting, StatInv, FileInv, Control, Played, [ReplayNext]_replayVars
    PROVE  Played'
<1>0. /\ lineNum \in Nat /\ Len(file) \in Nat /\ Len(accepted) \in Nat /\ accepted \in Seq(Messages)
      /\ caller \in [{Main} -> CallerStates] /\ Enqueuers = {Main} /\ TypeInv
  BY LenProperties, Lengths, OnlyMain DEF Played, FileInv, FileType, StatInv
<1>a. ASSUME UNCHANGED <<caller, accepted, file, lineNum>>, exit' = exit \/ exit' = "done" PROVE Played'
  BY <1>a DEF Played
<1>1. ASSUME NEW how \in Writes, Record(how) PROVE Played'
  <2>1. UNCHANGED <<statVars, lineNum, exit>> /\ Pool = {}
    BY <1>1 DEF Record
  <2>2. lineNum = 0 /\ exit = "no" /\ UNCHANGED <<caller, accepted, lineNum, exit>>
    BY <2>1 DEF Control, statVars, vars, intake
  <2>3. Len(file') \in Nat
    BY <1>1, RecordFileInv, LenProperties DEF FileInv, FileType
  <2>4. caller[Main].pc # "selecting" /\ Len(accepted) = 0
    BY <2>2 DEF Played
  <2>5. 1 .. lineNum = {} /\ 1 .. Len(accepted) = {} /\ 0 <= Len(file')
    BY <2>2, <2>3, <2>4
  <2> QED BY <2>2, <2>4, <2>5 DEF Played
<1>2. CASE UNCHANGED replayVars \/ Inside(Start)
  <2>1. UNCHANGED <<caller, accepted, file, lineNum, exit>>
    BY <1>2 DEF replayVars, statVars, vars, intake, fileVars, Inside, Start
  <2> QED BY <1>a, <2>1
<1>3. CASE Running /\ PlayLine
  <2>1. /\ caller[Main].pc = "idle" /\ waiter[Main] = "idle" /\ Pool # {} /\ lineNum < Len(file)
        /\ Parses(file[lineNum + 1]) /\ Call(Main, file[lineNum + 1].msgs[1])
        /\ lineNum' = lineNum + 1 /\ UNCHANGED <<file, exit>> /\ exit = "no"
    BY <1>3 DEF PlayLine, BetweenLines, Running, fileVars
  <2>2. isRunning
    BY <2>1 DEF Control, Over
  <2>3. file[lineNum + 1].msgs[1] \in Messages
    <3>1. lineNum + 1 \in 1 .. Len(file)
      BY <1>0, <2>1
    <3> QED BY <3>1, LineMessage
  <2>4. /\ caller'[Main] = [pc |-> "selecting", msg |-> file[lineNum + 1].msgs[1]]
        /\ accepted' = accepted
    BY <2>1, <2>2, <2>3, CallMoves
  <2>5. Len(accepted) = lineNum
    BY <2>1 DEF Played
  <2>6. /\ lineNum' \in Nat /\ lineNum' <= Len(file') /\ lineNum' > 0 /\ lineNum' - 1 = Len(accepted')
        /\ \A l \in 1 .. lineNum' : l \in 1 .. lineNum \/ l = lineNum'
    BY <1>0, <2>1, <2>4, <2>5
  <2>7. \A l \in 1 .. lineNum' : Parses(file'[l])
    BY <2>1, <2>6 DEF Played
  <2> QED BY <2>1, <2>4, <2>6, <2>7 DEF Played
<1>4. CASE PlayBad
  <2>1. /\ UNCHANGED <<statVars, fileVars, lineNum>>
        /\ caller[Main].pc = "idle" /\ lineNum < Len(file) /\ ~ Parses(file[lineNum + 1])
    BY <1>4 DEF PlayBad, BetweenLines
  <2>2. UNCHANGED <<caller, accepted, file, lineNum>>
    BY <2>1 DEF statVars, vars, intake, fileVars
  <2> QED BY <2>1, <2>2 DEF Played
<1>5. CASE Exits
  <2>1. UNCHANGED <<caller, accepted, file, lineNum>> /\ exit' = "done"
    BY <1>5 DEF Exits, statVars, vars, intake, fileVars
  <2> QED BY <1>a, <2>1
<1>6. CASE Report
  <2>1. UNCHANGED <<caller, accepted, file, lineNum, exit>>
    BY <1>6, ReportMoves DEF Report, vars, intake, fileVars
  <2> QED BY <1>a, <2>1
<1>7. CASE Inside(WaitForQuiescence) \/ Inside(StopAtEnd)
  <2>1. UNCHANGED <<caller, accepted, file, lineNum, exit>>
    BY <1>7, WaitMoves, StopMoves DEF Inside, WaitForQuiescence, StopAtEnd, intake, fileVars
  <2> QED BY <1>a, <2>1
<1>8. ASSUME NEW w \in Workers, Pooled(w) PROVE Played'
  <2>1. UNCHANGED <<caller, accepted, file, lineNum, exit>>
    BY <1>0, <1>8, WorkerMoves DEF Pooled, Inside, fileVars
  <2> QED BY <1>a, <2>1
<1>9. CASE Running /\ Inside(EnqueueStep(Main))
  <2>1. /\ UNCHANGED <<file, lineNum, exit>> /\ exit = "no" /\ EnqueueStep(Main)
        /\ caller[Main].pc # "idle"
    BY <1>9, EnqueueMoves DEF Inside, fileVars, Running
  <2>2. ~ jobsClosed /\ ~ stopClosed
    BY <2>1 DEF Control, Over
  <2>3. CASE Count(Main)
    <3>1. accepted' = accepted /\ caller[Main].pc = "counting" /\ caller'[Main].pc = "idle"
      BY <1>0, <2>3 DEF Count, Enqueuing, Idle
    <3> QED BY <2>1, <3>1 DEF Played
  <2>4. CASE Send(Main)
    <3>1. /\ caller[Main].pc = "selecting" /\ caller'[Main].pc = "counting"
          /\ Len(accepted') = Len(accepted) + 1
          /\ accepted'[Len(accepted) + 1] = caller[Main].msg
          /\ \A i \in 1 .. Len(accepted) : accepted'[i] = accepted[i]
      BY <1>0, <2>4, SendFields
    <3>2. Len(accepted) = lineNum - 1 /\ caller[Main].msg = file[lineNum].msgs[1]
      BY <3>1 DEF Played
    <3>3. Len(accepted') = lineNum /\ \A i \in 1 .. lineNum : i \in 1 .. Len(accepted) \/ i = lineNum
      BY <1>0, <3>1, <3>2
    <3>4. accepted'[lineNum] = file[lineNum].msgs[1]
      BY <1>0, <3>1, <3>2
    <3>5. \A i \in 1 .. Len(accepted') : accepted'[i] = file'[i].msgs[1]
      BY <2>1, <3>1, <3>3, <3>4 DEF Played
    <3> QED BY <2>1, <3>1, <3>3, <3>5 DEF Played
  <2>5. ~ SendOnClosed(Main) /\ ~ GiveUp(Main) /\ ~ Refuse(Main)
    BY <2>2 DEF SendOnClosed, GiveUp, Refuse, ReplaySetting
  <2> QED BY <2>1, <2>3, <2>4, <2>5 DEF EnqueueStep
<1> QED BY <1>1, <1>2, <1>3, <1>4, <1>5, <1>6, <1>7, <1>8, <1>9 DEF ReplayNext, MainStep

\* A message stands in the file where its place is among the others.
LEMMA OnFile ==
    ASSUME ReplaySetting, FileInv, NEW l \in 1 .. Len(file), NEW k \in 1 .. Len(file[l].msgs)
    PROVE  /\ Len(file[l].msgs) \in Nat /\ Len(file) \in Nat /\ Len(wrote) \in Nat
           /\ PlaceOf(file[l].msgs[k]) \in 1 .. Len(wrote)
           /\ Stream[PlaceOf(file[l].msgs[k])] = file[l].msgs[k]
           /\ wrote[PlaceOf(file[l].msgs[k])] # "nothing"
           /\ wrote[PlaceOf(file[l].msgs[k])] \in {"whole", "long"}
                <=> (k = Len(file[l].msgs) /\ file[l].ended)
           /\ file[l].sound => wrote[PlaceOf(file[l].msgs[k])] \in {"whole", "unended"}
<1>1. /\ file[l] \in LineStates /\ LineShape(file[l]) /\ Len(file) \in Nat /\ Len(wrote) \in Nat
  BY LineMessage, LenProperties DEF FileInv, FileType
<1>2. file[l].msgs \in Seq(Messages) /\ file[l].msgs[k] \in Messages /\ Len(file[l].msgs) \in Nat
  BY <1>1, ElementOfSeq, LenProperties DEF LineStates
<1>3. PlaceOf(file[l].msgs[k]) \in 1 .. Len(Stream) /\ Stream[PlaceOf(file[l].msgs[k])] = file[l].msgs[k]
  BY <1>2, StreamPlaces
<1>4. PlaceOf(file[l].msgs[k]) \in 1 .. Len(wrote)
  BY <1>1, <1>3, StreamPlaces DEF LineShape
<1> QED BY <1>1, <1>2, <1>3, <1>4 DEF LineShape

\* What precedes a played message in Stream left a whole line, which was played, or nothing.
LEMMA PlayedIsClean ==
    ASSUME ReplaySetting, FileInv, Played, NEW i \in 1 .. Len(accepted), i <= lineNum,
           accepted[i] = file[i].msgs[1]
    PROVE  /\ CleanBefore(PlaceOf(accepted[i]))
           /\ \A j \in 1 .. i - 1 : PlaceOf(file[j].msgs[1]) < PlaceOf(accepted[i])
<1> DEFINE p == PlaceOf(accepted[i])
<1>1. lineNum \in Nat /\ lineNum <= Len(file) /\ Len(file) \in Nat
  BY LenProperties DEF Played, FileInv, FileType
<1>2. /\ i \in Int /\ i \in 1 .. Len(file) /\ i \in 1 .. lineNum
      /\ \A l \in 1 .. i - 1 : l \in 1 .. lineNum /\ l \in 1 .. Len(file) /\ l < i /\ l < Len(file)
  BY <1>1
<1>3. \A l \in 1 .. i : Parses(file[l]) /\ file[l].sound /\ Len(file[l].msgs) = 1
  <2>1. \A l \in 1 .. i : l \in 1 .. lineNum
    BY <1>1
  <2> QED BY <2>1 DEF Played, Parses
<1>4. i \in 1 .. i /\ 1 \in 1 .. Len(file[i].msgs)
  BY <1>2, <1>3
<1>5. p \in 1 .. Len(wrote) /\ Len(wrote) \in Nat
  BY <1>2, <1>4, OnFile
<1>6. \A j \in 1 .. i - 1 : PlaceOf(file[j].msgs[1]) < p
  <2>1. \A j \in 1 .. i - 1 : j \in 1 .. i /\ 1 \in 1 .. Len(file[j].msgs)
    BY <1>2, <1>3
  <2> QED BY <1>2, <1>4, <2>1 DEF FileInv
<1>7. ASSUME NEW j \in 1 .. p - 1, wrote[j] # "nothing" PROVE wrote[j] = "whole"
  <2>1. j \in 1 .. Len(wrote) /\ j \in Int /\ p \in Int /\ j < p
    BY <1>5
  <2>2. PICK l \in 1 .. Len(file) : \E k \in 1 .. Len(file[l].msgs) : file[l].msgs[k] = Stream[j]
    BY <1>7, <2>1 DEF FileInv
  <2>3. PICK k \in 1 .. Len(file[l].msgs) : file[l].msgs[k] = Stream[j]
    BY <2>2
  <2>4. PlaceOf(file[l].msgs[k]) = j
    <3>1. Len(Stream) \in Nat /\ Len(wrote) <= Len(Stream)
      BY StreamPlaces DEF FileInv, FileType
    <3>2. j \in 1 .. Len(Stream)
      BY <1>5, <2>1, <3>1
    <3> QED BY <2>3, <3>2, StreamPlaces
  <2>a. Len(file[l].msgs) = 1 => k = 1
    <3> DEFINE n == Len(file[l].msgs)
    <3>1. k \in 1 .. n
      OBVIOUS
    <3> HIDE DEF n
    <3>2. n = 1 => k = 1
      BY <3>1
    <3> QED BY <3>2 DEF n
  <2>5. ~ (i < l)
    <3>1. i < l => p < PlaceOf(file[l].msgs[k])
      BY <1>2, <1>4, <2>3 DEF FileInv
    <3> QED BY <2>1, <2>4, <3>1
  <2>6. l # i
    <3>0. l = i => Len(file[l].msgs) = 1
      BY <1>3, <1>4
    <3>1. l = i => k = 1
      BY <2>a, <3>0
    <3>2. l = i => PlaceOf(file[l].msgs[k]) = p
      BY <3>1
    <3> QED BY <2>1, <2>4, <3>2
  <2>7. l \in 1 .. i - 1 /\ l \in 1 .. i
    BY <1>1, <1>2, <2>5, <2>6
  <2>8. file[l].ended
    BY <1>2, <2>7 DEF FileInv
  <2>9. k = Len(file[l].msgs) /\ file[l].sound
    <3>1. Len(file[l].msgs) = 1 /\ file[l].sound
      BY <1>3, <2>7
    <3> QED BY <2>a, <3>1
  <2> DEFINE q == PlaceOf(file[l].msgs[k])
  <2>10. wrote[q] \in {"whole", "long"} <=> (k = Len(file[l].msgs) /\ file[l].ended)
    BY OnFile
  <2>11. file[l].sound => wrote[q] \in {"whole", "unended"}
    BY OnFile
  <2>12. q = j
    BY <2>4
  <2> HIDE DEF q
  <2>13. wrote[q] \in {"whole", "long"} /\ wrote[q] \in {"whole", "unended"}
    BY <2>8, <2>9, <2>10, <2>11
  <2> QED BY <2>12, <2>13
<1>8. CleanBefore(p)
  BY <1>7 DEF CleanBefore
<1> QED BY <1>6, <1>8

\* A whole write that nothing before it spoils leaves a line that parses, behind such lines.
LEMMA CleanIsPlayable ==
    ASSUME ReplaySetting, FileInv, NEW i \in 1 .. Len(wrote), wrote[i] = "whole", CleanBefore(i)
    PROVE  \E l \in 1 .. Len(file) :
               file[l].msgs[1] = Stream[i] /\ \A h \in 1 .. l : Parses(file[h])
<1>1. PICK l \in 1 .. Len(file) : \E k \in 1 .. Len(file[l].msgs) : file[l].msgs[k] = Stream[i]
  BY DEF FileInv
<1>2. PICK k \in 1 .. Len(file[l].msgs) : file[l].msgs[k] = Stream[i]
  BY <1>1
<1>3. /\ Len(file[l].msgs) \in Nat /\ Len(file) \in Nat /\ i \in Int
      /\ PlaceOf(file[l].msgs[k]) = i
  <2>1. Len(file[l].msgs) \in Nat /\ Len(file) \in Nat /\ Len(wrote) \in Nat
    BY <1>2, OnFile
  <2>2. Len(Stream) \in Nat /\ Len(wrote) <= Len(Stream)
    BY StreamPlaces DEF FileInv, FileType
  <2>3. i \in 1 .. Len(Stream)
    BY <2>1, <2>2
  <2> QED BY <1>2, <2>1, <2>3, StreamPlaces
<1>4. k = Len(file[l].msgs)
  BY <1>2, <1>3, OnFile
<1>5. ASSUME NEW h \in 1 .. Len(file), NEW q \in 1 .. Len(file[h].msgs),
             PlaceOf(file[h].msgs[q]) < i
      PROVE  wrote[PlaceOf(file[h].msgs[q])] = "whole" /\ q = Len(file[h].msgs)
  <2>1. /\ PlaceOf(file[h].msgs[q]) \in 1 .. Len(wrote) /\ Len(wrote) \in Nat
        /\ wrote[PlaceOf(file[h].msgs[q])] # "nothing"
        /\ wrote[PlaceOf(file[h].msgs[q])] \in {"whole", "long"} => q = Len(file[h].msgs)
    BY OnFile
  <2>2. PlaceOf(file[h].msgs[q]) \in 1 .. i - 1
    BY <1>3, <1>5, <2>1
  <2> QED BY <2>1, <2>2 DEF CleanBefore
<1>6. ASSUME NEW h \in 1 .. l
      PROVE  /\ h \in 1 .. Len(file) /\ Len(file[h].msgs) \in Nat \ {0}
             /\ \A q \in 1 .. Len(file[h].msgs) :
                    /\ q = Len(file[h].msgs)
                    /\ wrote[PlaceOf(file[h].msgs[q])] = "whole"
  <2>1. h \in 1 .. Len(file)
    BY <1>3
  <2>2. Len(file[h].msgs) \in Nat \ {0}
    <3>1. file[h] \in LineStates /\ Len(file[h].msgs) > 0
      BY <2>1, LineMessage DEF FileInv
    <3>2. Len(file[h].msgs) \in Nat
      BY <3>1, LenProperties DEF LineStates
    <3> QED BY <3>1, <3>2
  <2>3. ASSUME NEW q \in 1 .. Len(file[h].msgs)
        PROVE  q = Len(file[h].msgs) /\ wrote[PlaceOf(file[h].msgs[q])] = "whole"
    <3>1. CASE h < l
      <4>1. PlaceOf(file[h].msgs[q]) < i
        BY <1>3, <2>1, <3>1 DEF FileInv
      <4> QED BY <1>5, <2>1, <4>1
    <3>2. CASE h = l /\ q = k
      BY <1>3, <1>4, <3>2
    <3>3. CASE h = l /\ q # k
      <4>1. q < k
        BY <1>3, <1>4, <3>3
      <4>2. PlaceOf(file[h].msgs[q]) < i
        BY <1>2, <1>3, <2>1, <3>3, <4>1 DEF FileInv, LineShape
      <4>3. q = Len(file[h].msgs)
        BY <1>5, <2>1, <4>2
      <4> QED BY <1>4, <3>3, <4>3
    <3>4. h < l \/ h = l
      BY <1>3
    <3> QED BY <3>1, <3>2, <3>3, <3>4
  <2> QED BY <2>1, <2>2, <2>3
<1>7. ASSUME NEW h \in 1 .. l PROVE Parses(file[h])
  <2>1. Len(file[h].msgs) = 1
    <3>1. 1 \in 1 .. Len(file[h].msgs)
      BY <1>6
    <3> QED BY <1>6, <3>1
  <2>2. file[h].sound
    BY <1>6 DEF FileInv, LineShape
  <2> QED BY <2>1, <2>2 DEF Parses
<1>8. file[l].msgs[1] = Stream[i]
  <2>1. l \in 1 .. l
    BY <1>3
  <2>2. k = 1
    BY <1>4, <1>7, <2>1 DEF Parses
  <2> QED BY <1>2, <2>2
<1> QED BY <1>7, <1>8

LEMMA FileIsPlayed ==
    ASSUME ReplaySetting, StatInv, FileInv, Played PROVE RecordedIsReplayed
<1>1. /\ Len(accepted) \in Nat /\ DOMAIN accepted = 1 .. Len(accepted) /\ lineNum \in Nat
      /\ Len(file) \in Nat /\ DOMAIN wrote = 1 .. Len(wrote) /\ lineNum <= Len(file)
  BY Lengths, LenProperties DEF StatInv, Played, FileInv, FileType
<1>2. ASSUME NEW i \in DOMAIN accepted
      PROVE  /\ CleanBefore(PlaceOf(accepted[i]))
             /\ \A j \in 1 .. i - 1 : PlaceOf(accepted[j]) < PlaceOf(accepted[i])
  <2>1. i \in 1 .. Len(accepted) /\ accepted[i] = file[i].msgs[1] /\ i <= lineNum
    BY <1>1 DEF Played
  <2>2. \A j \in 1 .. i - 1 : accepted[j] = file[j].msgs[1]
    <3>1. \A j \in 1 .. i - 1 : j \in 1 .. Len(accepted)
      BY <1>1
    <3> QED BY <3>1 DEF Played
  <2> QED BY <2>1, <2>2, PlayedIsClean
<1>3. ASSUME PlayerOver, NEW i \in DOMAIN wrote, wrote[i] = "whole", CleanBefore(i)
      PROVE  Stream[i] \in ToSet(accepted)
  <2>1. PICK l \in 1 .. Len(file) :
            file[l].msgs[1] = Stream[i] /\ \A h \in 1 .. l : Parses(file[h])
    BY <1>1, <1>3, CleanIsPlayable
  <2>2. l <= lineNum /\ Len(accepted) = lineNum
    <3>1. CASE exit = "failed"
      <4>1. caller[Main].pc = "idle" /\ lineNum < Len(file) /\ ~ Parses(file[lineNum + 1])
        BY <3>1 DEF Played
      <4>2. lineNum + 1 \notin 1 .. l
        BY <2>1, <4>1
      <4> QED BY <1>1, <4>1, <4>2 DEF Played
    <3>2. CASE lineNum = Len(file) /\ caller[Main].pc = "idle"
      BY <1>1, <3>2 DEF Played
    <3> QED BY <1>3, <3>1, <3>2 DEF PlayerOver
  <2>3. l \in 1 .. Len(accepted) /\ accepted[l] = Stream[i]
    <3>1. l \in 1 .. Len(accepted)
      BY <1>1, <2>2
    <3> QED BY <2>1, <3>1 DEF Played
  <2> QED BY <1>1, <2>3 DEF ToSet
<1> QED BY <1>2, <1>3 DEF RecordedIsReplayed

-----------------------------------------------------------------------------
(* The report.                                                              *)

OutcomeCounters == {"processed", "errors", "anomalies"}

\* One summand grows by d: the sum grows by no more.
LEMMA SumGrowsBy ==
    ASSUME NEW S, IsFiniteSet(S), NEW f, NEW g, NEW e, NEW d \in Nat,
           \A x \in S : f[x] \in Nat /\ g[x] \in Nat,
           \A x \in S \ {e} : g[x] = f[x], e \in S => g[e] = f[e] + d
    PROVE  /\ SumFunctionOnSet(f, S) \in Nat /\ SumFunctionOnSet(g, S) \in Nat
           /\ SumFunctionOnSet(g, S) <= SumFunctionOnSet(f, S) + d
<1>1. SumFunctionOnSet(f, S) \in Nat /\ SumFunctionOnSet(g, S) \in Nat
  BY SumType
<1>2. CASE e \in S
  <2>1. SumFunctionOnSet(g, S) = SumFunctionOnSet(f, S) - f[e] + g[e]
    BY <1>2, SumChange
  <2> QED BY <1>1, <1>2, <2>1
<1>3. CASE e \notin S
  <2>1. SumFunctionOnSet(f, S) = SumFunctionOnSet(g, S)
    BY <1>3, SumSame
  <2> QED BY <1>1, <2>1
<1> QED BY <1>1, <1>2, <1>3

\* A worker counts p + e + a outcomes: what was loaded grows by no more.
LEMMA CountedGrows ==
    ASSUME TypeInv, TypeInv', Pool' = Pool, NEW n \in Nat, NEW w \in Workers,
           NEW p \in Nat, NEW e \in Nat, NEW a \in Nat,
           \A v \in Workers \ {w} : counts'[v] = counts[v],
           counts'[w]["processed"] = counts[w]["processed"] + p,
           counts'[w]["errors"] = counts[w]["errors"] + e,
           counts'[w]["anomalies"] = counts[w]["anomalies"] + a
    PROVE  CountedBy(n) \in Nat /\ CountedBy(n)' \in Nat /\ CountedBy(n)' <= CountedBy(n) + (p + e + a)
<1> DEFINE before(k) == SumFunctionOnSet(OfWorkers(k), Loaded(Pool, k, n))
           after(k) == SumFunctionOnSet(OfWorkers(k)', Loaded(Pool', k, n))
<1>1. ASSUME NEW k \in OutcomeCounters, NEW d \in Nat, counts'[w][k] = counts[w][k] + d
      PROVE  before(k) \in Nat /\ after(k) \in Nat /\ after(k) <= before(k) + d
  <2> DEFINE T == Loaded(Pool, k, n)
             f == OfWorkers(k)
             g == OfWorkers(k)'
  <2>1. k \in Counters
    BY DEF OutcomeCounters, Counters
  <2>2. IsFiniteSet(T) /\ T \subseteq Workers
    BY <2>1, LoadedType, PoolFinite, PartialSums
  <2>3. \A v \in Workers : /\ counts[v][k] \in Nat /\ counts'[v][k] \in Nat
                           /\ f[v] = counts[v][k] /\ g[v] = counts'[v][k]
    BY <2>1, WorkerTypes, WorkerTypesNext DEF WorkersTyped, OfWorkers
  <2>4. /\ \A v \in T : f[v] \in Nat /\ g[v] \in Nat
        /\ \A v \in T \ {w} : g[v] = f[v]
        /\ w \in T => g[w] = f[w] + d
    BY <1>1, <2>2, <2>3
  <2> HIDE DEF T, f, g
  <2>5. /\ SumFunctionOnSet(f, T) \in Nat /\ SumFunctionOnSet(g, T) \in Nat
        /\ SumFunctionOnSet(g, T) <= SumFunctionOnSet(f, T) + d
    BY <2>2, <2>4, SumGrowsBy
  <2> QED BY <2>5 DEF T, f, g
<1>2. /\ CountedBy(n) = before("processed") + before("errors") + before("anomalies")
      /\ CountedBy(n)' = after("processed") + after("errors") + after("anomalies")
  BY DEF CountedBy
<1> HIDE DEF before, after
<1>3. /\ before("processed") \in Nat /\ after("processed") \in Nat
      /\ after("processed") <= before("processed") + p
      /\ before("errors") \in Nat /\ after("errors") \in Nat
      /\ after("errors") <= before("errors") + e
      /\ before("anomalies") \in Nat /\ after("anomalies") \in Nat
      /\ after("anomalies") <= before("anomalies") + a
  BY <1>1 DEF OutcomeCounters
<1> QED BY <1>2, <1>3

\* A worker that takes nothing counts an outcome when it comes to it, and only then.
LEMMA WorkerCounts ==
    ASSUME TypeInv, NEW w \in Workers, WorkerStep(w), ~ Take(w)
    PROVE  /\ UNCHANGED queue /\ \A v \in Workers \ {w} : counts'[v] = counts[v]
           /\ \E p, e, a \in {0, 1} :
                  /\ counts'[w]["processed"] = counts[w]["processed"] + p
                  /\ counts'[w]["errors"] = counts[w]["errors"] + e
                  /\ counts'[w]["anomalies"] = counts[w]["anomalies"] + a
                  /\ Cardinality(Pool \ Unfinished') = Cardinality(Pool \ Unfinished) + (p + e + a)
<1>0. /\ counts \in [Workers -> [Counters -> Nat]] /\ counts[w] \in [Counters -> Nat]
      /\ IsFiniteSet(Pool \ Unfinished) /\ Cardinality(Pool \ Unfinished) \in Nat
      /\ counts[w]["processed"] \in Nat /\ counts[w]["errors"] \in Nat
      /\ counts[w]["anomalies"] \in Nat
  <2>1. counts \in [Workers -> [Counters -> Nat]]
    BY TypeParts DEF TypeInv, PoolType
  <2>2. IsFiniteSet(Pool \ Unfinished)
    BY PoolFinite, FS_Subset
  <2> QED BY <2>1, <2>2, FS_CardinalityType DEF Counters
<1>1. \A v \in Workers \ {w} : worker'[v] = worker[v]
  BY WorkerMoves
<1>a. ASSUME Unfinished' = Unfinished, UNCHANGED queue, \A v \in Workers \ {w} : counts'[v] = counts[v],
             counts'[w]["processed"] = counts[w]["processed"],
             counts'[w]["errors"] = counts[w]["errors"],
             counts'[w]["anomalies"] = counts[w]["anomalies"]
      PROVE  /\ UNCHANGED queue /\ \A v \in Workers \ {w} : counts'[v] = counts[v]
             /\ \E p, e, a \in {0, 1} :
                  /\ counts'[w]["processed"] = counts[w]["processed"] + p
                  /\ counts'[w]["errors"] = counts[w]["errors"] + e
                  /\ counts'[w]["anomalies"] = counts[w]["anomalies"] + a
                  /\ Cardinality(Pool \ Unfinished') = Cardinality(Pool \ Unfinished) + (p + e + a)
  <2>1. /\ counts'[w]["processed"] = counts[w]["processed"] + 0
        /\ counts'[w]["errors"] = counts[w]["errors"] + 0
        /\ counts'[w]["anomalies"] = counts[w]["anomalies"] + 0
        /\ Cardinality(Pool \ Unfinished) = Cardinality(Pool \ Unfinished) + (0 + 0 + 0)
        /\ 0 \in {0, 1}
    BY <1>0, <1>a
  <2> QED BY <1>a, <2>1, Zenon
<1>2. CASE Exit(w) \/ UpdateStore(w) \/ RecordFailure(w) \/ Leave(w)
  <2>1. UNCHANGED <<queue, counts>>
    BY <1>2, UpdateFields, RecordFields, LeaveFields DEF Exit
  <2>2. w \in Unfinished' <=> w \in Unfinished
    BY <1>2, ExitFields, UpdateFields, RecordFields, LeaveFields DEF Unfinished
  <2>3. Unfinished' = Unfinished
    BY <1>1, <2>2 DEF Unfinished
  <2> QED BY <1>a, <2>1, <2>3
<1>3. CASE CountSequence(w)
  <2>1. /\ counts' = [counts EXCEPT ![w] = Added(counts[w], worker[w].result)]
        /\ worker[w].result \in Results /\ UNCHANGED queue
    BY <1>3, CountFields, WorkerTypes DEF WorkersTyped
  <2>2. /\ counts'[w] = Added(counts[w], worker[w].result)
        /\ \A v \in Workers \ {w} : counts'[v] = counts[v]
    BY <1>0, <2>1
  <2>3. Unfinished' = Unfinished
    BY <1>1, <1>3, CountFields DEF Unfinished
  <2> QED BY <1>0, <1>a, <2>1, <2>2, <2>3, AddedFields
<1>4. CASE Validate(w)
  <2> DEFINE outcome == worker[w].msg.outcome
             one(o) == IF outcome = o THEN 1 ELSE 0
  <2>1. /\ counts' = [counts EXCEPT ![w] = WithOutcome(counts[w], outcome)]
        /\ outcome \in Outcomes /\ UNCHANGED queue
        /\ worker[w].pc = "validating" /\ worker'[w].pc \in {"leaving", "recording"}
    BY <1>4, ValidateFields, ProcessorAssumption
  <2>2. /\ counts'[w] = WithOutcome(counts[w], outcome)
        /\ \A v \in Workers \ {w} : counts'[v] = counts[v]
    BY <1>0, <2>1
  <2>3. /\ counts'[w]["processed"] = counts[w]["processed"] + one("sound")
        /\ counts'[w]["errors"] = counts[w]["errors"] + one("error")
        /\ counts'[w]["anomalies"] = counts[w]["anomalies"] + one("anomaly")
    BY <1>0, <2>1, <2>2, WithOutcomeFields
  <2>4. one("sound") + one("error") + one("anomaly") = 1 /\ \A o : one(o) \in {0, 1}
    BY <2>1 DEF Outcomes
  <2>5. Cardinality(Pool \ Unfinished') = Cardinality(Pool \ Unfinished) + 1
    <3>1. w \in Pool /\ w \in Unfinished /\ w \notin Unfinished'
      BY <2>1 DEF Unfinished, Pool
    <3>2. Unfinished \ {w} = Unfinished' \ {w}
      BY <1>1 DEF Unfinished
    <3>3. (Pool \ Unfinished) \ {w} = (Pool \ Unfinished') \ {w}
          /\ w \in Pool \ Unfinished' /\ w \notin Pool \ Unfinished
      BY <3>1, <3>2
    <3> QED BY <1>0, <3>3, CountChange
  <2> HIDE DEF one, outcome
  <2>6. Cardinality(Pool \ Unfinished')
          = Cardinality(Pool \ Unfinished) + (one("sound") + one("error") + one("anomaly"))
    BY <2>4, <2>5
  <2> QED BY <2>1, <2>2, <2>3, <2>4, <2>6, Zenon
<1> QED BY <1>2, <1>3, <1>4 DEF WorkerStep

\* One more counter is loaded: what it holds now, and what was seen, grow by as much.
LEMMA LoadCounted ==
    ASSUME ReplaySetting, StatInv, LoadCounter(Main)
    PROVE  /\ CountedBy(reading[Main].loads) \in Nat
           /\ CountedBy(reading'[Main].loads) - CountedBy(reading[Main].loads)
                = OutcomesSeen(reading'[Main]) - OutcomesSeen(reading[Main])
           /\ CountedBy(reading'[Main].loads) \in Nat
           /\ OutcomesSeen(reading'[Main]) \in Nat /\ OutcomesSeen(reading[Main]) \in Nat
           /\ reading'[Main].todo = reading[Main].todo /\ UNCHANGED vars
<1> DEFINE x == reading[Main]
           y == reading'[Main]
           n == x.loads
           w == SetToSeq(Pool)[1 + n \div 6]
           k == LoadOrder[1 + (n % 6)]
           T(j, m) == Loaded(Pool, j, m)
           S(j, m) == SumFunctionOnSet(OfWorkers(j), T(j, m))
<1>1. x \in ReaderStates /\ ReaderInv(x) /\ n \in Nat /\ reading \in [{Main} -> ReaderStates]
  BY OnlyMain DEF ReaderStates
<1>2. /\ n < 6 * Cardinality(Pool)
      /\ reading' = [reading EXCEPT ![Main] = [x EXCEPT !.loads = n + 1, !.sums[k] = @ + counts[w][k]]]
      /\ UNCHANGED vars
  BY OrderOfLoads, Zenon DEF LoadCounter, Reads
<1>3. y = [x EXCEPT !.loads = n + 1, !.sums[k] = @ + counts[w][k]]
  BY <1>1, <1>2
<1>4. /\ w \in Pool /\ k \in Counters
      /\ T(k, n + 1) = T(k, n) \cup {w} /\ w \notin T(k, n)
      /\ \A j \in Counters \ {k} : T(j, n + 1) = T(j, n)
  BY <1>1, <1>2, LoadedStep, PoolFinite
<1> HIDE DEF x, y, w, k, T
<1>5. /\ y.loads = n + 1 /\ y.todo = x.todo
      /\ y.sums = [x.sums EXCEPT ![k] = x.sums[k] + counts[w][k]]
      /\ x.sums \in [Counters -> Nat]
  BY <1>1, <1>3 DEF ReaderStates
<1>6. ASSUME NEW j \in OutcomeCounters
      PROVE  /\ S(j, n) \in Nat /\ S(j, n + 1) \in Nat /\ x.sums[j] \in Nat /\ y.sums[j] \in Nat
             /\ S(j, n + 1) - S(j, n) = y.sums[j] - x.sums[j]
  <2>1. j \in Counters
    BY DEF OutcomeCounters, Counters
  <2> DEFINE f == OfWorkers(j)
  <2>2. /\ \A m : IsFiniteSet(T(j, m)) /\ SumFunctionOnSet(f, T(j, m)) \in Nat
        /\ \A m : T(j, m) \subseteq Workers
    BY <2>1, LoadedType, PoolFinite, PartialSums DEF StatInv, T
  <2>3. counts[w][k] \in Nat /\ w \in Workers
    BY <1>4, PoolFinite, WorkerTypes DEF WorkersTyped, StatInv
  <2>4. x.sums[j] \in Nat /\ y.sums[j] = IF j = k THEN x.sums[j] + counts[w][k] ELSE x.sums[j]
    BY <1>5, <2>1
  <2>5. CASE j # k
    <3>1. T(j, n + 1) = T(j, n)
      BY <1>4, <2>1, <2>5
    <3> QED BY <2>2, <2>4, <2>5, <3>1
  <2>6. CASE j = k
    <3>1. f[w] = counts[w][k] /\ \A v \in Workers : f[v] \in Int
      BY <2>1, <2>3, <2>6, WorkerTypes DEF StatInv, WorkersTyped, OfWorkers
    <3>2. \A v \in T(j, n) \cup {w} : f[v] \in Int
      BY <2>2, <2>3, <3>1
    <3> DEFINE R == T(j, n)
    <3>3. IsFiniteSet(R) /\ w \notin R /\ T(j, n + 1) = R \cup {w} /\ \A v \in R \cup {w} : f[v] \in Int
      BY <1>4, <2>2, <2>6, <3>2
    <3> HIDE DEF f, R
    <3>4. SumFunctionOnSet(f, R \cup {w}) = f[w] + SumFunctionOnSet(f, R)
      BY <3>3, SumAdd
    <3>5. SumFunctionOnSet(f, R) \in Nat /\ S(j, n) = SumFunctionOnSet(f, R)
          /\ S(j, n + 1) = SumFunctionOnSet(f, R \cup {w})
      BY <2>2, <3>3 DEF f, R
    <3> HIDE DEF S
    <3> QED BY <2>3, <2>4, <2>6, <3>1, <3>4, <3>5
  <2> QED BY <2>5, <2>6
<1>7. /\ CountedBy(n) = S("processed", n) + S("errors", n) + S("anomalies", n)
      /\ CountedBy(n + 1) = S("processed", n + 1) + S("errors", n + 1) + S("anomalies", n + 1)
  BY DEF CountedBy, T
<1> HIDE DEF S
<1>8. /\ OutcomesSeen(x) = x.sums["processed"] + x.sums["errors"] + x.sums["anomalies"]
      /\ OutcomesSeen(y) = y.sums["processed"] + y.sums["errors"] + y.sums["anomalies"]
  BY DEF OutcomesSeen
<1> HIDE DEF n
<1>9. /\ CountedBy(n) \in Nat /\ CountedBy(n + 1) \in Nat
      /\ OutcomesSeen(x) \in Nat /\ OutcomesSeen(y) \in Nat
      /\ CountedBy(n + 1) - CountedBy(n) = OutcomesSeen(y) - OutcomesSeen(x)
  <2>1. {"processed", "errors", "anomalies"} \subseteq OutcomeCounters
    BY DEF OutcomeCounters
  <2> DEFINE p0 == S("processed", n)
             p1 == S("processed", n + 1)
             e0 == S("errors", n)
             e1 == S("errors", n + 1)
             a0 == S("anomalies", n)
             a1 == S("anomalies", n + 1)
  <2>2. /\ p0 \in Nat /\ p1 \in Nat /\ e0 \in Nat /\ e1 \in Nat /\ a0 \in Nat /\ a1 \in Nat
        /\ p1 - p0 = y.sums["processed"] - x.sums["processed"]
        /\ e1 - e0 = y.sums["errors"] - x.sums["errors"]
        /\ a1 - a0 = y.sums["anomalies"] - x.sums["anomalies"]
        /\ x.sums["processed"] \in Nat /\ x.sums["errors"] \in Nat /\ x.sums["anomalies"] \in Nat
        /\ y.sums["processed"] \in Nat /\ y.sums["errors"] \in Nat /\ y.sums["anomalies"] \in Nat
    BY <1>6, <2>1
  <2> HIDE DEF p0, p1, e0, e1, a0, a1
  <2>3. CountedBy(n) = p0 + e0 + a0 /\ CountedBy(n + 1) = p1 + e1 + a1
    BY <1>7 DEF p0, p1, e0, e1, a0, a1
  <2> QED BY <1>8, <2>2, <2>3
<1>10. x.loads = n /\ y.loads = n + 1
  BY <1>5 DEF n
<1> QED BY <1>2, <1>5, <1>9, <1>10 DEF x, y

LEMMA QuiescedStep ==
    ASSUME ReplaySetting, StatInv, StatInv', FileInv, Control, Played, Quiesced,
           [ReplayNext]_replayVars
    PROVE  Quiesced'
<1>0. /\ TypeInv /\ TypeInv' /\ reading[Main] \in ReaderStates /\ reading[Main].loads \in Nat
      /\ OutcomesSeen(reading[Main]) \in Nat /\ reading \in [{Main} -> ReaderStates]
      /\ waiter[Main] \notin Over =>
             reading[Main].loads = 0 /\ reading[Main].todo = {"depth", "enqueued"}
      /\ Cardinality(Pool \ Unfinished) \in Nat
  <2>1. TypeInv /\ TypeInv' /\ reading[Main] \in ReaderStates /\ ReaderInv(reading[Main])
        /\ reading \in [{Main} -> ReaderStates]
    BY OnlyMain DEF StatInv
  <2>2. reading[Main].loads \in Nat /\ OutcomesSeen(reading[Main]) \in Nat
    BY <2>1, SeenSoFar DEF ReaderStates
  <2>3. IsFiniteSet(Pool \ Unfinished)
    BY PoolFinite, FS_Subset
  <2> QED BY <2>1, <2>2, <2>3, FS_CardinalityType DEF Control
<1>1. "quiet" \in Over /\ "idle" \notin Over /\ "checking" \notin Over /\ "looking" \notin Over
  BY DEF Over
<1>a. ASSUME UNCHANGED <<queue, worker, counts, waiter, reading, lineNum>> PROVE Quiesced'
  <2>1. UNCHANGED <<Pool, Unfinished>> /\ \A k : UNCHANGED OfWorkers(k)
    BY <1>a DEF Pool, Unfinished, OfWorkers
  <2>2. \A n : CountedBy(n)' = CountedBy(n)
    BY <2>1 DEF CountedBy
  <2> QED BY <1>a, <2>1, <2>2 DEF Quiesced
<1>b. ASSUME waiter'[Main] \notin Over, reading' = reading, waiter[Main] \notin Over, counts' = counts,
             Pool \subseteq Pool'
      PROVE  Quiesced'
  <2>1. "enqueued" \in reading'[Main].todo /\ waiter'[Main] # "quiet"
    BY <1>0, <1>1, <1>b
  <2>2. \A w \in Workers \ Pool', k \in Counters : counts'[w][k] = 0
    BY <1>b DEF Quiesced
  <2> QED BY <2>1, <2>2 DEF Quiesced
<1>2. CASE UNCHANGED replayVars \/ (\E how \in Writes : Record(how)) \/ PlayBad \/ Exits
  <2>1. UNCHANGED <<statVars, lineNum>>
    BY <1>2 DEF replayVars, Record, PlayBad, Exits
  <2> QED BY <1>a, <2>1 DEF statVars, vars, intake, pool
<1>3. CASE Inside(Start)
  <2>1. Pool = {} /\ UNCHANGED <<counts, waiter, reading>>
    BY <1>3 DEF Inside, Start
  <2>2. waiter[Main] \notin Over
    BY <1>1, <2>1 DEF Control
  <2> QED BY <1>b, <2>1, <2>2
<1>4. CASE PlayLine
  <2>1. waiter[Main] = "idle" /\ UNCHANGED <<counts, waiter, reading, worker>>
    BY <1>4 DEF PlayLine, BetweenLines, Call, Enqueuing, pool
  <2>2. Pool' = Pool
    BY <2>1 DEF Pool
  <2> QED BY <1>1, <1>b, <2>1, <2>2
<1>5. CASE Inside(EnqueueStep(Main))
  <2>1. UNCHANGED <<counts, waiter, reading, worker>> /\ caller[Main].pc # "idle"
    BY <1>5, EnqueueMoves DEF Inside
  <2>2. waiter[Main] = "idle" /\ Pool' = Pool
    BY <2>1 DEF Control, Pool
  <2> QED BY <1>1, <1>b, <2>1, <2>2
<1>6. CASE Inside(StopAtEnd)
  <2>1. UNCHANGED <<intake, pool, waiter, reading, lineNum>>
    BY <1>6, StopMoves DEF Inside, StopAtEnd
  <2> QED BY <1>a, <2>1 DEF intake, pool
<1>7. CASE Inside(WaitForQuiescence)
  <2>1. /\ UNCHANGED <<intake, pool, reading, lineNum>> /\ waiter[Main] \notin Over
        /\ waiter'[Main] = "quiet" => queue = <<>>
    BY <1>1, <1>7, WaitMoves DEF Inside, WaitForQuiescence
  <2>2. UNCHANGED <<queue, worker, counts, Pool, Unfinished>> /\ \A k : UNCHANGED OfWorkers(k)
    BY <2>1 DEF intake, pool, Pool, Unfinished, OfWorkers
  <2>3. reading[Main].loads = 0 /\ reading[Main].todo = {"depth", "enqueued"}
    BY <1>0, <2>1
  <2>4. CountedBy(0)' = 0
    <3>1. \A k \in Counters : Loaded(Pool, k, 0) = {}
      BY LoadedType, PoolFinite
    <3>2. {"processed", "errors", "anomalies"} \subseteq Counters
      BY DEF Counters
    <3>3. CountedBy(0) = 0
      BY <3>1, <3>2, SumEmpty DEF CountedBy
    <3> QED BY <2>2, <3>3 DEF CountedBy
  <2>5. 0 <= OutcomesSeen(reading[Main]) + Cardinality(Pool \ Unfinished)
    BY <1>0
  <2> QED BY <2>1, <2>2, <2>3, <2>4, <2>5 DEF Quiesced
<1>8. CASE Report
  <2>1. waiter[Main] \in Over /\ UNCHANGED <<vars, lineNum>>
    BY <1>8, ReportMoves DEF Report, Over
  <2>2. UNCHANGED <<queue, worker, counts, waiter, lineNum, Pool, Unfinished>>
        /\ \A k : UNCHANGED OfWorkers(k)
    BY <2>1 DEF vars, intake, pool, Pool, Unfinished, OfWorkers
  <2>3. \A n : CountedBy(n)' = CountedBy(n)
    BY <2>2 DEF CountedBy
  <2>4. CASE LoadCounter(Main)
    <3> DEFINE c0 == CountedBy(reading[Main].loads)
               c1 == CountedBy(reading'[Main].loads)
               s0 == OutcomesSeen(reading[Main])
               s1 == OutcomesSeen(reading'[Main])
               b == Cardinality(Pool \ Unfinished)
    <3>1. /\ c0 \in Nat /\ c1 \in Nat /\ s0 \in Nat /\ s1 \in Nat /\ c1 - c0 = s1 - s0
          /\ reading'[Main].todo = reading[Main].todo /\ b \in Nat
      BY <1>0, <2>4, LoadCounted
    <3>2. CountedBy(reading[Main].loads)' = c1
      BY <2>3
    <3>3. /\ reading'[Main].depth = reading[Main].depth
          /\ reading'[Main].enqueued = reading[Main].enqueued
      <4>1. PICK m, sums : reading'[Main] = [reading[Main] EXCEPT !.loads = m, !.sums = sums]
        <5> DEFINE x == reading[Main]
                   n == x.loads
                   w == SetToSeq(Pool)[1 + n \div Len(LoadOrder)]
                   k == LoadOrder[1 + (n % Len(LoadOrder))]
        <5>1. reading' = [reading EXCEPT ![Main] =
                             [x EXCEPT !.loads = n + 1, !.sums[k] = @ + counts[w][k]]]
          BY <2>4, Zenon DEF LoadCounter, Reads
        <5> HIDE DEF x, n, w, k
        <5>2. reading'[Main] = [x EXCEPT !.loads = n + 1, !.sums[k] = @ + counts[w][k]]
          BY <1>0, <5>1
        <5>3. [x EXCEPT !.loads = n + 1, !.sums[k] = @ + counts[w][k]]
                = [x EXCEPT !.loads = n + 1, !.sums = [x.sums EXCEPT ![k] = @ + counts[w][k]]]
          BY <1>0 DEF x, ReaderStates
        <5> QED BY <5>2, <5>3 DEF x
      <4> QED BY <1>0, <4>1 DEF ReaderStates
    <3>4. CASE waiter[Main] = "quiet"
      <4>1. c0 <= s0 + b
        BY <3>4 DEF Quiesced
      <4> HIDE DEF c0, c1, s0, s1, b
      <4>2. c1 <= s1 + b
        BY <3>1, <4>1
      <4> QED BY <2>2, <3>1, <3>2, <3>3, <3>4, <4>2 DEF Quiesced, c1, s1, b
    <3>5. CASE waiter[Main] # "quiet"
      BY <2>2, <3>1, <3>3, <3>5 DEF Quiesced
    <3> QED BY <3>4, <3>5
  <2>5. CASE LoadDepth(Main)
    <3>1. reading' = [reading EXCEPT ![Main] =
                         [reading[Main] EXCEPT !.todo = @ \ {"depth"}, !.depth = Len(queue)]]
      BY <2>5 DEF LoadDepth, Reads
    <3>2. /\ reading'[Main].depth = Len(queue)
          /\ reading'[Main].enqueued = reading[Main].enqueued
          /\ reading'[Main].todo = reading[Main].todo \ {"depth"}
          /\ reading'[Main].loads = reading[Main].loads /\ reading'[Main].sums = reading[Main].sums
      BY <1>0, <3>1 DEF ReaderStates
    <3>3. OutcomesSeen(reading'[Main]) = OutcomesSeen(reading[Main])
      BY <3>2 DEF OutcomesSeen
    <3>4. waiter[Main] = "quiet" => Len(queue) = 0
      BY EmptySeq DEF Quiesced
    <3>5. "enqueued" \notin reading'[Main].todo => "enqueued" \notin reading[Main].todo
      BY <3>2
    <3> QED BY <2>2, <2>3, <3>2, <3>3, <3>4, <3>5 DEF Quiesced
  <2>6. CASE LoadEnqueued(Main)
    <3> DEFINE u == Cardinality({c \in Enqueuers : caller[c].pc = "counting"})
    <3>1. reading' = [reading EXCEPT ![Main] =
              [reading[Main] EXCEPT !.todo = @ \ {"enqueued"}, !.enqueued = enqueued, !.uncounted = u]]
      BY <2>6 DEF LoadEnqueued, Reads
    <3> HIDE DEF u
    <3>2. /\ reading'[Main].depth = reading[Main].depth
          /\ reading'[Main].enqueued = enqueued
          /\ reading'[Main].todo = reading[Main].todo \ {"enqueued"}
          /\ reading'[Main].loads = reading[Main].loads /\ reading'[Main].sums = reading[Main].sums
      BY <1>0, <3>1 DEF ReaderStates
    <3>3. OutcomesSeen(reading'[Main]) = OutcomesSeen(reading[Main])
      BY <3>2 DEF OutcomesSeen
    <3>4. enqueued = lineNum
      <4>1. caller[Main].pc = "idle"
        BY <1>1, <2>1 DEF Control
      <4>2. Counting = {}
        BY <4>1, OnlyMain DEF Counting
      <4>3. Cardinality(Counting) = 0
        BY <4>2, FS_EmptySet, Zenon
      <4>4. Len(accepted) = lineNum
        BY <4>1 DEF Played
      <4>5. Len(accepted) = enqueued + Cardinality(Counting) /\ enqueued \in Nat
        BY TypeParts DEF StatInv, Sums, SentCounted, TypeInv, IntakeType
      <4> QED BY <4>3, <4>4, <4>5
    <3>5. "depth" \notin reading'[Main].todo => "depth" \notin reading[Main].todo
      BY <3>2
    <3> QED BY <2>2, <2>3, <3>2, <3>3, <3>4, <3>5 DEF Quiesced
  <2> QED BY <1>8, <2>4, <2>5, <2>6 DEF Report, StatsStep
<1>9. ASSUME NEW w \in Workers, Pooled(w) PROVE Quiesced'
  <2>1. WorkerStep(w) /\ UNCHANGED <<reading, lineNum>> /\ Pool' = Pool /\ UNCHANGED waiter
    BY <1>0, <1>9, PoolStays, WorkerMoves DEF Pooled, Inside
  <2>2. w \in Pool
    BY <1>0, <2>1, WorkerMoves DEF Pool
  <2>3. CASE Take(w)
    <3>1. waiter[Main] # "quiet"
      BY <2>3 DEF Take, Quiesced
    <3>2. counts' = counts
      BY <1>0, <2>3, TakeFields
    <3> QED BY <2>1, <3>1, <3>2 DEF Quiesced
  <2>4. CASE ~ Take(w)
    <3>1. UNCHANGED queue /\ \A v \in Workers \ {w} : counts'[v] = counts[v]
      BY <1>0, <2>1, <2>4, WorkerCounts
    <3>2. PICK p, e, a \in {0, 1} :
              /\ counts'[w]["processed"] = counts[w]["processed"] + p
              /\ counts'[w]["errors"] = counts[w]["errors"] + e
              /\ counts'[w]["anomalies"] = counts[w]["anomalies"] + a
              /\ Cardinality(Pool \ Unfinished') = Cardinality(Pool \ Unfinished) + (p + e + a)
      BY <1>0, <2>1, <2>4, WorkerCounts
    <3>3. \A v \in Workers \ Pool', k \in Counters : counts'[v][k] = 0
      BY <2>1, <2>2, <3>1 DEF Quiesced
    <3>4. ASSUME NEW n \in Nat
          PROVE  CountedBy(n) \in Nat /\ CountedBy(n)' \in Nat
                 /\ CountedBy(n)' <= CountedBy(n) + (p + e + a)
      <4>1. p \in Nat /\ e \in Nat /\ a \in Nat
        OBVIOUS
      <4>2. TypeInv /\ TypeInv'
        BY <1>0 DEF StatInv
      <4> QED BY <4>1, <4>2, <2>1, <3>1, <3>2, CountedGrows
    <3>5. ASSUME waiter[Main] = "quiet", NEW n \in Nat, n = reading[Main].loads
          PROVE  CountedBy(n)' <= OutcomesSeen(reading[Main]) + Cardinality(Pool \ Unfinished')
      <4>1. CountedBy(n) <= OutcomesSeen(reading[Main]) + Cardinality(Pool \ Unfinished)
        BY <3>5 DEF Quiesced
      <4>2. p + e + a \in Nat
        OBVIOUS
      <4> QED BY <1>0, <3>2, <3>4, <4>1, <4>2
    <3>6. waiter'[Main] = "quiet" =>
              CountedBy(reading[Main].loads)'
                <= OutcomesSeen(reading[Main])' + Cardinality(Pool \ Unfinished)'
      BY <1>0, <2>1, <3>5
    <3> QED BY <2>1, <3>1, <3>3, <3>6 DEF Quiesced
  <2> QED BY <2>3, <2>4
<1> QED BY <1>2, <1>3, <1>4, <1>5, <1>6, <1>7, <1>8, <1>9 DEF ReplayNext, MainStep

-----------------------------------------------------------------------------
(* Servers, player and processor together.                                  *)

ReplayInv == StatInv /\ FileInv /\ Control /\ Played /\ Quiesced

LEMMA ReplayInvInit == ReplaySetting /\ ReplayInit => ReplayInv
<1> SUFFICES ASSUME ReplaySetting, ReplayInit PROVE ReplayInv
  OBVIOUS
<1>1. StatInv /\ FileInv
  BY StatInvInit, FileInvInit DEF ReplayInit
<1>2. /\ stopper[Main] = "idle" /\ waiter[Main] = "idle" /\ reading[Main] = Unread
      /\ caller[Main] = Idle
  BY OnlyMain, <1>1 DEF ReplayInit, StatInit, Init, ReplaySetting
<1>3. Pool = {}
  BY FreeType DEF ReplayInit, StatInit, Init, Pool
<1>4. /\ caller[Main].pc = "idle" /\ reading[Main].loads = 0
      /\ reading[Main].todo = {"depth", "enqueued"}
  BY <1>2 DEF Idle, Unread
<1>5. Control
  BY <1>2, <1>3, <1>4 DEF Control, ReplayInit, StatInit, Init
<1>6. Played
  <2>1. Len(accepted) = 0 /\ Len(file) = 0 /\ lineNum = 0 /\ exit = "no"
    BY EmptySeq DEF ReplayInit, StatInit, Init
  <2> QED BY <1>4, <2>1 DEF Played
<1>7. Quiesced
  <2>1. \A w \in Workers, k \in Counters : counts[w][k] = 0
    BY DEF ReplayInit, StatInit, Init
  <2> QED BY <1>2, <1>4, <2>1 DEF Quiesced
<1> QED BY <1>1, <1>5, <1>6, <1>7 DEF ReplayInv

LEMMA ReplayInvStep == ReplaySetting /\ ReplayInv /\ [ReplayNext]_replayVars => ReplayInv'
<1> SUFFICES ASSUME ReplaySetting, ReplayInv, [ReplayNext]_replayVars PROVE ReplayInv'
  OBVIOUS
<1>0. StatInv /\ FileInv /\ Control /\ Played /\ Quiesced
  BY DEF ReplayInv
<1>1. StatInv'
  BY <1>0, ReplayIsStat, StatInvStep
<1>2. FileInv'
  <2>1. CASE \E how \in Writes : Record(how)
    BY <1>0, <2>1, RecordFileInv
  <2>2. CASE UNCHANGED fileVars
    BY <1>0, <2>2, FileKept
  <2> QED BY <2>1, <2>2
          DEF ReplayNext, MainStep, Pooled, Inside, PlayLine, PlayBad, Report, Exits, replayVars
<1>3. Control' /\ Played'
  BY <1>0, ControlStep, PlayedStep
<1>4. Quiesced'
  BY <1>0, <1>1, QuiescedStep
<1> QED BY <1>1, <1>2, <1>3, <1>4 DEF ReplayInv

LEMMA ReplayInvHolds == ASSUME ReplaySetting PROVE ReplaySpec => []ReplayInv
<1>1. ReplayInit => ReplayInv
  BY ReplayInvInit
<1>2. ReplayInv /\ [ReplayNext]_replayVars => ReplayInv'
  BY ReplayInvStep
<1> QED BY <1>1, <1>2, PTL DEF ReplaySpec

\* A replay is faithful up to the first write that failed half way, and ends there: until
\* then what was recorded is enqueued once and in order, of what is behind it nothing is.
THEOREM RecordedIsReplayedCorrect == ASSUME ReplaySetting PROVE ReplaySpec => []RecordedIsReplayed
<1>1. ReplayInv => RecordedIsReplayed
  BY FileIsPlayed DEF ReplayInv
<1> QED BY <1>1, ReplayInvHolds, PTL

\* A slice of n workers that holds each once holds all n.
LEMMA SliceOfAll ==
    ASSUME NEW P, IsFiniteSet(P)
    PROVE  \A w \in P : \E i \in 1 .. Cardinality(P) : SetToSeq(P)[i] = w
<1> DEFINE n == Cardinality(P)
           slice == SetToSeq(P)
           R == {slice[i] : i \in 1 .. n}
<1>1. /\ n \in Nat /\ slice \in [1 .. n -> P]
      /\ \A i, j \in 1 .. n : slice[i] = slice[j] => i = j
  BY PoolSlice
<1>2. IsFiniteSet(1 .. n) /\ Cardinality(1 .. n) = n
  BY <1>1, FS_Interval
<1> HIDE DEF n, slice
<1>3. slice \in Surjection(1 .. n, R) /\ slice \in Injection(1 .. n, P) /\ R \subseteq P
  BY <1>1 DEF Surjection, Injection, IsInjective
<1>4. slice \in Bijection(1 .. n, R)
  BY <1>1 DEF Bijection, Surjection, Injection, IsInjective
<1>5. IsFiniteSet(R) /\ Cardinality(R) = n
  BY <1>2, <1>4, FS_Bijection, Zenon DEF ExistsBijection
<1>6. R = P
  BY <1>3, <1>5, FS_Subset DEF n
<1> QED BY <1>6 DEF n, slice

\* All counters are loaded: those of all workers.
LEMMA AllLoaded ==
    ASSUME NEW P, IsFiniteSet(P), NEW k \in Counters
    PROVE  Loaded(P, k, 6 * Cardinality(P)) = P
<1> DEFINE n == Cardinality(P)
<1>1. n \in Nat /\ SetToSeq(P) \in [1 .. n -> P]
  BY PoolSlice
<1>2. PlaceInOrder(k) \in 1 .. 6
  BY OrderOfLoads
<1>3. \A i \in 1 .. n : 6 * (i - 1) + PlaceInOrder(k) <= 6 * n
  BY <1>1, <1>2
<1> QED BY <1>1, <1>3, SliceOfAll DEF Loaded

\* Workers that are not in the pool have counted nothing, so that a reader who has loaded
\* every counter has them all.
LEMMA CountedIsHandled ==
    ASSUME TypeInv, \A w \in Workers \ Pool, k \in Counters : counts[w][k] = 0
    PROVE  CountedBy(6 * Cardinality(Pool)) = SumFunction(HandledBy)
<1>1. ASSUME NEW k \in Counters
      PROVE  SumFunctionOnSet(OfWorkers(k), Loaded(Pool, k, 6 * Cardinality(Pool)))
               = SumFunction(OfWorkers(k))
  <2> DEFINE f == OfWorkers(k)
  <2>1. Loaded(Pool, k, 6 * Cardinality(Pool)) = Pool /\ Pool \in SUBSET Workers
    BY AllLoaded, PoolFinite
  <2>2. /\ \A w \in Workers : f[w] \in Int
        /\ \A w \in Workers \ Pool : f[w] = 0
        /\ DOMAIN f = Workers
    BY WorkerTypes DEF WorkersTyped, OfWorkers
  <2> HIDE DEF f
  <2>3. SumFunctionOnSet(f, Workers) = SumFunctionOnSet(f, Pool)
    BY <2>1, <2>2, SumOutside, ProcessorAssumption
  <2>4. SumFunction(f) = SumFunctionOnSet(f, Workers)
    BY <2>2, Zenon DEF SumFunction
  <2> QED BY <2>1, <2>3, <2>4 DEF f
<1>2. {"processed", "errors", "anomalies"} \subseteq Counters
  BY DEF Counters
<1>3. CountedBy(6 * Cardinality(Pool)) = SumFunction(OfWorkers("processed"))
          + SumFunction(OfWorkers("errors")) + SumFunction(OfWorkers("anomalies"))
  BY <1>1, <1>2 DEF CountedBy
<1> QED BY <1>3, AllOutcomes

\* With a nil error from WaitForQuiescence the report lacks only what is with the workers,
\* one message each; without it, its outcomes are at most the lines played.
THEOREM ReportBracketedCorrect == ASSUME ReplaySetting PROVE ReplaySpec => []ReportBracketed
<1>1. ReplayInv => ReportBracketed
  <2> SUFFICES ASSUME ReplayInv, HasStats(Main)
               PROVE  /\ Handled(Main) <= lineNum
                      /\ waiter[Main] = "quiet" =>
                             /\ reading[Main].depth = 0 /\ reading[Main].enqueued = lineNum
                             /\ lineNum <= Handled(Main) + Cardinality(Pool)
    BY DEF ReportBracketed
  <2> DEFINE x == reading[Main]
             n == Cardinality(Pool)
  <2>1. /\ StatInv /\ TypeInv /\ Control /\ Played /\ Quiesced
        /\ x \in ReaderStates /\ ReaderInv(x) /\ n \in Nat
        /\ Pool # {} /\ x.loads = 6 * n /\ x.todo = {}
    BY OnlyMain, PoolFinite, OrderOfLoads DEF ReplayInv, StatInv, HasStats, WorkersRead
  <2>2. caller[Main].pc = "idle" /\ Len(accepted) = lineNum
    BY <2>1 DEF Control, Played, Over
  <2>3. Handled(Main) = OutcomesSeen(x) /\ OutcomesSeen(x) \in Nat /\ x.depth \in Nat
    BY <2>1, SeenSoFar DEF Handled, OutcomesSeen, ReaderStates
  <2>4. OutcomesSeen(x) + x.depth <= Len(accepted)
    BY <2>1 DEF ReaderInv
  <2>5. /\ lineNum \in Nat /\ x.enqueued = lineNum
        /\ \A w \in Workers \ Pool, k \in Counters : counts[w][k] = 0
        /\ waiter[Main] = "quiet" =>
               /\ queue = <<>> /\ x.depth = 0
               /\ CountedBy(6 * n) <= OutcomesSeen(x) + Cardinality(Pool \ Unfinished)
    BY <2>1 DEF Played, Quiesced
  <2> HIDE DEF x, n
  <2>6. CountedBy(6 * n) = SumFunction(HandledBy)
    BY <2>1, <2>5, CountedIsHandled DEF n
  <2>7. /\ Cardinality(Pool \ Unfinished) \in Nat /\ Cardinality(Unfinished) \in Nat
        /\ Cardinality(Pool \ Unfinished) = n - Cardinality(Unfinished)
    <3>1. Unfinished \subseteq Pool
      BY DEF Unfinished, Pool
    <3>2. IsFiniteSet(Pool) /\ IsFiniteSet(Unfinished) /\ Pool \cap Unfinished = Unfinished
          /\ IsFiniteSet(Pool \ Unfinished)
      BY <3>1, PoolFinite, FS_Subset
    <3> QED BY <3>2, FS_Difference, FS_CardinalityType DEF n
  <2>8. ASSUME waiter[Main] = "quiet" PROVE lineNum <= OutcomesSeen(x) + n
    <3>1. Len(queue) = 0
      BY <2>5, <2>8, EmptySeq
    <3>2. SumFunction(HandledBy) + Cardinality(Unfinished) = lineNum
      BY <2>1, <2>2, <2>5, <3>1 DEF StatInv, Sums, OutcomesTaken, TakenCount
    <3>3. SumFunction(HandledBy) <= OutcomesSeen(x) + Cardinality(Pool \ Unfinished)
      BY <2>5, <2>6, <2>8
    <3>4. SumFunction(HandledBy) \in Int
      BY <2>1, SumTypes
    <3> QED BY <2>1, <2>3, <2>5, <2>7, <3>2, <3>3, <3>4
  <2>9. Handled(Main) <= lineNum
    BY <2>2, <2>3, <2>4, <2>5
  <2> QED BY <2>3, <2>5, <2>8, <2>9 DEF x, n
<1> QED BY <1>1, ReplayInvHolds, PTL

-----------------------------------------------------------------------------
(* Updates one after the other.                                             *)

Nothing == [s \in {} |-> NewEntry(0)]

\* g holds, for each set of positions in S, what the store makes of the messages f there.
IsPlay(g, f, S) ==
    g = [s \in SUBSET S |->
            IF s = {} THEN Nothing ELSE Applied(g[s \ {Max(s)}], f[Max(s)])]

\* Positions are integers, and finitely many of them have a last one.
LEMMA LastIn ==
    ASSUME NEW S, IsFiniteSet(S), \A x \in S : x \in Int, S # {}
    PROVE  Max(S) \in S /\ \A y \in S : Max(S) >= y
<1> DEFINE F == {T \in SUBSET S : T # {} /\ ~ \E x \in T : \A y \in T : x >= y}
<1>1. ASSUME F # {} PROVE FALSE
  <2>1. PICK m \in F : \A t \in F : t \subseteq m => t = m
    <3>1. F \subseteq SUBSET S
      OBVIOUS
    <3> HIDE DEF F
    <3> QED BY <1>1, <3>1, MinimalSet
  <2>2. PICK x \in m : TRUE
    OBVIOUS
  <2>3. CASE m \ {x} = {}
    BY <2>2, <2>3
  <2>4. CASE m \ {x} # {}
    <3>1. m \ {x} \notin F /\ m \ {x} \in SUBSET S
      BY <2>1, <2>2
    <3>2. PICK z \in m \ {x} : \A y \in m \ {x} : z >= y
      BY <2>4, <3>1
    <3>3. x \in Int /\ z \in Int /\ \A y \in m : y \in Int
      BY <2>1, <2>2, <3>2
    <3>4. (x >= z => \A y \in m : x >= y) /\ (z >= x => \A y \in m : z >= y)
      BY <3>2, <3>3
    <3> QED BY <2>1, <3>2, <3>3, <3>4
  <2> QED BY <2>3, <2>4
<1>2. \E x \in S : \A y \in S : x >= y
  BY <1>1
<1> QED BY <1>2 DEF Max

\* Two plays agree wherever their messages do.
LEMMA PlayUnique ==
    ASSUME NEW S, IsFiniteSet(S), \A x \in S : x \in Int, NEW T \in SUBSET S, NEW f, NEW h,
           \A i \in T : f[i] = h[i], NEW g, NEW k, IsPlay(g, f, T), IsPlay(k, h, S),
           NEW u \in SUBSET T
    PROVE  g[u] = k[u]
<1> DEFINE F == {s \in SUBSET T : g[s] # k[s]}
<1> SUFFICES ASSUME F # {} PROVE FALSE
  OBVIOUS
<1>1. PICK m \in F : \A t \in F : t \subseteq m => t = m
  <2>1. F \subseteq SUBSET S
    OBVIOUS
  <2> HIDE DEF F
  <2> QED BY <2>1, MinimalSet
<1>2. m # {} /\ m \in SUBSET T /\ m \in SUBSET S
  BY DEF IsPlay
<1>3. Max(m) \in m
  BY <1>2, LastIn, FS_Subset
<1>4. g[m \ {Max(m)}] = k[m \ {Max(m)}] /\ f[Max(m)] = h[Max(m)]
  BY <1>1, <1>2, <1>3
<1>5. g[m] = Applied(g[m \ {Max(m)}], f[Max(m)])
  BY <1>2 DEF IsPlay
<1>6. k[m] = Applied(k[m \ {Max(m)}], h[Max(m)])
  BY <1>2 DEF IsPlay
<1> QED BY <1>4, <1>5, <1>6

LEMMA PlaySame ==
    ASSUME NEW S, IsFiniteSet(S), \A x \in S : x \in Int, NEW T \in SUBSET S,
           NEW f, NEW g, NEW k, IsPlay(g, f, T), IsPlay(k, f, S)
    PROVE  g[T] = k[T]
<1>1. T \in SUBSET T
  OBVIOUS
<1> DEFINE h == f
<1>2. \A i \in T : f[i] = h[i]
  OBVIOUS
<1>3. IsPlay(k, h, S)
  OBVIOUS
<1> HIDE DEF h
<1> QED BY <1>1, <1>2, <1>3, PlayUnique

\* Every finite set of positions can be played.
LEMMA PlayExists ==
    ASSUME NEW S, IsFiniteSet(S), \A x \in S : x \in Int, NEW f PROVE \E g : IsPlay(g, f, S)
<1> DEFINE F == {T \in SUBSET S : ~ \E g : IsPlay(g, f, T)}
<1> SUFFICES ASSUME F # {} PROVE FALSE
  OBVIOUS
<1>1. PICK m \in F : \A t \in F : t \subseteq m => t = m
  <2>1. F \subseteq SUBSET S
    OBVIOUS
  <2> HIDE DEF F
  <2> QED BY <2>1, MinimalSet
<1> DEFINE G(t) == CHOOSE g : IsPlay(g, f, t)
           Rest(s) == s \ {Max(s)}
           play == [s \in SUBSET m |->
                       IF s = {} THEN Nothing ELSE Applied(G(Rest(s))[Rest(s)], f[Max(s)])]
<1>2. ASSUME NEW t \in SUBSET m, t # m PROVE IsPlay(G(t), f, t)
  BY <1>1, <1>2
<1>3. ASSUME NEW s \in SUBSET m, s # {}
      PROVE  Rest(s) \in SUBSET s /\ Rest(s) \in SUBSET m /\ Rest(s) # m
  BY <1>3, LastIn, FS_Subset
<1>4. ASSUME NEW t \in SUBSET m, t # m PROVE play[t] = G(t)[t]
  <2>1. IsPlay(G(t), f, t)
    BY <1>2, <1>4
  <2>2. CASE t = {}
    <3>1. play[t] = Nothing
      BY <2>2
    <3> HIDE DEF G
    <3> QED BY <2>1, <2>2, <3>1 DEF IsPlay
  <2>3. CASE t # {}
    <3> DEFINE u == Rest(t)
    <3>1. u \in SUBSET t /\ u # m /\ u \in SUBSET m
      BY <1>3, <2>3
    <3>2. IsPlay(G(u), f, u) /\ IsFiniteSet(t) /\ \A x \in t : x \in Int
      BY <1>2, <3>1, FS_Subset
    <3> HIDE DEF G
    <3>3. G(u)[u] = G(t)[u]
      <4> HIDE DEF u, F
      <4> QED BY <2>1, <3>1, <3>2, PlaySame
    <3>4. G(t)[t] = Applied(G(t)[u], f[Max(t)])
      BY <2>1, <2>3 DEF IsPlay
    <3>5. play[t] = Applied(G(u)[u], f[Max(t)])
      BY <2>3
    <3> QED BY <3>3, <3>4, <3>5
  <2> QED BY <2>2, <2>3
<1> HIDE DEF G
<1>5. \A s \in SUBSET m : s # {} => play[Rest(s)] = G(Rest(s))[Rest(s)]
  BY <1>3, <1>4
<1>6. play = [s \in SUBSET m |-> IF s = {} THEN Nothing ELSE Applied(play[Rest(s)], f[Max(s)])]
  <2> DEFINE R == [s \in SUBSET m |->
                      IF s = {} THEN Nothing ELSE Applied(play[Rest(s)], f[Max(s)])]
  <2>1. ASSUME NEW s \in SUBSET m PROVE play[s] = R[s]
    BY <1>5
  <2> QED BY <2>1
<1>7. IsPlay(play, f, m)
  BY <1>6 DEF IsPlay
<1> QED BY <1>7

\* StoreOf of nothing, and of one more message.
LEMMA StoreOfNone == ASSUME NEW msgs, DOMAIN msgs = {} PROVE StoreOf(msgs) = Nothing
<1>1. PICK g : IsPlay(g, msgs, {})
  BY PlayExists, FS_EmptySet
<1>2. StoreOf(msgs) = (CHOOSE h : IsPlay(h, msgs, {}))[{}]
  BY DEF StoreOf, FoldLeft, MapThenFoldSet, IsPlay, Nothing
<1>3. IsPlay(CHOOSE h : IsPlay(h, msgs, {}), msgs, {})
  BY <1>1
<1> QED BY <1>2, <1>3 DEF IsPlay

LEMMA StoreOfMore ==
    ASSUME NEW n \in Nat, NEW f, NEW h, DOMAIN f = 1 .. n, DOMAIN h = 1 .. n + 1,
           \A i \in 1 .. n : f[i] = h[i]
    PROVE  StoreOf(h) = Applied(StoreOf(f), h[n + 1])
<1> DEFINE G(t, S) == CHOOSE g : IsPlay(g, t, S)
           S == 1 .. n
           T == 1 .. n + 1
<1>1. /\ IsFiniteSet(S) /\ IsFiniteSet(T) /\ \A i \in T : i \in Int
      /\ S \subseteq T /\ T # {} /\ n + 1 \in T /\ T \ {n + 1} = S
  <2>1. 1 \in Int /\ n \in Int /\ n + 1 \in Int
    OBVIOUS
  <2>2. IsFiniteSet(S) /\ IsFiniteSet(T)
    BY <2>1, FS_Interval
  <2> QED BY <2>2
<1>2. StoreOf(h) = G(h, T)[T] /\ StoreOf(f) = G(f, S)[S]
  BY DEF StoreOf, FoldLeft, MapThenFoldSet, IsPlay, Nothing
<1>3. IsPlay(G(h, T), h, T) /\ IsPlay(G(f, S), f, S)
  BY <1>1, PlayExists
<1>4. Max(T) = n + 1
  <2>1. Max(T) \in T /\ Max(T) >= n + 1
    BY <1>1, LastIn
  <2> QED BY <2>1
<1>a. (\A i \in S : f[i] = h[i]) /\ S \in SUBSET T /\ S \in SUBSET S
  BY <1>1
<1> HIDE DEF G, S, T
<1>5. G(h, T)[T] = Applied(G(h, T)[T \ {Max(T)}], h[Max(T)])
  BY <1>1, <1>3 DEF IsPlay
<1>6. G(f, S)[S] = G(h, T)[S]
  BY <1>1, <1>3, <1>a, PlayUnique
<1> QED BY <1>1, <1>2, <1>4, <1>5, <1>6

\* A sensor's entry but for the failures that are recorded behind Update.
Cleared(e) == [e EXCEPT !.errorCount = 0, !.anomalyCount = 0]
ClearedStore == [s \in DOMAIN sensors |-> Cleared(sensors[s])]

\* Neither the decisions of Update nor what it changes depend on failures.
LEMMA ClearedUpdates ==
    ASSUME NEW e \in Entry, NEW q \in SequenceNumbers
    PROVE  /\ Cleared(Updated(e, q)) = Updated(Cleared(e), q)
           /\ Cleared(NewEntry(q)) = NewEntry(q)
           /\ Cleared(WithError(e)) = Cleared(e) /\ Cleared(WithAnomaly(e)) = Cleared(e)
<1> DEFINE c == Cleared(e)
<1>1. /\ c \in Entry /\ c.lastSequence = e.lastSequence /\ c.recentSeqs = e.recentSeqs
      /\ c.droppedCount = e.droppedCount /\ c.messageCount = e.messageCount
      /\ c.duplicateCount = e.duplicateCount /\ c.outOfOrderCount = e.outOfOrderCount
      /\ c.errorCount = 0 /\ c.anomalyCount = 0 /\ c.status = e.status
  BY DEF Cleared, Entry
<1>2. Cleared(NewEntry(q)) = NewEntry(q)
  <2> DEFINE r == NewEntry(q)
  <2>1. r \in Entry /\ r.errorCount = 0 /\ r.anomalyCount = 0
    BY NewEntryType DEF NewEntry
  <2> HIDE DEF r
  <2>2. Cleared(r) = r
    BY <2>1 DEF Cleared, Entry
  <2> QED BY <2>2 DEF r
<1>3. Cleared(WithError(e)) = Cleared(e) /\ Cleared(WithAnomaly(e)) = Cleared(e)
  BY DEF Cleared, WithError, WithAnomaly, Entry
<1>4. /\ Advances(e, q) <=> Advances(c, q)
      /\ IsDuplicate(e, q) <=> IsDuplicate(c, q)
      /\ Gap(e, q) = Gap(c, q)
  BY <1>1 DEF Advances, IsDuplicate, Gap
<1>5. Cleared(Received(e)) = Received(c)
  BY DEF Cleared, Received, Entry
<1>6. Received(e) \in Entry /\ Received(c) \in Entry
  BY <1>1, ReceivedFields
<1> HIDE DEF c
<1> DEFINE x == Received(e)
           y == Received(c)
<1>7. /\ y = Cleared(x) /\ x \in Entry /\ y \in Entry
      /\ y.recentSeqs = x.recentSeqs /\ y.droppedCount = x.droppedCount
      /\ y.duplicateCount = x.duplicateCount /\ y.outOfOrderCount = x.outOfOrderCount
  <2>1. y = Cleared(x) /\ x \in Entry /\ y \in Entry
    BY <1>5, <1>6
  <2> HIDE DEF x, y
  <2> QED BY <2>1 DEF Cleared, Entry
<1> HIDE DEF x, y
<1>8. Cleared([x EXCEPT !.duplicateCount = @ + 1]) = [y EXCEPT !.duplicateCount = @ + 1]
  BY <1>7 DEF Cleared, Entry
<1>9. CASE Advances(e, q)
  <2> DEFINE d == x.droppedCount + Gap(e, q)
             R == Pruned(x.recentSeqs \cup {q}, q)
  <2>1. Updated(e, q) = [x EXCEPT !.droppedCount = d, !.lastSequence = q, !.recentSeqs = R]
    BY <1>9 DEF Updated, AfterAdvance, x
  <2>2. Updated(c, q) = [y EXCEPT !.droppedCount = d, !.lastSequence = q, !.recentSeqs = R]
    BY <1>4, <1>7, <1>9 DEF Updated, AfterAdvance, y
  <2> HIDE DEF d, R
  <2>3. Cleared([x EXCEPT !.droppedCount = d, !.lastSequence = q, !.recentSeqs = R])
          = [y EXCEPT !.droppedCount = d, !.lastSequence = q, !.recentSeqs = R]
    BY <1>7 DEF Cleared, Entry
  <2> QED BY <1>2, <1>3, <2>1, <2>2, <2>3 DEF c
<1>10. CASE ~ Advances(e, q) /\ IsDuplicate(e, q)
  <2>1. Updated(e, q) = [x EXCEPT !.duplicateCount = @ + 1]
    BY <1>10 DEF Updated, AfterDuplicate, x
  <2>2. Updated(c, q) = [y EXCEPT !.duplicateCount = @ + 1]
    BY <1>4, <1>10 DEF Updated, AfterDuplicate, y
  <2> QED BY <1>2, <1>3, <1>8, <2>1, <2>2 DEF c
<1>11. CASE ~ Advances(e, q) /\ ~ IsDuplicate(e, q)
  <2> DEFINE d == x.outOfOrderCount + 1
             R == x.recentSeqs \cup {q}
  <2>1. Updated(e, q) = [x EXCEPT !.outOfOrderCount = d, !.recentSeqs = R]
    BY <1>11 DEF Updated, AfterLate, x
  <2>2. Updated(c, q) = [y EXCEPT !.outOfOrderCount = d, !.recentSeqs = R]
    BY <1>4, <1>7, <1>11 DEF Updated, AfterLate, y
  <2> HIDE DEF d, R
  <2>3. Cleared([x EXCEPT !.outOfOrderCount = d, !.recentSeqs = R])
          = [y EXCEPT !.outOfOrderCount = d, !.recentSeqs = R]
    BY <1>7 DEF Cleared, Entry
  <2> QED BY <1>2, <1>3, <2>1, <2>2, <2>3 DEF c
<1> QED BY <1>9, <1>10, <1>11

\* One worker applies the messages in turn: what it has applied is the beginning of what
\* was accepted, and what it is about to apply is the next.
LEMMA OneInTurn ==
    ASSUME TypeInv, Channel, Places, Overtaking, NEW w \in Workers, Pool = {w}
    PROVE  /\ Cardinality(updated) \in Nat /\ Cardinality(updated) <= Len(accepted)
           /\ IsFiniteSet(updated)
           /\ worker[w].pc = "updating" =>
                  /\ Cardinality(updated) < Len(accepted)
                  /\ worker[w].msg = accepted[Cardinality(updated) + 1]
                  /\ worker[w].msg \notin updated
<1> DEFINE n == IF worker[w].pc = "updating" THEN TakenCount - 1 ELSE TakenCount
           msg == worker[w].msg
<1>1. /\ Len(accepted) \in Nat /\ TakenCount \in Nat /\ TakenCount <= Len(accepted)
      /\ \A i, j \in 1 .. Len(accepted) : accepted[i] = accepted[j] => i = j
      /\ \A i \in 1 .. Len(accepted) : accepted[i] \in Messages
  BY Lengths DEF Channel, TakenCount
<1>2. \A v \in Workers \ {w} : v \notin Busy
  <2>1. \A v \in Workers \ {w} : worker[v].pc = "absent"
    BY DEF Pool
  <2> QED BY <2>1 DEF TypeInv, Holding, HoldingPcs, Busy
<1>3. worker[w].pc = "updating" => w \in Busy /\ msg \in Messages /\ msg \notin updated
  BY TypeParts DEF Overtaking, TypeInv, PoolType, WorkerStates, Holding, HoldingPcs, Busy
<1>4. \A i \in 1 .. TakenCount : accepted[i] \in Messages
  BY <1>1
<1>5. ASSUME NEW i \in 1 .. TakenCount
      PROVE  accepted[i] \in updated \/ (worker[w].pc = "updating" /\ msg = accepted[i])
  <2>1. accepted[i] \in finished \/ \E v \in Workers : worker[v].msg = accepted[i]
    BY <1>4 DEF Places
  <2>2. CASE accepted[i] \in finished
    BY <2>2 DEF Overtaking
  <2>3. ASSUME NEW v \in Workers, worker[v].msg = accepted[i]
        PROVE  accepted[i] \in updated \/ (worker[w].pc = "updating" /\ msg = accepted[i])
    <3>1. v \in Busy
      BY <1>4, <2>3, ProcessorAssumption DEF Busy
    <3>2. v = w
      BY <1>2, <3>1
    <3> QED BY <2>3, <3>1, <3>2 DEF Overtaking
  <2> QED BY <2>1, <2>2, <2>3
<1>6. ASSUME worker[w].pc = "updating"
      PROVE  TakenCount > 0 /\ msg = accepted[TakenCount]
  <2>1. PICK j \in 1 .. TakenCount : accepted[j] = msg
    BY <1>3, <1>6 DEF Places
  <2>2. TakenCount \in 1 .. TakenCount
    BY <1>1, <2>1
  <2>3. ~ HoldsBack(w, TakenCount)
    BY <2>2 DEF Overtaking
  <2>4. j \notin 1 .. TakenCount - 1
    BY <1>6, <2>1, <2>3 DEF HoldsBack
  <2>5. j = TakenCount
    BY <1>1, <2>1, <2>4
  <2> QED BY <1>1, <2>1, <2>5
<1> HIDE DEF msg
<1>7. /\ n \in Nat /\ n <= TakenCount
      /\ worker[w].pc = "updating" => n + 1 = TakenCount /\ msg = accepted[n + 1]
      /\ \A i \in 1 .. TakenCount : (worker[w].pc = "updating" /\ i = TakenCount) \/ i \in 1 .. n
      /\ worker[w].pc # "updating" => n = TakenCount
  BY <1>1, <1>6
<1> HIDE DEF n
<1>8. updated = {accepted[i] : i \in 1 .. n}
  <2>1. ASSUME NEW i \in 1 .. n PROVE accepted[i] \in updated
    <3>1. i \in 1 .. TakenCount /\ i \in 1 .. Len(accepted)
      BY <1>1, <1>7
    <3>2. CASE worker[w].pc = "updating"
      <4>1. i # n + 1 /\ n + 1 \in 1 .. Len(accepted)
        BY <1>1, <1>7, <3>2
      <4>2. msg # accepted[i]
        BY <1>1, <1>7, <3>1, <3>2, <4>1
      <4> QED BY <1>5, <3>1, <4>2
    <3>3. CASE worker[w].pc # "updating"
      BY <1>5, <3>1, <3>3
    <3> QED BY <3>2, <3>3
  <2>2. ASSUME NEW m \in updated PROVE \E i \in 1 .. n : accepted[i] = m
    <3>1. PICK i \in 1 .. TakenCount : accepted[i] = m
      BY DEF Overtaking
    <3>2. ~ (worker[w].pc = "updating" /\ i = TakenCount)
      BY <1>3, <1>6, <3>1 DEF msg
    <3> QED BY <1>7, <3>1, <3>2
  <2> QED BY <2>1, <2>2
<1>9. IsFiniteSet(updated) /\ Cardinality(updated) = n
  <2> DEFINE f == [i \in 1 .. n |-> accepted[i]]
  <2>1. \A i, j \in 1 .. n : accepted[i] = accepted[j] => i = j
    BY <1>1, <1>7
  <2>2. f \in Bijection(1 .. n, updated)
    BY <1>8, <2>1 DEF Bijection, Injection, Surjection, IsInjective
  <2>3. ExistsBijection(1 .. n, updated)
    BY <2>2, Zenon DEF ExistsBijection
  <2>4. IsFiniteSet(1 .. n) /\ Cardinality(1 .. n) = n
    BY <1>7, FS_Interval
  <2> QED BY <2>3, <2>4, FS_Bijection
<1>10. /\ n <= Len(accepted)
       /\ worker[w].pc = "updating" => n < Len(accepted)
  BY <1>1, <1>7
<1> QED BY <1>3, <1>7, <1>9, <1>10 DEF msg

\* A pool of at most one worker has applied no more than was accepted.
LEMMA FewApplied ==
    ASSUME TypeInv, Channel, Places, Overtaking, Cardinality(Pool) <= 1
    PROVE  Cardinality(updated) \in Nat /\ Cardinality(updated) <= Len(accepted)
<1>1. CASE Pool = {}
  <2>1. Len(accepted) \in Nat /\ TakenCount \in Nat
    BY Lengths DEF Channel, TakenCount
  <2>2. \A i \in 1 .. TakenCount : FALSE
    BY <1>1 DEF Overtaking
  <2>3. updated = {}
    BY <2>2 DEF Overtaking
  <2>4. Cardinality(updated) = 0
    BY <2>3, FS_EmptySet, Zenon
  <2> QED BY <2>1, <2>4
<1>2. CASE Pool # {}
  <2>1. Cardinality(Pool) # 0
    BY <1>2, PoolFinite, FS_EmptySet
  <2>2. Cardinality(Pool) = 1
    BY <2>1, PoolFinite
  <2>3. PICK w : Pool = {w}
    BY <2>2, PoolFinite, FS_Singleton, Zenon
  <2>4. w \in Workers
    BY <2>3 DEF Pool
  <2> QED BY <2>3, <2>4, OneInTurn
<1> QED BY <1>1, <1>2

\* What was accepted stays where it is.
LEMMA AcceptedKept ==
    ASSUME TypeInv, [Next]_vars
    PROVE  \A i \in 1 .. Len(accepted) : accepted'[i] = accepted[i]
<1>1. CASE UNCHANGED accepted
  BY <1>1
<1>2. ASSUME NEW c \in Enqueuers, Send(c) PROVE \A i \in 1 .. Len(accepted) : accepted'[i] = accepted[i]
  <2>1. /\ accepted \in Seq(Messages) /\ caller[c] \in CallerStates
        /\ accepted' = Append(accepted, caller[c].msg)
    BY <1>2, TypeParts DEF Send, TypeInv, IntakeType
  <2>2. caller[c].msg \in Messages \cup {NoMessage}
    BY <2>1 DEF CallerStates
  <2>3. accepted \in Seq(Messages \cup {NoMessage})
    BY <2>1
  <2> QED BY <2>1, <2>2, <2>3, AppendProperties
<1>3. CASE Start \/ \E t \in Stoppers : StopStep(t)
  BY <1>1, <1>3 DEF Start, StopStep, StopCheck, StopStore, CloseStopChan, CloseStopChanAgain,
     CloseJobsChan, StopReturn, Stopping, Panic, intake
<1>4. CASE \E c \in Enqueuers, m \in Messages : Call(c, m)
  BY <1>1, <1>4 DEF Call
<1>5. ASSUME NEW c \in Enqueuers, EnqueueStep(c), ~ Send(c) PROVE UNCHANGED accepted
  BY <1>5 DEF EnqueueStep, Count, SendOnClosed, GiveUp, Refuse, Panic, intake
<1>6. CASE \E w \in Workers : WorkerStep(w)
  BY <1>1, <1>6, WorkerMoves
<1>7. CASE \E v \in Waiters : Wait(v) \/ WaitStep(v)
  BY <1>1, <1>7 DEF Wait, WaitStep, WaitCheck, WaitQuiet, WaitOn, Waiting, intake
<1>8. CASE UNCHANGED vars
  BY <1>1, <1>8 DEF vars, intake
<1> QED BY <1>1, <1>2, <1>3, <1>4, <1>5, <1>6, <1>7, <1>8 DEF Next

\* The beginning of a sequence, and what a sequence that goes on behind it makes of it.
LEMMA PrefixFields ==
    ASSUME NEW a \in Seq(Messages), NEW n \in Nat, n <= Len(a)
    PROVE  /\ SubSeq(a, 1, n) \in Seq(Messages) /\ DOMAIN SubSeq(a, 1, n) = 1 .. n
           /\ Len(SubSeq(a, 1, n)) = n /\ \A i \in 1 .. n : SubSeq(a, 1, n)[i] = a[i]
<1>1. Len(a) \in Nat /\ \A i \in 1 .. Len(a) : a[i] \in Messages
  BY LenProperties, ElementOfSeq
<1>2. \A i \in 1 .. n : a[i] \in Messages /\ 1 + i - 1 = i
  BY <1>1
<1>3. n - 1 + 1 = n /\ 1 \in Int /\ n \in Int /\ (1 <= n \/ n = 0)
  OBVIOUS
<1> DEFINE b == SubSeq(a, 1, n)
<1>4. b \in Seq(Messages) /\ Len(b) = n /\ \A i \in 1 .. n : b[i] = a[i]
  BY <1>2, <1>3, SubSeqProperties
<1> HIDE DEF b
<1>5. DOMAIN b = 1 .. n
  BY <1>4, LenProperties
<1> QED BY <1>4, <1>5 DEF b

LEMMA PrefixKept ==
    ASSUME NEW a \in Seq(Messages), NEW b \in Seq(Messages), Len(a) <= Len(b),
           \A i \in 1 .. Len(a) : b[i] = a[i], NEW n \in Nat, n <= Len(a)
    PROVE  SubSeq(b, 1, n) = SubSeq(a, 1, n)
<1>1. Len(a) \in Nat /\ Len(b) \in Nat /\ n <= Len(b) /\ \A i \in 1 .. n : i \in 1 .. Len(a)
  BY LenProperties
<1> DEFINE c == SubSeq(a, 1, n)
           d == SubSeq(b, 1, n)
<1>2. /\ c \in Seq(Messages) /\ d \in Seq(Messages) /\ Len(c) = n /\ Len(d) = n
      /\ \A i \in 1 .. n : c[i] = a[i] /\ d[i] = b[i]
  BY <1>1, PrefixFields
<1> HIDE DEF c, d
<1>3. Len(c) = Len(d) /\ \A i \in 1 .. Len(d) : d[i] = c[i]
  BY <1>1, <1>2
<1>4. d = c
  BY <1>2, <1>3, SeqEqual
<1> QED BY <1>4 DEF c, d

LEMMA PrefixMore ==
    ASSUME NEW a \in Seq(Messages), NEW n \in Nat, n < Len(a)
    PROVE  StoreOf(SubSeq(a, 1, n + 1)) = Applied(StoreOf(SubSeq(a, 1, n)), a[n + 1])
<1>1. Len(a) \in Nat /\ n <= Len(a) /\ n + 1 <= Len(a) /\ n + 1 \in Nat /\ n + 1 \in 1 .. n + 1
      /\ \A i \in 1 .. n : i \in 1 .. n + 1
  BY LenProperties
<1> DEFINE c == SubSeq(a, 1, n)
           d == SubSeq(a, 1, n + 1)
<1>2. /\ DOMAIN c = 1 .. n /\ DOMAIN d = 1 .. n + 1
      /\ \A i \in 1 .. n : c[i] = a[i]
      /\ \A i \in 1 .. n + 1 : d[i] = a[i]
  BY <1>1, PrefixFields
<1> HIDE DEF c, d
<1>3. \A i \in 1 .. n : c[i] = d[i]
  BY <1>1, <1>2
<1>4. StoreOf(d) = Applied(StoreOf(c), d[n + 1])
  BY <1>2, <1>3, StoreOfMore
<1> QED BY <1>1, <1>2, <1>4 DEF c, d

FollowsFile ==
    Cardinality(Pool) <= 1 => ClearedStore = StoreOf(SubSeq(accepted, 1, Cardinality(updated)))

LEMMA FollowsFileInit == Init => FollowsFile
<1> SUFFICES ASSUME Init PROVE FollowsFile
  OBVIOUS
<1>1. accepted = <<>> /\ updated = {} /\ DOMAIN sensors = {}
  BY DEF Init
<1>2. Cardinality(updated) = 0
  BY <1>1, FS_EmptySet, Zenon
<1>3. SubSeq(accepted, 1, 0) = <<>>
  BY SubSeqEmpty
<1>4. StoreOf(SubSeq(accepted, 1, 0)) = Nothing
  <2>1. DOMAIN <<>> = {}
    BY EmptySeq, LenProperties
  <2> QED BY <1>3, <2>1, StoreOfNone
<1>5. ClearedStore = Nothing
  BY <1>1 DEF ClearedStore, Nothing
<1> QED BY <1>2, <1>4, <1>5 DEF FollowsFile

\* Update by the only worker is the next step of the play.
LEMMA UpdateFollows ==
    ASSUME TypeInv, Channel, Places, Overtaking, NEW w \in Workers, UpdateStore(w),
           Pool = {w}, ClearedStore = StoreOf(SubSeq(accepted, 1, Cardinality(updated)))
    PROVE  /\ accepted' = accepted
           /\ ClearedStore' = StoreOf(SubSeq(accepted, 1, Cardinality(updated')))
<1> DEFINE n == Cardinality(updated)
           m == worker[w].msg
           s == m.sensor
           q == m.sequence
           old == StoreOf(SubSeq(accepted, 1, n))
<1>1. /\ worker[w].pc = "updating" /\ m \in Messages /\ updated' = updated \cup {m}
      /\ q \in SequenceNumbers
  BY UpdateFields, ProcessorAssumption
<1>2. /\ n \in Nat /\ IsFiniteSet(updated) /\ n < Len(accepted) /\ accepted[n + 1] = m
      /\ m \notin updated
  BY <1>1, OneInTurn
<1> DEFINE e == IF s \in DOMAIN sensors THEN Updated(sensors[s], q) ELSE NewEntry(q)
<1>3. /\ sensors' = [x \in DOMAIN sensors \cup {s} |-> IF x = s THEN e ELSE sensors[x]]
      /\ accepted' = accepted
  BY DEF UpdateStore, Working
<1> HIDE DEF m
<1>4. Cardinality(updated') = n + 1
  BY <1>1, <1>2, FS_AddElement
<1>5. accepted \in Seq(Messages) /\ \A x \in DOMAIN sensors : sensors[x] \in Entry
  BY TypeParts DEF TypeInv, IntakeType, PoolType
<1> HIDE DEF n
<1>6. StoreOf(SubSeq(accepted, 1, n + 1)) = Applied(old, m)
  BY <1>2, <1>5, PrefixMore
<1> HIDE DEF e, s, q
<1>7. Cleared(e) = IF s \in DOMAIN sensors THEN Updated(Cleared(sensors[s]), q) ELSE NewEntry(q)
  BY <1>1, <1>5, ClearedUpdates, NewEntryType DEF e
<1>8. old = [x \in DOMAIN sensors |-> Cleared(sensors[x])]
  BY DEF ClearedStore, n
<1> HIDE DEF old
<1>9. Applied(old, m) = [x \in DOMAIN sensors \cup {s} |->
                            IF x # s THEN Cleared(sensors[x])
                            ELSE IF s \in DOMAIN sensors THEN Updated(Cleared(sensors[s]), q)
                            ELSE NewEntry(q)]
  <2>1. DOMAIN old = DOMAIN sensors /\ \A x \in DOMAIN sensors : old[x] = Cleared(sensors[x])
    BY <1>8
  <2> QED BY <2>1 DEF Applied, s, q
<1>10. ClearedStore' = [x \in DOMAIN sensors \cup {s} |->
                           IF x = s THEN Cleared(e) ELSE Cleared(sensors[x])]
  <2>1. ClearedStore' = [x \in DOMAIN sensors' |-> Cleared(sensors'[x])]
    BY DEF ClearedStore, Cleared
  <2>2. DOMAIN sensors' = DOMAIN sensors \cup {s}
        /\ \A x \in DOMAIN sensors' : sensors'[x] = IF x = s THEN e ELSE sensors[x]
    BY <1>3
  <2> QED BY <2>1, <2>2
<1>11. ClearedStore' = Applied(old, m)
  BY <1>7, <1>9, <1>10
<1> QED BY <1>3, <1>4, <1>6, <1>11 DEF n

\* What is recorded behind Update is cleared.
LEMMA RecordFollows ==
    ASSUME TypeInv, NEW w \in Workers, RecordFailure(w)
    PROVE  ClearedStore' = ClearedStore /\ UNCHANGED <<accepted, updated>>
<1> DEFINE m == worker[w].msg
           s == m.sensor
<1>1. /\ sensors' = [sensors EXCEPT ![s] =
                         IF m.outcome = "anomaly" THEN WithAnomaly(@) ELSE WithError(@)]
      /\ UNCHANGED <<accepted, updated>>
  BY DEF RecordFailure, Working
<1>2. \A x \in DOMAIN sensors : sensors[x] \in Entry
  BY TypeParts DEF TypeInv, PoolType
<1>3. DOMAIN sensors' = DOMAIN sensors
      /\ \A x \in DOMAIN sensors : sensors'[x] \in {sensors[x], WithAnomaly(sensors[x]), WithError(sensors[x])}
  BY <1>1
<1>4. 0 \in SequenceNumbers
  BY EntryAssumption DEF SequenceNumbers
<1>5. \A x \in DOMAIN sensors : Cleared(sensors'[x]) = Cleared(sensors[x])
  BY <1>2, <1>3, <1>4, ClearedUpdates
<1>6. ClearedStore' = [x \in DOMAIN sensors' |-> Cleared(sensors'[x])]
  BY DEF ClearedStore, Cleared
<1> QED BY <1>1, <1>3, <1>5, <1>6 DEF ClearedStore

\* All other steps leave the store to itself.
LEMMA StoreQuiet ==
    ASSUME TypeInv, [Next]_vars, \A w \in Workers : ~ (UpdateStore(w) \/ RecordFailure(w))
    PROVE  UNCHANGED <<sensors, updated>>
<1>1. CASE Start \/ \E t \in Stoppers : StopStep(t)
  BY <1>1 DEF Start, StopStep, StopCheck, StopStore, CloseStopChan, CloseStopChanAgain,
     CloseJobsChan, StopReturn, Stopping, Panic, pool
<1>2. CASE \E c \in Enqueuers, m \in Messages : Call(c, m)
  BY <1>2 DEF Call, Enqueuing, pool
<1>3. CASE \E c \in Enqueuers : EnqueueStep(c)
  BY <1>3 DEF EnqueueStep, Send, Count, SendOnClosed, GiveUp, Refuse, Panic, Enqueuing, pool
<1>4. ASSUME NEW w \in Workers, WorkerStep(w) PROVE UNCHANGED <<sensors, updated>>
  BY <1>4 DEF WorkerStep, Exit, Take, CountSequence, Validate, Leave
<1>5. CASE \E v \in Waiters : Wait(v) \/ WaitStep(v)
  BY <1>5 DEF Wait, WaitStep, WaitCheck, WaitQuiet, WaitOn, Waiting, pool
<1>6. CASE UNCHANGED vars
  BY <1>6 DEF vars, pool
<1> QED BY <1>1, <1>2, <1>3, <1>4, <1>5, <1>6 DEF Next

LEMMA FollowsFileStep ==
    TypeInv /\ TypeInv' /\ Channel /\ Places /\ Overtaking /\ FollowsFile /\ [Next]_vars
        => FollowsFile'
<1> SUFFICES ASSUME TypeInv, TypeInv', Channel, Places, Overtaking, FollowsFile, [Next]_vars,
                    Cardinality(Pool') <= 1
             PROVE  ClearedStore' = StoreOf(SubSeq(accepted', 1, Cardinality(updated')))
  BY DEF FollowsFile
<1>1. Cardinality(Pool) <= 1
  <2>1. CASE Pool = {}
    <3>1. Cardinality(Pool) = 0
      BY <2>1, FS_EmptySet, Zenon
    <3> QED BY <3>1
  <2>2. CASE Pool # {}
    BY <2>2, PoolFixed
  <2> QED BY <2>1, <2>2
<1>2. ClearedStore = StoreOf(SubSeq(accepted, 1, Cardinality(updated)))
  BY <1>1 DEF FollowsFile
<1>3. CASE \A w \in Workers : ~ (UpdateStore(w) \/ RecordFailure(w))
  <2> DEFINE n == Cardinality(updated)
  <2>1. UNCHANGED <<sensors, updated>>
    BY <1>3, StoreQuiet
  <2>2. n \in Nat /\ n <= Len(accepted)
    BY <1>1, FewApplied
  <2>3. /\ accepted \in Seq(Messages) /\ accepted' \in Seq(Messages)
        /\ Len(accepted) <= Len(accepted')
        /\ \A i \in 1 .. Len(accepted) : accepted'[i] = accepted[i]
    BY AcceptedKept, AcceptedGrows, TypeParts DEF TypeInv, TypeOK
  <2> HIDE DEF n
  <2>4. SubSeq(accepted', 1, n) = SubSeq(accepted, 1, n)
    BY <2>2, <2>3, PrefixKept
  <2>5. ClearedStore' = ClearedStore
    BY <2>1 DEF ClearedStore, Cleared
  <2> QED BY <1>2, <2>1, <2>4, <2>5 DEF n
<1>4. ASSUME NEW w \in Workers, UpdateStore(w)
      PROVE  ClearedStore' = StoreOf(SubSeq(accepted', 1, Cardinality(updated')))
  <2>1. w \in Pool
    BY <1>4, UpdateFields DEF Pool
  <2>2. Pool = {w}
    <3>1. Cardinality(Pool) # 0 /\ Cardinality(Pool) \in Nat
      BY <2>1, PoolFinite, FS_EmptySet
    <3>2. Cardinality(Pool) = 1
      BY <1>1, <3>1
    <3>3. PICK v : Pool = {v}
      BY <3>2, PoolFinite, FS_Singleton, Zenon
    <3> QED BY <2>1, <3>3
  <2> QED BY <1>2, <1>4, <2>2, UpdateFollows
<1>5. ASSUME NEW w \in Workers, RecordFailure(w)
      PROVE  ClearedStore' = StoreOf(SubSeq(accepted', 1, Cardinality(updated')))
  BY <1>2, <1>5, RecordFollows
<1> QED BY <1>3, <1>4, <1>5

TurnsInv == Places /\ Overtaking /\ FollowsFile

\* With one worker the sensors are, at every moment and whatever the timing, what the part
\* of the file that was processed makes of them.
THEOREM StateFollowsFileCorrect == ASSUME ReplaySetting PROVE ReplaySpec => []StateFollowsFile
<1>1. ReplayInit => TurnsInv
  BY PlacesInit, OvertakingInit, FollowsFileInit DEF ReplayInit, StatInit, TurnsInv
<1>2. ReplayInv /\ ReplayInv' /\ TurnsInv /\ [ReplayNext]_replayVars => TurnsInv'
  <2> SUFFICES ASSUME ReplayInv, ReplayInv', TurnsInv, [ReplayNext]_replayVars PROVE TurnsInv'
    OBVIOUS
  <2>1. [StatNext]_statVars
    BY ReplayIsStat DEF ReplayInv
  <2>2. [Next]_vars
    BY <2>1 DEF StatNext, statVars, StatsStep, LoadCounter, LoadDepth, LoadEnqueued,
       ListSensors, Reads
  <2>3. TypeInv /\ TypeInv' /\ Channel
    BY DEF ReplayInv, StatInv
  <2> QED BY <2>2, <2>3, PlacesStep, OvertakingStep, FollowsFileStep DEF TurnsInv
<1>3. TurnsInv => StateFollowsFile
  <2> SUFFICES ASSUME TurnsInv, Cardinality(Pool) = 1
               PROVE  [s \in DOMAIN sensors |->
                          [sensors[s] EXCEPT !.errorCount = 0, !.anomalyCount = 0]]
                        = StoreOf(SubSeq(accepted, 1, Cardinality(updated)))
    BY DEF StateFollowsFile
  <2>1. Cardinality(Pool) <= 1
    OBVIOUS
  <2>2. ClearedStore = StoreOf(SubSeq(accepted, 1, Cardinality(updated)))
    BY <2>1 DEF TurnsInv, FollowsFile
  <2> QED BY <2>2, Zenon DEF ClearedStore, Cleared
<1> QED BY <1>1, <1>2, <1>3, ReplayInvHolds, PTL DEF ReplaySpec
===============================================================================
