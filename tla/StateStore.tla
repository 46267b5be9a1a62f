------------------------------ MODULE StateStore ------------------------------
(***************************************************************************)
(* internal/state: the store of the latest state of every sensor, with the  *)
(* sequence tracking that detects dropped, duplicate and out-of-order       *)
(* messages.  Every method holds the store's mutex from its first line to   *)
(* its last, so each is one action; any goroutine may call any of them.     *)
(*                                                                          *)
(* Time is kept as the age of a sensor: the ticks since its LastSeen, which *)
(* is all CheckStale looks at.  It is cut off at Timeout + 1, from where on *)
(* the sensor is overdue whatever the age.                                  *)
(***************************************************************************)
EXTENDS SensorEntry, FiniteSets

CONSTANTS
    Sensors,       \* the sensor IDs that messages carry
    Timeout,       \* ticks of silence after which a sensor is stale
    MaxMessages,   \* bound: messages per sensor
    MaxFailures    \* bound: recorded errors, and anomalies, per sensor

ASSUME StoreAssumption ==
    /\ Timeout \in Nat
    /\ MaxMessages \in Nat
    /\ MaxFailures \in Nat

VARIABLES
    sensors,        \* the map: a function from the known sensors to entries
    age,            \* ticks since LastSeen, for every sensor
    firstSequence,  \* history: the sequence number a sensor was created with
    arrived,        \* history: all the sequence numbers a sensor sent
    lateAtMark,     \* history: outOfOrderCount when lastSequence last moved
    staleReports    \* history: how often CheckStale returned the sensor

vars == <<sensors, age, firstSequence, arrived, lateAtMark, staleReports>>

Known == DOMAIN sensors

\* The map holds well-formed entries, and no counter of one is negative.
TypeOK ==
    /\ Known \subseteq Sensors
    /\ sensors \in [Known -> Entry]
    /\ age \in [Sensors -> 0 .. Timeout + 1]
    /\ firstSequence \in [Sensors -> SequenceNumbers]
    /\ arrived \in [Sensors -> SUBSET SequenceNumbers]
    /\ lateAtMark \in [Sensors -> Nat]
    /\ staleReports \in [Sensors -> Nat]

Init ==
    /\ sensors = [s \in {} |-> NewEntry(0)]
    /\ age = [s \in Sensors |-> 0]
    /\ firstSequence = [s \in Sensors |-> 0]
    /\ arrived = [s \in Sensors |-> {}]
    /\ lateAtMark = [s \in Sensors |-> 0]
    /\ staleReports = [s \in Sensors |-> 0]

-----------------------------------------------------------------------------
\* Update, first message of a sensor: the entry is created.
Register(s, q) ==
    /\ s \notin Known
    /\ MaxMessages > 0
    /\ sensors' = [t \in Known \cup {s} |-> IF t = s THEN NewEntry(q) ELSE sensors[t]]
    /\ age' = [age EXCEPT ![s] = 0]
    /\ firstSequence' = [firstSequence EXCEPT ![s] = q]
    /\ arrived' = [arrived EXCEPT ![s] = {q}]
    /\ lateAtMark' = [lateAtMark EXCEPT ![s] = 0]
    /\ UNCHANGED staleReports

\* Update, a message of a known sensor.
Apply(s, q) ==
    /\ s \in Known
    /\ sensors[s].messageCount < MaxMessages
    /\ sensors' = [sensors EXCEPT ![s] = Updated(@, q)]
    /\ age' = [age EXCEPT ![s] = 0]
    /\ arrived' = [arrived EXCEPT ![s] = @ \cup {q}]
    /\ lateAtMark' = [lateAtMark EXCEPT ![s] =
           IF Advances(sensors[s], q) THEN sensors[s].outOfOrderCount ELSE @]
    /\ UNCHANGED <<firstSequence, staleReports>>

Update(s, q) == Register(s, q) \/ Apply(s, q)

\* RecordError and RecordAnomaly leave the store alone for an unknown sensor.
RecordError(s) ==
    /\ s \in Known
    /\ sensors[s].errorCount < MaxFailures
    /\ sensors' = [sensors EXCEPT ![s] = WithError(@)]
    /\ UNCHANGED <<age, firstSequence, arrived, lateAtMark, staleReports>>

RecordAnomaly(s) ==
    /\ s \in Known
    /\ sensors[s].anomalyCount < MaxFailures
    /\ sensors' = [sensors EXCEPT ![s] = WithAnomaly(@)]
    /\ UNCHANGED <<age, firstSequence, arrived, lateAtMark, staleReports>>

-----------------------------------------------------------------------------
\* Mutants of NewlyStale.
OverdueEveryScan(known, ages) ==
    {s \in DOMAIN known : ages[s] > Timeout}
NeverOverdue(known, ages) ==
    {s \in DOMAIN known : known[s].status = "healthy" /\ ages[s] > Timeout + 1}

\* The sensors a scan marks, and returns for logging.
NewlyStale(known, ages) ==
    {s \in DOMAIN known : known[s].status = "healthy" /\ ages[s] > Timeout}

CheckStale ==
    LET stale == NewlyStale(sensors, age)
    IN  /\ stale # {}
        /\ sensors' = [s \in Known |->
               IF s \in stale THEN [sensors[s] EXCEPT !.status = "stale"]
                              ELSE sensors[s]]
        /\ staleReports' = [s \in Sensors |->
               IF s \in stale THEN staleReports[s] + 1 ELSE staleReports[s]]
        /\ UNCHANGED <<age, firstSequence, arrived, lateAtMark>>

\* The clock.
Tick ==
    /\ \E s \in Known : age[s] <= Timeout
    /\ age' = [s \in Sensors |->
           IF s \in Known /\ age[s] <= Timeout THEN age[s] + 1 ELSE age[s]]
    /\ UNCHANGED <<sensors, firstSequence, arrived, lateAtMark, staleReports>>

Next ==
    \/ \E s \in Sensors, q \in SequenceNumbers : Update(s, q)
    \/ \E s \in Sensors : RecordError(s) \/ RecordAnomaly(s)
    \/ CheckStale
    \/ Tick

Spec == Init /\ [][Next]_vars

\* The health monitor's ticker never stops while the server runs, and so does
\* the clock; nothing makes a sensor send.
FairSpec == Spec /\ WF_vars(CheckStale) /\ WF_vars(Tick)

-----------------------------------------------------------------------------
(* Correctness of the sequence tracking.                                    *)

\* The counters of a sensor always balance: every message is the first one,
\* an advance, a duplicate or out of order, and every number between the
\* first and the last was either advanced to or counted as dropped (Update).
\* It follows that droppedCount stays below the range of a sequence number,
\* so that adding gaps of any size never wraps the uint64.
CountersBalance ==
    \A s \in Known :
        LET e == sensors[s] IN
        /\ e.messageCount + e.droppedCount
             = e.lastSequence - firstSequence[s] + 1
               + e.duplicateCount + e.outOfOrderCount
        /\ e.droppedCount <= e.lastSequence - firstSequence[s]

\* Among all the numbers a sensor ever sent, those within Window of the
\* high-water mark are remembered, and nothing is remembered that was not
\* sent: within the window Update cannot take a duplicate for a late message
\* nor a late message for a duplicate, however pruning and late arrivals mix.
WindowRemembered ==
    \A s \in Known :
        LET e == sensors[s] IN
        /\ \A q \in arrived[s] : q >= e.lastSequence - Window => q \in e.recentSeqs
        /\ e.recentSeqs \subseteq arrived[s]

\* The numbers between a sensor's first and last that are not among arrivals.
Missing(first, last, arrivals) ==
    {q \in SequenceNumbers : first <= q /\ q <= last /\ q \notin arrivals}

\* What the counters say of real loss: droppedCount never understates the
\* messages that are missing, and overstates them by no more than the late
\* messages counted in outOfOrderCount (a gap filled later is not taken back).
LossBracketed ==
    \A s \in Known :
        LET e == sensors[s]
            lost == Cardinality(Missing(firstSequence[s], e.lastSequence, arrived[s]))
        IN  /\ lost <= e.droppedCount
            /\ e.droppedCount <= lost + e.outOfOrderCount

\* A number that arrives for the first time is never counted as a duplicate.
NoFalseDuplicate ==
    [][\A s \in Known :
          arrived'[s] # arrived[s]
          => sensors'[s].duplicateCount = sensors[s].duplicateCount]_vars

\* The numbers a sensor remembers from behind the window.
Strays(e) == {q \in e.recentSeqs : q < e.lastSequence - Window}

\* How far recentSeqs grows.  Its comment says that it is bounded to the last
\* Window numbers and that memory does not grow without limit.  Only a message
\* that advances prunes, so between two of them every late message may add a
\* number, from behind the window too: that many strays there are at most, and
\* none besides the window once lastSequence has moved.
MemoryBounded ==
    \A s \in Known :
        LET e == sensors[s]
            late == e.outOfOrderCount - lateAtMark[s]
        IN  /\ Cardinality(Strays(e)) <= late
            /\ Cardinality(e.recentSeqs) <= Window + 1 + late

-----------------------------------------------------------------------------
(* Correctness of the health status.                                        *)

\* CheckStale reports a silence once, however many scans it lasts: a report
\* needs a message of its own before it, and only a sensor that was silent
\* for longer than Timeout is stale.
OneReportPerSilence ==
    \A s \in Known :
        LET e == sensors[s] IN
        /\ staleReports[s] <= e.messageCount
        /\ e.status = "healthy" => staleReports[s] < e.messageCount
        /\ e.status = "stale" => age[s] > Timeout

\* A sensor that sends nothing more is eventually marked stale: the scans and
\* the clock go on, and only a message can prevent it.
SilentSensorReported ==
    \A s \in Sensors, n \in 1 .. MaxMessages :
        (s \in Known /\ sensors[s].messageCount = n)
        ~> (s \in Known /\ (sensors[s].status = "stale" \/ sensors[s].messageCount # n))
=============================================================================
