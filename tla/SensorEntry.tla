----------------------------- MODULE SensorEntry -----------------------------
(***************************************************************************)
(* The bookkeeping that internal/state keeps for ONE sensor, as pure        *)
(* operators on a record.  StateStore applies them under the store's mutex, *)
(* Processor applies them from its workers.                                 *)
(*                                                                          *)
(* A sequence number is a natural number: MaxSequence stands for 2^64 - 1,  *)
(* and StateStore shows that no counter computed here leaves that range, so *)
(* the uint64 arithmetic of the code never wraps.                           *)
(***************************************************************************)
EXTENDS Integers

CONSTANTS
    Window,       \* recentSeqWindow, 64 in the code
    MaxSequence   \* the largest sequence number a message can carry

ASSUME EntryAssumption ==
    /\ Window \in Nat
    /\ MaxSequence \in Nat

SequenceNumbers == 0 .. MaxSequence

Statuses == {"healthy", "stale"}

\* sensorEntry: the counters of SensorState and the set recentSeqs.
Entry == [ lastSequence    : SequenceNumbers,
           recentSeqs      : SUBSET SequenceNumbers,
           status          : Statuses,
           messageCount    : Nat,
           droppedCount    : Nat,
           duplicateCount  : Nat,
           outOfOrderCount : Nat,
           errorCount      : Nat,
           anomalyCount    : Nat ]

-----------------------------------------------------------------------------
\* What the switch of Update tells apart, for a message of a known sensor.

\* A mutant: every other number counts as ahead.
AdvancesOnAny(e, q) == q # e.lastSequence

Advances(e, q) == q > e.lastSequence

\* A mutant: every late message is taken for a duplicate.
DuplicateIfLate(e, q) == q <= e.lastSequence

IsDuplicate(e, q) ==
    \/ q = e.lastSequence
    \/ q < e.lastSequence /\ q \in e.recentSeqs

IsOutOfOrder(e, q) == q < e.lastSequence /\ q \notin e.recentSeqs

\* Mutants of Gap and Pruned.
GapOffByOne(e, q) == q - e.lastSequence
NeverPruned(recent, last) == recent
PrunedTooFar(recent, last) ==
    IF last < Window THEN recent ELSE {s \in recent : s > last - Window}

\* The sequence numbers an advancing message jumps over.
Gap(e, q) == q - e.lastSequence - 1

\* pruneRecentSeqs: below the window nothing is discarded; the early return
\* also keeps last - Window from going below zero.
Pruned(recent, last) ==
    IF last < Window THEN recent ELSE {s \in recent : s >= last - Window}

-----------------------------------------------------------------------------
\* The entry made for a sensor's first message.
NewEntry(q) ==
    [ lastSequence |-> q, recentSeqs |-> {q}, status |-> "healthy",
      messageCount |-> 1, droppedCount |-> 0, duplicateCount |-> 0,
      outOfOrderCount |-> 0, errorCount |-> 0, anomalyCount |-> 0 ]

\* Every later message first revives the sensor and counts itself.
Received(e) ==
    [e EXCEPT !.status = "healthy", !.messageCount = @ + 1]

AfterDuplicate(e) == [Received(e) EXCEPT !.duplicateCount = @ + 1]

AfterAdvance(e, q) ==
    [Received(e) EXCEPT
        !.droppedCount = @ + Gap(e, q),
        !.lastSequence = q,
        !.recentSeqs   = Pruned(@ \cup {q}, q)]

\* A late message is remembered, and nothing is pruned on this path.
AfterLate(e, q) ==
    [Received(e) EXCEPT
        !.outOfOrderCount = @ + 1,
        !.recentSeqs      = @ \cup {q}]

\* Update for a known sensor.
Updated(e, q) ==
    IF Advances(e, q) THEN AfterAdvance(e, q)
    ELSE IF IsDuplicate(e, q) THEN AfterDuplicate(e)
    ELSE AfterLate(e, q)

WithError(e) == [e EXCEPT !.errorCount = @ + 1]
WithAnomaly(e) == [e EXCEPT !.anomalyCount = @ + 1]
=============================================================================
