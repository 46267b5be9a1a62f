--------------------------- MODULE StateStoreProofs ---------------------------
(***************************************************************************)
(* Proofs about StateStore, for every Window, every range of sequence       *)
(* numbers, any sensors and any bounds.                                     *)
(***************************************************************************)
EXTENDS StateStore, SensorEntryProofs, FiniteSetTheorems, TLAPS

-----------------------------------------------------------------------------
(* The inductive invariant, stated for one entry e of a sensor that was     *)
(* created with number f and has sent the numbers A since.                  *)

Balanced(e, f) ==
    /\ e.messageCount + e.droppedCount
         = e.lastSequence - f + 1 + e.duplicateCount + e.outOfOrderCount
    /\ e.droppedCount <= e.lastSequence - f

\* lastSequence is the greatest number that arrived.
HighWater(e, f, A) ==
    /\ f <= e.lastSequence
    /\ e.lastSequence \in A
    /\ \A r \in A : r <= e.lastSequence

Remembered(e, A) ==
    /\ \A r \in A : r >= e.lastSequence - Window => r \in e.recentSeqs
    /\ e.recentSeqs \subseteq A

Lost(e, f, A) == Cardinality(Missing(f, e.lastSequence, A))

Bracketed(e, f, A) ==
    /\ Lost(e, f, A) <= e.droppedCount
    /\ e.droppedCount <= Lost(e, f, A) + e.outOfOrderCount

EntryInv(e, f, A) ==
    Balanced(e, f) /\ HighWater(e, f, A) /\ Remembered(e, A) /\ Bracketed(e, f, A)

\* Gaps are finite sets of sequence numbers.
LEMMA MissingFinite ==
    ASSUME NEW f, NEW l, NEW A
    PROVE  /\ IsFiniteSet(Missing(f, l, A))
           /\ Cardinality(Missing(f, l, A)) \in Nat
<1>1. IsFiniteSet(SequenceNumbers)
  BY EntryAssumption, FS_Interval DEF SequenceNumbers
<1>2. Missing(f, l, A) \in SUBSET SequenceNumbers
  BY DEF Missing
<1> QED
  BY <1>1, <1>2, FS_Subset, FS_CardinalityType

\* A first message leaves nothing missing.
LEMMA NewEntryInv ==
    ASSUME NEW q \in SequenceNumbers
    PROVE  EntryInv(NewEntry(q), q, {q})
<1>1. Missing(q, q, {q}) = {}
  BY EntryAssumption DEF Missing, SequenceNumbers
<1>2. Lost(NewEntry(q), q, {q}) = 0
  BY <1>1, FS_EmptySet DEF Lost, NewEntry
<1> QED
  BY <1>2, EntryAssumption
  DEF EntryInv, Balanced, HighWater, Remembered, Bracketed, NewEntry, SequenceNumbers

\* A message that advances opens a gap: exactly the numbers it jumps over
\* join the missing ones.
LEMMA AdvanceMissing ==
    ASSUME NEW f \in SequenceNumbers, NEW l \in SequenceNumbers,
           NEW q \in SequenceNumbers, NEW A \in SUBSET SequenceNumbers,
           f <= l, l < q, l \in A, \A r \in A : r <= l
    PROVE  Cardinality(Missing(f, q, A \cup {q}))
             = Cardinality(Missing(f, l, A)) + (q - l - 1)
<1> DEFINE M == Missing(f, l, A)
           G == (l + 1) .. (q - 1)
<1>1. Missing(f, q, A \cup {q}) = M \cup G
  BY EntryAssumption DEF Missing, SequenceNumbers
<1>2. M \cap G = {}
  BY EntryAssumption DEF Missing, SequenceNumbers
<1>3. IsFiniteSet(M) /\ Cardinality(M) \in Nat
  BY MissingFinite
<1>4. /\ l + 1 \in Int /\ q - 1 \in Int
      /\ l + 1 <= q - 1 => (q - 1) - (l + 1) + 1 = q - l - 1
      /\ l + 1 > q - 1 => q - l - 1 = 0
  BY EntryAssumption DEF SequenceNumbers
<1>5. IsFiniteSet(G) /\ Cardinality(G) = q - l - 1
  BY <1>4, FS_Interval
<1>6. q - l - 1 \in Nat
  BY EntryAssumption DEF SequenceNumbers
<1>7. Cardinality(M \cup G) = Cardinality(M) + Cardinality(G) - Cardinality(M \cap G)
  BY <1>3, <1>5, FS_Union
<1>8. Cardinality(M \cap G) = 0
  BY <1>2, FS_EmptySet
<1> HIDE DEF M, G
<1>9. Cardinality(M \cup G) = Cardinality(M) + (q - l - 1)
  BY <1>3, <1>5, <1>6, <1>7, <1>8
<1> QED
  BY <1>1, <1>9 DEF M

\* A number that is not ahead fills at most one place of a gap, and none
\* when it had arrived before.
LEMMA LateMissing ==
    ASSUME NEW f \in SequenceNumbers, NEW l \in SequenceNumbers,
           NEW q \in SequenceNumbers, NEW A \in SUBSET SequenceNumbers
    PROVE  LET before == Cardinality(Missing(f, l, A))
               after  == Cardinality(Missing(f, l, A \cup {q}))
           IN  /\ after \in Nat /\ before \in Nat
               /\ after <= before /\ before <= after + 1
               /\ q \in A => after = before
<1> DEFINE M == Missing(f, l, A)
<1>1. Missing(f, l, A \cup {q}) = M \ {q}
  BY DEF Missing
<1>2. IsFiniteSet(M) /\ Cardinality(M) \in Nat
  BY MissingFinite
<1>3. Cardinality(M \ {q}) = IF q \in M THEN Cardinality(M) - 1 ELSE Cardinality(M)
  BY <1>2, FS_RemoveElement
<1>4. q \in A => q \notin M
  BY DEF Missing
<1>5. Cardinality(M \ {q}) \in Nat
  BY <1>1, MissingFinite
<1> HIDE DEF M
<1> QED
  BY <1>1, <1>2, <1>3, <1>4, <1>5 DEF M

\* Update keeps the invariant of the sensor's entry, in each branch.
LEMMA UpdatedInv ==
    ASSUME NEW e \in Entry, NEW q \in SequenceNumbers,
           NEW f \in SequenceNumbers, NEW A \in SUBSET SequenceNumbers,
           EntryInv(e, f, A)
    PROVE  EntryInv(Updated(e, q), f, A \cup {q})
<1> DEFINE u == Updated(e, q)
           B == A \cup {q}
<1>1. /\ e.lastSequence \in SequenceNumbers
      /\ e.recentSeqs \in SUBSET SequenceNumbers
      /\ e.messageCount \in Nat /\ e.droppedCount \in Nat
      /\ e.duplicateCount \in Nat /\ e.outOfOrderCount \in Nat
  BY DEF Entry
<1>2. /\ \A r \in SequenceNumbers : r \in Nat
      /\ Lost(e, f, A) \in Nat
      /\ Window \in Nat
  BY MissingFinite, EntryAssumption DEF SequenceNumbers, Lost
<1>3. Balanced(e, f) /\ HighWater(e, f, A) /\ Remembered(e, A) /\ Bracketed(e, f, A)
  BY DEF EntryInv
<1>4. CASE Advances(e, q)
  <2>1. e.lastSequence < q
    BY <1>1, <1>2, <1>4 DEF Advances
  <2>2. /\ u.lastSequence = q
        /\ u.recentSeqs = Pruned(e.recentSeqs \cup {q}, q)
        /\ u.messageCount = e.messageCount + 1
        /\ u.droppedCount = e.droppedCount + (q - e.lastSequence - 1)
        /\ u.duplicateCount = e.duplicateCount
        /\ u.outOfOrderCount = e.outOfOrderCount
    BY <1>4, AdvanceFields
  <2> HIDE DEF u
  <2>3. Balanced(u, f)
    BY <1>1, <1>2, <1>3, <2>1, <2>2 DEF Balanced, HighWater
  <2>4. HighWater(u, f, B)
    BY <1>1, <1>2, <1>3, <2>1, <2>2 DEF HighWater
  <2>5. u.recentSeqs = {r \in e.recentSeqs \cup {q} : r >= q - Window}
    <3>1. e.recentSeqs \cup {q} \in SUBSET SequenceNumbers
      BY <1>1
    <3> QED
      BY <2>2, <3>1, PrunedIsWindow
  <2>6. Remembered(u, B)
    <3>1. \A r \in B : r >= q - Window => r \in u.recentSeqs
      BY <1>1, <1>2, <1>3, <2>1, <2>5 DEF Remembered
    <3> QED
      BY <1>3, <2>2, <2>5, <3>1 DEF Remembered
  <2>7. Lost(u, f, B) = Lost(e, f, A) + (q - e.lastSequence - 1)
    <3>1. /\ f <= e.lastSequence /\ e.lastSequence \in A
          /\ \A r \in A : r <= e.lastSequence
      BY <1>3 DEF HighWater
    <3> QED
      BY <1>1, <2>1, <2>2, <3>1, AdvanceMissing DEF Lost
  <2>8. Bracketed(u, f, B)
    BY <1>1, <1>2, <1>3, <2>1, <2>2, <2>7 DEF Bracketed
  <2> QED
    BY <2>3, <2>4, <2>6, <2>8 DEF EntryInv, u
<1>5. CASE ~ Advances(e, q) /\ IsDuplicate(e, q)
  <2>1. q \in A
    BY <1>3, <1>5 DEF IsDuplicate, HighWater, Remembered
  <2>2. B = A
    BY <2>1
  <2>3. Balanced(u, f)
    BY <1>1, <1>2, <1>3, <1>5, DuplicateFields DEF Balanced
  <2>4. HighWater(u, f, A) /\ Remembered(u, A)
    BY <1>3, <1>5, DuplicateFields DEF HighWater, Remembered
  <2>5. Bracketed(u, f, A)
    BY <1>3, <1>5, DuplicateFields DEF Bracketed, Lost
  <2> QED
    BY <2>2, <2>3, <2>4, <2>5 DEF EntryInv
<1>6. CASE ~ Advances(e, q) /\ ~ IsDuplicate(e, q)
  <2>1. q < e.lastSequence
    BY <1>6, LateFields
  <2>2. Balanced(u, f)
    BY <1>1, <1>2, <1>3, <1>6, LateFields DEF Balanced
  <2>3. HighWater(u, f, B)
    BY <1>1, <1>2, <1>3, <1>6, <2>1, LateFields DEF HighWater
  <2>4. Remembered(u, B)
    BY <1>3, <1>6, LateFields DEF Remembered
  <2>5. /\ Lost(u, f, B) \in Nat
        /\ Lost(u, f, B) <= Lost(e, f, A)
        /\ Lost(e, f, A) <= Lost(u, f, B) + 1
    BY <1>1, <1>6, LateFields, LateMissing DEF Lost
  <2>6. Bracketed(u, f, B)
    BY <1>1, <1>2, <1>3, <1>6, <2>5, LateFields DEF Bracketed
  <2> QED
    BY <2>2, <2>3, <2>4, <2>6 DEF EntryInv
<1> QED
  BY <1>4, <1>5, <1>6

\* The entry invariant does not look at the counters of failed validations
\* nor at the status.
LEMMA SameSequencesSameInv ==
    ASSUME NEW e, NEW u, NEW f, NEW A, EntryInv(e, f, A),
           u.lastSequence = e.lastSequence, u.recentSeqs = e.recentSeqs,
           u.messageCount = e.messageCount, u.droppedCount = e.droppedCount,
           u.duplicateCount = e.duplicateCount,
           u.outOfOrderCount = e.outOfOrderCount
    PROVE  EntryInv(u, f, A)
BY DEF EntryInv, Balanced, HighWater, Remembered, Bracketed, Lost

-----------------------------------------------------------------------------
(* Type correctness.                                                        *)

\* The store's map holds well-formed entries for sensors, in every state.
THEOREM TypeCorrect == Spec => []TypeOK
<1>1. Init => TypeOK
  <2> SUFFICES ASSUME Init PROVE TypeOK
    OBVIOUS
  <2>1. 0 \in SequenceNumbers /\ 0 \in 0 .. Timeout + 1
    BY EntryAssumption, StoreAssumption DEF SequenceNumbers
  <2> QED
    BY <2>1 DEF Init, TypeOK, Known
<1>2. TypeOK /\ [Next]_vars => TypeOK'
  <2> SUFFICES ASSUME TypeOK, [Next]_vars PROVE TypeOK'
    OBVIOUS
  <2>0. 0 \in 0 .. Timeout + 1
    BY StoreAssumption
  <2>1. ASSUME NEW s \in Sensors, NEW q \in SequenceNumbers, Register(s, q)
        PROVE  TypeOK'
    BY <2>0, <2>1, NewEntryType DEF Register, TypeOK, Known
  <2>2. ASSUME NEW s \in Sensors, NEW q \in SequenceNumbers, Apply(s, q)
        PROVE  TypeOK'
    <3>1. sensors[s] \in Entry
      BY <2>2 DEF Apply, TypeOK
    <3>2. Updated(sensors[s], q) \in Entry /\ sensors[s].outOfOrderCount \in Nat
      BY <3>1, AdvanceFields, DuplicateFields, LateFields DEF Entry
    <3> QED
      BY <2>0, <2>2, <3>2 DEF Apply, TypeOK, Known
  <2>3. ASSUME NEW s \in Sensors, RecordError(s)
        PROVE  TypeOK'
    <3>1. sensors[s] \in Entry
      BY <2>3 DEF RecordError, TypeOK
    <3>2. WithError(sensors[s]) \in Entry
      BY <3>1 DEF WithError, Entry
    <3> QED
      BY <2>3, <3>2 DEF RecordError, TypeOK, Known
  <2>4. ASSUME NEW s \in Sensors, RecordAnomaly(s)
        PROVE  TypeOK'
    <3>1. sensors[s] \in Entry
      BY <2>4 DEF RecordAnomaly, TypeOK
    <3>2. WithAnomaly(sensors[s]) \in Entry
      BY <3>1 DEF WithAnomaly, Entry
    <3> QED
      BY <2>4, <3>2 DEF RecordAnomaly, TypeOK, Known
  <2>5. CASE CheckStale
    <3>1. \A s \in Known : [sensors[s] EXCEPT !.status = "stale"] \in Entry
      BY DEF TypeOK, Entry, Statuses
    <3>2. \A s \in Sensors : staleReports[s] + 1 \in Nat
      BY DEF TypeOK
    <3> QED
      BY <2>5, <3>1, <3>2 DEF CheckStale, TypeOK, Known
  <2>6. CASE Tick
    <3>1. \A s \in Sensors : age[s] <= Timeout => age[s] + 1 \in 0 .. Timeout + 1
      BY StoreAssumption DEF TypeOK
    <3> QED
      BY <2>6, <3>1 DEF Tick, TypeOK, Known
  <2>7. CASE UNCHANGED vars
    BY <2>7 DEF vars, TypeOK, Known
  <2> QED
    BY <2>1, <2>2, <2>3, <2>4, <2>5, <2>6, <2>7 DEF Next, Update
<1> QED
  BY <1>1, <1>2, PTL DEF Spec

-----------------------------------------------------------------------------
(* Sequence tracking.                                                       *)

TrackingInv ==
    \A s \in Known : EntryInv(sensors[s], firstSequence[s], arrived[s])

\* The inductive step: only Update touches what the invariant speaks of, and
\* only for the sensor of its message.
LEMMA TrackingStep == TypeOK /\ TrackingInv /\ [Next]_vars => TrackingInv'
<1> SUFFICES ASSUME TypeOK, TrackingInv, [Next]_vars PROVE TrackingInv'
  OBVIOUS
<1>1. ASSUME NEW s \in Sensors, NEW q \in SequenceNumbers, Register(s, q)
      PROVE  TrackingInv'
  <2> SUFFICES ASSUME NEW t \in Known'
               PROVE  EntryInv(sensors'[t], firstSequence'[t], arrived'[t])
    BY DEF TrackingInv
  <2>1. CASE t = s
    <3>1. sensors'[t] = NewEntry(q) /\ firstSequence'[t] = q /\ arrived'[t] = {q}
      BY <1>1, <2>1 DEF Register, TypeOK, Known
    <3> QED
      BY <3>1, NewEntryInv
  <2>2. CASE t # s
    <3>1. t \in Known /\ t \in Sensors
      BY <1>1, <2>2 DEF Register, TypeOK, Known
    <3>2. /\ sensors'[t] = sensors[t]
          /\ firstSequence'[t] = firstSequence[t]
          /\ arrived'[t] = arrived[t]
      BY <1>1, <2>2, <3>1 DEF Register, TypeOK, Known
    <3> QED
      BY <3>1, <3>2 DEF TrackingInv
  <2> QED
    BY <2>1, <2>2
<1>2. ASSUME NEW s \in Sensors, NEW q \in SequenceNumbers, Apply(s, q)
      PROVE  TrackingInv'
  <2> SUFFICES ASSUME NEW t \in Known'
               PROVE  EntryInv(sensors'[t], firstSequence'[t], arrived'[t])
    BY DEF TrackingInv
  <2>1. t \in Known /\ t \in Sensors /\ s \in Known
    BY <1>2 DEF Apply, TypeOK, Known
  <2>2. firstSequence'[t] = firstSequence[t]
    BY <1>2 DEF Apply
  <2>3. CASE t = s
    <3>1. /\ sensors'[t] = Updated(sensors[t], q)
          /\ arrived'[t] = arrived[t] \cup {q}
      BY <1>2, <2>1, <2>3 DEF Apply, TypeOK, Known
    <3>2. /\ sensors[t] \in Entry
          /\ firstSequence[t] \in SequenceNumbers
          /\ arrived[t] \in SUBSET SequenceNumbers
          /\ EntryInv(sensors[t], firstSequence[t], arrived[t])
      BY <2>1 DEF TypeOK, TrackingInv
    <3> QED
      BY <2>2, <3>1, <3>2, UpdatedInv
  <2>4. CASE t # s
    <3>1. sensors'[t] = sensors[t] /\ arrived'[t] = arrived[t]
      BY <1>2, <2>1, <2>4 DEF Apply, TypeOK, Known
    <3> QED
      BY <2>1, <2>2, <3>1 DEF TrackingInv
  <2> QED
    BY <2>3, <2>4
<1>3. ASSUME Known' = Known, UNCHANGED <<firstSequence, arrived>>,
             \A t \in Known :
                 /\ sensors'[t].lastSequence = sensors[t].lastSequence
                 /\ sensors'[t].recentSeqs = sensors[t].recentSeqs
                 /\ sensors'[t].messageCount = sensors[t].messageCount
                 /\ sensors'[t].droppedCount = sensors[t].droppedCount
                 /\ sensors'[t].duplicateCount = sensors[t].duplicateCount
                 /\ sensors'[t].outOfOrderCount = sensors[t].outOfOrderCount
      PROVE  TrackingInv'
  <2> SUFFICES ASSUME NEW t \in Known
               PROVE  EntryInv(sensors'[t], firstSequence[t], arrived[t])
    BY <1>3 DEF TrackingInv
  <2> QED
    BY <1>3, SameSequencesSameInv DEF TrackingInv
<1>4. ASSUME NEW s \in Sensors, RecordError(s) \/ RecordAnomaly(s)
      PROVE  TrackingInv'
  <2>1. Known' = Known
    BY <1>4 DEF RecordError, RecordAnomaly, TypeOK, Known
  <2>2. \A t \in Known : sensors[t] \in Entry
    BY DEF TypeOK
  <2>3. \A t \in Known : \/ sensors'[t] = sensors[t]
                          \/ sensors'[t] = WithError(sensors[t])
                          \/ sensors'[t] = WithAnomaly(sensors[t])
    BY <1>4 DEF RecordError, RecordAnomaly, TypeOK, Known
  <2>4. \A t \in Known :
           /\ sensors'[t].lastSequence = sensors[t].lastSequence
           /\ sensors'[t].recentSeqs = sensors[t].recentSeqs
           /\ sensors'[t].messageCount = sensors[t].messageCount
           /\ sensors'[t].droppedCount = sensors[t].droppedCount
           /\ sensors'[t].duplicateCount = sensors[t].duplicateCount
           /\ sensors'[t].outOfOrderCount = sensors[t].outOfOrderCount
    BY <2>2, <2>3 DEF WithError, WithAnomaly, Entry
  <2>5. UNCHANGED <<firstSequence, arrived>>
    BY <1>4 DEF RecordError, RecordAnomaly
  <2> QED
    BY <1>3, <2>1, <2>4, <2>5
<1>5. CASE CheckStale
  <2>1. Known' = Known
    BY <1>5 DEF CheckStale, Known
  <2>2. \A t \in Known : sensors[t] \in Entry
    BY DEF TypeOK
  <2>3. \A t \in Known : \/ sensors'[t] = sensors[t]
                          \/ sensors'[t] = [sensors[t] EXCEPT !.status = "stale"]
    BY <1>5 DEF CheckStale, Known
  <2>4. \A t \in Known :
           /\ sensors'[t].lastSequence = sensors[t].lastSequence
           /\ sensors'[t].recentSeqs = sensors[t].recentSeqs
           /\ sensors'[t].messageCount = sensors[t].messageCount
           /\ sensors'[t].droppedCount = sensors[t].droppedCount
           /\ sensors'[t].duplicateCount = sensors[t].duplicateCount
           /\ sensors'[t].outOfOrderCount = sensors[t].outOfOrderCount
    BY <2>2, <2>3 DEF Entry
  <2>5. UNCHANGED <<firstSequence, arrived>>
    BY <1>5 DEF CheckStale
  <2> QED
    BY <1>3, <2>1, <2>4, <2>5
<1>6. CASE Tick \/ UNCHANGED vars
  BY <1>6 DEF Tick, vars, TrackingInv, Known
<1> QED
  BY <1>1, <1>2, <1>4, <1>5, <1>6 DEF Next, Update

\* The inductive invariant of the sequence tracking holds in every state.
THEOREM TrackingCorrect == Spec => []TrackingInv
<1>1. Init => TrackingInv
  BY DEF Init, TrackingInv, Known
<1>2. TypeOK /\ TrackingInv /\ [Next]_vars => TrackingInv'
  BY TrackingStep
<1> QED
  BY <1>1, <1>2, TypeCorrect, PTL DEF Spec

\* The counters of every sensor balance (StateStore.Update), whatever the
\* order in which its messages arrive.
THEOREM CountersAlwaysBalance == Spec => []CountersBalance
<1>1. TrackingInv => CountersBalance
  BY DEF TrackingInv, EntryInv, Balanced, CountersBalance
<1> QED
  BY <1>1, TrackingCorrect, PTL

\* Within the window the store never mistakes a duplicate for a late message,
\* nor a late message for a duplicate.
THEOREM WindowAlwaysRemembered == Spec => []WindowRemembered
<1>1. TrackingInv => WindowRemembered
  BY DEF TrackingInv, EntryInv, Remembered, WindowRemembered
<1> QED
  BY <1>1, TrackingCorrect, PTL

\* droppedCount and outOfOrderCount bracket the messages really missing.
THEOREM LossAlwaysBracketed == Spec => []LossBracketed
<1>1. TrackingInv => LossBracketed
  BY DEF TrackingInv, EntryInv, Bracketed, Lost, LossBracketed
<1> QED
  BY <1>1, TrackingCorrect, PTL

\* No gap, of any size, makes the uint64 counter of drops wrap around.
THEOREM DroppedNeverWraps ==
    Spec => [](\A s \in Known : sensors[s].droppedCount <= MaxSequence)
<1>1. TypeOK /\ TrackingInv => \A s \in Known : sensors[s].droppedCount <= MaxSequence
  <2> SUFFICES ASSUME TypeOK, TrackingInv, NEW s \in Known
               PROVE  sensors[s].droppedCount <= MaxSequence
    OBVIOUS
  <2>1. /\ sensors[s].droppedCount \in Nat
        /\ sensors[s].lastSequence \in SequenceNumbers
        /\ firstSequence[s] \in SequenceNumbers
    BY DEF TypeOK, Entry
  <2>2. sensors[s].droppedCount <= sensors[s].lastSequence - firstSequence[s]
    BY DEF TrackingInv, EntryInv, Balanced
  <2> QED
    BY <2>1, <2>2, EntryAssumption DEF SequenceNumbers
<1> QED
  BY <1>1, TypeCorrect, TrackingCorrect, PTL

\* A number that arrives for the first time is not counted as a duplicate:
\* by the invariant a duplicate is always a number that had arrived.
THEOREM NeverAFalseDuplicate == Spec => NoFalseDuplicate
<1>1. TypeOK /\ TrackingInv /\ [Next]_vars
      => [\A s \in Known : arrived'[s] # arrived[s]
            => sensors'[s].duplicateCount = sensors[s].duplicateCount]_vars
  <2> SUFFICES ASSUME TypeOK, TrackingInv, Next, NEW t \in Known,
                      arrived'[t] # arrived[t]
               PROVE  sensors'[t].duplicateCount = sensors[t].duplicateCount
    OBVIOUS
  <2>1. PICK s \in Sensors, q \in SequenceNumbers : Register(s, q) \/ Apply(s, q)
    BY DEF Next, Update, RecordError, RecordAnomaly, CheckStale, Tick
  <2>2. CASE Register(s, q)
    <3>1. t # s /\ t \in Sensors
      BY <2>2 DEF Register, TypeOK
    <3> QED
      BY <2>2, <3>1 DEF Register, TypeOK
  <2>3. CASE Apply(s, q)
    <3>1. t = s /\ arrived'[s] = arrived[s] \cup {q}
      BY <2>3 DEF Apply, TypeOK
    <3>2. q \notin arrived[s]
      BY <3>1
    <3>3. sensors[s] \in Entry /\ EntryInv(sensors[s], firstSequence[s], arrived[s])
      BY <3>1 DEF TypeOK, TrackingInv
    <3>4. ~ IsDuplicate(sensors[s], q)
      BY <3>2, <3>3 DEF IsDuplicate, EntryInv, HighWater, Remembered
    <3>5. Updated(sensors[s], q).duplicateCount = sensors[s].duplicateCount
      BY <3>3, <3>4, AdvanceFields, LateFields
    <3>6. sensors'[s] = Updated(sensors[s], q)
      BY <2>3, <3>1 DEF Apply, TypeOK
    <3> QED
      BY <3>1, <3>5, <3>6
  <2> QED
    BY <2>1, <2>2, <2>3
<1> QED
  BY <1>1, TypeCorrect, TrackingCorrect, PTL DEF Spec, NoFalseDuplicate

-----------------------------------------------------------------------------
(* The numbers remembered.                                                  *)

\* Inductive: an entry e whose outOfOrderCount was l when its mark last moved
\* has not kept more strays than the late messages since.
Confined(e, l) ==
    /\ l \in Nat /\ l <= e.outOfOrderCount
    /\ IsFiniteSet(Strays(e))
    /\ Cardinality(Strays(e)) <= e.outOfOrderCount - l

ConfinedInv == \A s \in Known : Confined(sensors[s], lateAtMark[s])

\* An entry all of whose numbers lie within the window.
LEMMA NoStrays ==
    ASSUME NEW e, e.outOfOrderCount \in Nat, Strays(e) = {}
    PROVE  Confined(e, e.outOfOrderCount)
BY FS_EmptySet DEF Confined

\* Update keeps the bound, in each branch: an advance prunes all strays, and a
\* late message adds one at most.
LEMMA UpdatedConfined ==
    ASSUME NEW e \in Entry, NEW q \in SequenceNumbers, NEW l, Confined(e, l)
    PROVE  Confined(Updated(e, q), IF Advances(e, q) THEN e.outOfOrderCount ELSE l)
<1> DEFINE u == Updated(e, q)
<1>1. /\ e.lastSequence \in SequenceNumbers
      /\ e.recentSeqs \in SUBSET SequenceNumbers
      /\ e.outOfOrderCount \in Nat /\ Window \in Nat
      /\ \A r \in SequenceNumbers : r \in Nat
  BY EntryAssumption DEF Entry, SequenceNumbers
<1>2. CASE Advances(e, q)
  <2>1. /\ u.lastSequence = q /\ u.outOfOrderCount = e.outOfOrderCount
        /\ u.recentSeqs = Pruned(e.recentSeqs \cup {q}, q)
    BY <1>2, AdvanceFields
  <2> HIDE DEF u
  <2>2. u.recentSeqs = {r \in e.recentSeqs \cup {q} : r >= q - Window}
    <3>1. e.recentSeqs \cup {q} \in SUBSET SequenceNumbers
      BY <1>1
    <3> QED BY <2>1, <3>1, PrunedIsWindow
  <2>3. Strays(u) = {}
    BY <1>1, <2>1, <2>2 DEF Strays
  <2> QED BY <1>1, <1>2, <2>1, <2>3, NoStrays DEF u
<1>3. CASE ~ Advances(e, q) /\ IsDuplicate(e, q)
  <2>1. /\ u.lastSequence = e.lastSequence /\ u.recentSeqs = e.recentSeqs
        /\ u.outOfOrderCount = e.outOfOrderCount
    BY <1>3, DuplicateFields
  <2> QED BY <1>3, <2>1 DEF Confined, Strays
<1>4. CASE ~ Advances(e, q) /\ ~ IsDuplicate(e, q)
  <2>1. /\ u.lastSequence = e.lastSequence /\ u.recentSeqs = e.recentSeqs \cup {q}
        /\ u.outOfOrderCount = e.outOfOrderCount + 1
    BY <1>4, LateFields
  <2> HIDE DEF u
  <2>2. Strays(u) \subseteq Strays(e) \cup {q}
    BY <2>1 DEF Strays
  <2>3. IsFiniteSet(Strays(e) \cup {q})
        /\ Cardinality(Strays(e) \cup {q}) <= Cardinality(Strays(e)) + 1
        /\ Cardinality(Strays(e)) \in Nat
        /\ Cardinality(Strays(e) \cup {q}) \in Nat
    <3>1. IsFiniteSet(Strays(e)) /\ Cardinality(Strays(e)) \in Nat
      BY FS_CardinalityType DEF Confined
    <3>2. /\ IsFiniteSet(Strays(e) \cup {q})
          /\ \/ Cardinality(Strays(e) \cup {q}) = Cardinality(Strays(e))
             \/ Cardinality(Strays(e) \cup {q}) = Cardinality(Strays(e)) + 1
      BY <3>1, FS_AddElement, Zenon
    <3> QED BY <3>1, <3>2
  <2>4. /\ IsFiniteSet(Strays(u)) /\ Cardinality(Strays(u)) \in Nat
        /\ Cardinality(Strays(u)) <= Cardinality(Strays(e) \cup {q})
    BY <2>2, <2>3, FS_Subset, FS_CardinalityType
  <2> QED BY <1>1, <1>4, <2>1, <2>3, <2>4 DEF Confined, u
<1> QED BY <1>2, <1>3, <1>4

\* Neither a failed validation nor a scan touches what is remembered.
LEMMA SameStrays ==
    ASSUME NEW e, NEW u, NEW l, Confined(e, l),
           u.lastSequence = e.lastSequence, u.recentSeqs = e.recentSeqs,
           u.outOfOrderCount = e.outOfOrderCount
    PROVE  Confined(u, l)
BY DEF Confined, Strays

\* Every step keeps the bound for every sensor.
LEMMA ConfinedStep == TypeOK /\ ConfinedInv /\ [Next]_vars => ConfinedInv'
<1> SUFFICES ASSUME TypeOK, ConfinedInv, [Next]_vars PROVE ConfinedInv'
  OBVIOUS
<1>0. \A t \in Known : /\ sensors[t] \in Entry /\ t \in Sensors
                       /\ Confined(sensors[t], lateAtMark[t])
  BY DEF TypeOK, ConfinedInv
<1>1. ASSUME NEW s \in Sensors, NEW q \in SequenceNumbers, Register(s, q)
      PROVE  ConfinedInv'
  <2>1. /\ Known' = Known \cup {s} /\ sensors'[s] = NewEntry(q)
        /\ lateAtMark'[s] = 0
        /\ \A t \in Known : sensors'[t] = sensors[t] /\ lateAtMark'[t] = lateAtMark[t]
    BY <1>0, <1>1 DEF Register, TypeOK, Known
  <2>2. Strays(NewEntry(q)) = {} /\ NewEntry(q).outOfOrderCount = 0
    BY EntryAssumption DEF Strays, NewEntry, SequenceNumbers
  <2>3. Confined(NewEntry(q), 0)
    BY <2>2, NoStrays
  <2> QED BY <1>0, <2>1, <2>3 DEF ConfinedInv
<1>2. ASSUME NEW s \in Sensors, NEW q \in SequenceNumbers, Apply(s, q)
      PROVE  ConfinedInv'
  <2>1. /\ Known' = Known /\ s \in Known
        /\ sensors'[s] = Updated(sensors[s], q)
        /\ lateAtMark'[s] = (IF Advances(sensors[s], q) THEN sensors[s].outOfOrderCount
                                                        ELSE lateAtMark[s])
        /\ \A t \in Known : t # s => /\ sensors'[t] = sensors[t]
                                     /\ lateAtMark'[t] = lateAtMark[t]
    BY <1>0, <1>2 DEF Apply, TypeOK, Known
  <2>2. Confined(sensors'[s], lateAtMark'[s])
    BY <1>0, <2>1, UpdatedConfined
  <2> QED BY <1>0, <2>1, <2>2 DEF ConfinedInv
<1>3. ASSUME Known' = Known, UNCHANGED lateAtMark,
             \A t \in Known :
                 /\ sensors'[t].lastSequence = sensors[t].lastSequence
                 /\ sensors'[t].recentSeqs = sensors[t].recentSeqs
                 /\ sensors'[t].outOfOrderCount = sensors[t].outOfOrderCount
      PROVE  ConfinedInv'
  BY <1>0, <1>3, SameStrays DEF ConfinedInv
<1>4. ASSUME NEW s \in Sensors, RecordError(s) \/ RecordAnomaly(s)
      PROVE  ConfinedInv'
  <2>1. /\ Known' = Known /\ UNCHANGED lateAtMark
        /\ \A t \in Known : \/ sensors'[t] = sensors[t]
                            \/ sensors'[t] = WithError(sensors[t])
                            \/ sensors'[t] = WithAnomaly(sensors[t])
    BY <1>4 DEF RecordError, RecordAnomaly, TypeOK, Known
  <2>2. \A t \in Known : /\ sensors'[t].lastSequence = sensors[t].lastSequence
                         /\ sensors'[t].recentSeqs = sensors[t].recentSeqs
                         /\ sensors'[t].outOfOrderCount = sensors[t].outOfOrderCount
    BY <1>0, <2>1 DEF WithError, WithAnomaly, Entry
  <2> QED BY <1>3, <2>1, <2>2
<1>5. CASE CheckStale
  <2>1. /\ Known' = Known /\ UNCHANGED lateAtMark
        /\ \A t \in Known : \/ sensors'[t] = sensors[t]
                            \/ sensors'[t] = [sensors[t] EXCEPT !.status = "stale"]
    BY <1>5 DEF CheckStale, Known
  <2>2. \A t \in Known : /\ sensors'[t].lastSequence = sensors[t].lastSequence
                         /\ sensors'[t].recentSeqs = sensors[t].recentSeqs
                         /\ sensors'[t].outOfOrderCount = sensors[t].outOfOrderCount
    BY <1>0, <2>1 DEF Entry
  <2> QED BY <1>3, <2>1, <2>2
<1>6. CASE Tick \/ UNCHANGED vars
  BY <1>6 DEF Tick, vars, ConfinedInv, Known
<1> QED BY <1>1, <1>2, <1>4, <1>5, <1>6 DEF Next, Update

\* The window has Window + 1 places, the mark's own among them.
LEMMA WithinWindow ==
    ASSUME NEW e \in Entry, NEW f, NEW A, HighWater(e, f, A), Remembered(e, A),
           IsFiniteSet(Strays(e))
    PROVE  /\ Cardinality(e.recentSeqs) \in Nat /\ Cardinality(Strays(e)) \in Nat
           /\ Cardinality(e.recentSeqs) <= Window + 1 + Cardinality(Strays(e))
<1> DEFINE W == (e.lastSequence - Window) .. e.lastSequence
<1>1. /\ e.lastSequence \in Nat /\ Window \in Nat
      /\ \A r \in e.recentSeqs : r \in Nat /\ r <= e.lastSequence
  BY EntryAssumption DEF Entry, SequenceNumbers, HighWater, Remembered
<1>2. e.recentSeqs \subseteq Strays(e) \cup W
  BY <1>1 DEF Strays
<1>3. IsFiniteSet(W) /\ Cardinality(W) = Window + 1
  <2>1. e.lastSequence - Window \in Int /\ e.lastSequence \in Int
        /\ e.lastSequence - Window <= e.lastSequence
        /\ e.lastSequence - (e.lastSequence - Window) + 1 = Window + 1
    BY <1>1
  <2> QED BY <2>1, FS_Interval
<1>4. /\ IsFiniteSet(Strays(e) \cup W)
      /\ Cardinality(Strays(e) \cup W)
           = Cardinality(Strays(e)) + Cardinality(W) - Cardinality(Strays(e) \cap W)
  BY <1>3, FS_Union
<1>5. Strays(e) \cap W = {}
  BY <1>1 DEF Strays
<1>6. Cardinality(Strays(e) \cap W) = 0
  BY <1>5, FS_EmptySet
<1>7. /\ Cardinality(e.recentSeqs) \in Nat /\ Cardinality(Strays(e)) \in Nat
      /\ Cardinality(e.recentSeqs) <= Cardinality(Strays(e) \cup W)
  BY <1>2, <1>4, FS_Subset, FS_CardinalityType
<1> HIDE DEF W
<1> QED BY <1>1, <1>3, <1>4, <1>6, <1>7

\* However late messages come, recentSeqs holds the window and, until the mark
\* moves again, one number more for each late message since it last moved: the
\* exact form of the bound that recentSeqWindow's comment promises.
THEOREM MemoryAlwaysBounded == Spec => []MemoryBounded
<1>1. Init => ConfinedInv
  BY DEF Init, ConfinedInv, Known
<1>2. TypeOK /\ ConfinedInv /\ [Next]_vars => ConfinedInv'
  BY ConfinedStep
<1>3. TypeOK /\ TrackingInv /\ ConfinedInv => MemoryBounded
  <2> SUFFICES ASSUME TypeOK, TrackingInv, ConfinedInv, NEW s \in Known
               PROVE  /\ Cardinality(Strays(sensors[s]))
                           <= sensors[s].outOfOrderCount - lateAtMark[s]
                      /\ Cardinality(sensors[s].recentSeqs)
                           <= Window + 1 + (sensors[s].outOfOrderCount - lateAtMark[s])
    BY DEF MemoryBounded
  <2>1. /\ sensors[s] \in Entry /\ Confined(sensors[s], lateAtMark[s])
        /\ HighWater(sensors[s], firstSequence[s], arrived[s])
        /\ Remembered(sensors[s], arrived[s])
    BY DEF TypeOK, TrackingInv, ConfinedInv, EntryInv
  <2>2. /\ Cardinality(sensors[s].recentSeqs) \in Nat
        /\ Cardinality(Strays(sensors[s])) \in Nat
        /\ Cardinality(sensors[s].recentSeqs)
             <= Window + 1 + Cardinality(Strays(sensors[s]))
    BY <2>1, WithinWindow DEF Confined
  <2>3. /\ lateAtMark[s] \in Nat /\ sensors[s].outOfOrderCount \in Nat /\ Window \in Nat
        /\ Cardinality(Strays(sensors[s])) <= sensors[s].outOfOrderCount - lateAtMark[s]
    BY <2>1, EntryAssumption DEF Confined, Entry
  <2> QED BY <2>2, <2>3
<1> QED BY <1>1, <1>2, <1>3, TypeCorrect, TrackingCorrect, PTL DEF Spec

-----------------------------------------------------------------------------
(* The health status.                                                       *)

\* What one report per silence says of a sensor's entry, reports and age.
Once(e, r, a) ==
    /\ r <= e.messageCount
    /\ e.status = "healthy" => r < e.messageCount
    /\ e.status = "stale" => a > Timeout

\* Inductive: a sensor that is not known yet has not been reported either.
SilenceInv ==
    /\ \A s \in Known : Once(sensors[s], staleReports[s], age[s])
    /\ \A s \in Sensors \ Known : staleReports[s] = 0

\* Every step keeps the invariant of the health status.
LEMMA SilenceStep == TypeOK /\ SilenceInv /\ [Next]_vars => SilenceInv'
<1> SUFFICES ASSUME TypeOK, SilenceInv, [Next]_vars PROVE SilenceInv'
  OBVIOUS
<1>0. \A t \in Known : /\ sensors[t] \in Entry
                       /\ t \in Sensors
                       /\ Once(sensors[t], staleReports[t], age[t])
  BY DEF TypeOK, SilenceInv
<1>1. ASSUME NEW s \in Sensors, NEW q \in SequenceNumbers, Register(s, q)
      PROVE  SilenceInv'
  <2>1. Once(NewEntry(q), 0, 0)
    BY StoreAssumption DEF Once, NewEntry
  <2>2. staleReports[s] = 0
    BY <1>1 DEF Register, SilenceInv
  <2>3. /\ Known' = Known \cup {s} /\ s \notin Known
        /\ sensors'[s] = NewEntry(q) /\ age'[s] = 0
        /\ staleReports' = staleReports
        /\ \A t \in Known : sensors'[t] = sensors[t] /\ age'[t] = age[t]
    BY <1>0, <1>1 DEF Register, TypeOK, Known
  <2> QED
    BY <1>0, <2>1, <2>2, <2>3 DEF SilenceInv
<1>2. ASSUME NEW s \in Sensors, NEW q \in SequenceNumbers, Apply(s, q)
      PROVE  SilenceInv'
  <2>1. /\ Known' = Known /\ s \in Known /\ staleReports' = staleReports
        /\ sensors'[s] = Updated(sensors[s], q)
        /\ \A t \in Known : t # s => sensors'[t] = sensors[t] /\ age'[t] = age[t]
    BY <1>0, <1>2 DEF Apply, TypeOK, Known
  <2>2. /\ sensors'[s].messageCount = sensors[s].messageCount + 1
        /\ sensors'[s].status = "healthy"
    <3>1. sensors[s] \in Entry
      BY <1>0, <2>1
    <3>2. /\ Updated(sensors[s], q).messageCount = sensors[s].messageCount + 1
          /\ Updated(sensors[s], q).status = "healthy"
      BY <3>1, UpdatedHealthy
    <3> QED
      BY <2>1, <3>2
  <2>3. staleReports[s] \in Nat /\ sensors[s].messageCount \in Nat
    BY <1>0, <2>1 DEF TypeOK, Entry
  <2>4. Once(sensors'[s], staleReports[s], age'[s])
    <3>1. staleReports[s] <= sensors[s].messageCount
      BY <1>0, <2>1 DEF Once
    <3>2. staleReports[s] < sensors'[s].messageCount
      BY <2>2, <2>3, <3>1
    <3>3. staleReports[s] <= sensors'[s].messageCount /\ sensors'[s].status # "stale"
      BY <2>2, <2>3, <3>2
    <3> QED BY <3>2, <3>3 DEF Once
  <2> QED
    BY <1>0, <2>1, <2>4 DEF SilenceInv
<1>3. ASSUME NEW s \in Sensors, RecordError(s) \/ RecordAnomaly(s)
      PROVE  SilenceInv'
  <2>1. /\ Known' = Known /\ UNCHANGED <<age, staleReports>>
        /\ \A t \in Known : \/ sensors'[t] = sensors[t]
                            \/ sensors'[t] = WithError(sensors[t])
                            \/ sensors'[t] = WithAnomaly(sensors[t])
    BY <1>3 DEF RecordError, RecordAnomaly, TypeOK, Known
  <2>2. \A t \in Known : /\ sensors'[t].messageCount = sensors[t].messageCount
                         /\ sensors'[t].status = sensors[t].status
    BY <1>0, <2>1 DEF WithError, WithAnomaly, Entry
  <2> QED
    BY <1>0, <2>1, <2>2 DEF SilenceInv, Once
<1>4. CASE CheckStale
  <2> DEFINE stale == NewlyStale(sensors, age)
  <2>1. /\ Known' = Known /\ UNCHANGED age
        /\ \A t \in Sensors : t \notin stale => staleReports'[t] = staleReports[t]
        /\ \A t \in Known : t \notin stale => sensors'[t] = sensors[t]
    BY <1>0, <1>4 DEF CheckStale, Known
  <2>2. ASSUME NEW t \in stale
        PROVE  Once(sensors'[t], staleReports'[t], age[t])
    <3>1. t \in Known /\ sensors[t].status = "healthy" /\ age[t] > Timeout
      BY <2>2 DEF NewlyStale, Known
    <3>2. /\ sensors'[t].messageCount = sensors[t].messageCount
          /\ sensors'[t].status = "stale"
          /\ staleReports'[t] = staleReports[t] + 1
      BY <1>0, <1>4, <2>2, <3>1 DEF CheckStale, Known, Entry
    <3>3. staleReports[t] \in Nat /\ sensors[t].messageCount \in Nat
      BY <1>0, <3>1 DEF TypeOK, Entry
    <3> QED
      BY <1>0, <3>1, <3>2, <3>3 DEF Once
  <2>3. stale \subseteq Known
    BY DEF NewlyStale, Known
  <2> HIDE DEF stale
  <2> QED
    BY <1>0, <2>1, <2>2, <2>3 DEF SilenceInv
<1>5. CASE Tick
  <2>1. \A t \in Known : age[t] > Timeout => age'[t] = age[t]
    BY <1>0, <1>5, StoreAssumption DEF Tick, TypeOK
  <2>2. \A t \in Known : Once(sensors[t], staleReports[t], age'[t])
    BY <1>0, <2>1 DEF Once
  <2> QED
    BY <1>5, <2>2 DEF Tick, SilenceInv, Known
<1>6. CASE UNCHANGED vars
  BY <1>6 DEF vars, SilenceInv, Known
<1> QED
  BY <1>1, <1>2, <1>3, <1>4, <1>5, <1>6 DEF Next, Update

\* CheckStale reports each silence once, and no sensor that was heard within
\* Timeout is stale.
THEOREM ReportedOncePerSilence == Spec => []OneReportPerSilence
<1>1. Init => SilenceInv
  BY DEF Init, SilenceInv, Known
<1>2. TypeOK /\ SilenceInv /\ [Next]_vars => SilenceInv'
  BY SilenceStep
<1>3. SilenceInv => OneReportPerSilence
  BY DEF SilenceInv, Once, OneReportPerSilence
<1> QED
  BY <1>1, <1>2, <1>3, TypeCorrect, PTL DEF Spec
=============================================================================
