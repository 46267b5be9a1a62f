--------------------------- MODULE SensorEntryProofs ---------------------------
(***************************************************************************)
(* Facts about the operators of SensorEntry, for every Window and every     *)
(* range of sequence numbers: what Update makes of an entry, field by field *)
(* in its three branches.                                                   *)
(***************************************************************************)
EXTENDS SensorEntry, TLAPS

\* A new entry is well formed (Update, first message).
LEMMA NewEntryType ==
    ASSUME NEW q \in SequenceNumbers
    PROVE  NewEntry(q) \in Entry
BY DEF NewEntry, Entry, Statuses

\* What every later message does first: revive the sensor, count itself.
LEMMA ReceivedFields ==
    ASSUME NEW e \in Entry
    PROVE  /\ Received(e) \in Entry
           /\ Received(e).lastSequence = e.lastSequence
           /\ Received(e).recentSeqs = e.recentSeqs
           /\ Received(e).messageCount = e.messageCount + 1
           /\ Received(e).droppedCount = e.droppedCount
           /\ Received(e).duplicateCount = e.duplicateCount
           /\ Received(e).outOfOrderCount = e.outOfOrderCount
           /\ Received(e).status = "healthy"
<1> DEFINE n == e.messageCount + 1
<1>1. n \in Nat
  BY DEF Entry
<1> HIDE DEF n
<1>2. [e EXCEPT !.status = "healthy", !.messageCount = n] \in Entry
  BY <1>1 DEF Entry, Statuses
<1>3. Received(e) \in Entry
  BY <1>2 DEF Received, n
<1> QED
  BY <1>3 DEF Received, Entry

\* Update of a known sensor, field by field, in its three branches.
LEMMA AdvanceFields ==
    ASSUME NEW e \in Entry, NEW q \in SequenceNumbers, Advances(e, q)
    PROVE  /\ Updated(e, q) \in Entry
           /\ Updated(e, q).lastSequence = q
           /\ Updated(e, q).recentSeqs = Pruned(e.recentSeqs \cup {q}, q)
           /\ Updated(e, q).messageCount = e.messageCount + 1
           /\ Updated(e, q).droppedCount = e.droppedCount + (q - e.lastSequence - 1)
           /\ Updated(e, q).duplicateCount = e.duplicateCount
           /\ Updated(e, q).outOfOrderCount = e.outOfOrderCount
           /\ Updated(e, q).status = "healthy"
<1>1. Gap(e, q) \in Nat
  BY DEF Gap, Advances, Entry, SequenceNumbers
<1>2. Pruned(e.recentSeqs \cup {q}, q) \in SUBSET SequenceNumbers
  BY DEF Pruned, Entry
<1>3. Updated(e, q) = AfterAdvance(e, q)
  BY DEF Updated
<1> DEFINE p == Received(e)
           g == Gap(e, q)
           R == Pruned(e.recentSeqs \cup {q}, q)
<1>4. Updated(e, q) = [p EXCEPT !.droppedCount = p.droppedCount + g,
                                !.lastSequence = q,
                                !.recentSeqs = R]
  BY <1>3, ReceivedFields DEF AfterAdvance
<1>5. p \in Entry /\ g \in Nat /\ R \in SUBSET SequenceNumbers
  BY <1>1, <1>2, ReceivedFields
<1>6. g = q - e.lastSequence - 1
  BY DEF Gap
<1> HIDE DEF p, g, R
<1>7. p.droppedCount + g \in Nat
  BY <1>5 DEF Entry
<1> DEFINE d == p.droppedCount + g
<1> HIDE DEF d
<1>8. Updated(e, q) \in Entry
  <2>1. d \in Nat
    BY <1>7 DEF d
  <2>2. [p EXCEPT !.droppedCount = d, !.lastSequence = q, !.recentSeqs = R] \in Entry
    BY <1>5, <2>1 DEF Entry
  <2> QED
    BY <1>4, <2>2 DEF d
<1>9. /\ Updated(e, q).lastSequence = q
      /\ Updated(e, q).recentSeqs = R
      /\ Updated(e, q).messageCount = p.messageCount
      /\ Updated(e, q).droppedCount = p.droppedCount + g
      /\ Updated(e, q).duplicateCount = p.duplicateCount
      /\ Updated(e, q).outOfOrderCount = p.outOfOrderCount
      /\ Updated(e, q).status = p.status
  BY <1>4, <1>5 DEF Entry
<1> QED
  BY <1>6, <1>8, <1>9, ReceivedFields DEF p, R

\* A duplicate moves neither the high-water mark nor the remembered numbers.
LEMMA DuplicateFields ==
    ASSUME NEW e \in Entry, NEW q \in SequenceNumbers,
           ~ Advances(e, q), IsDuplicate(e, q)
    PROVE  /\ Updated(e, q) \in Entry
           /\ Updated(e, q).lastSequence = e.lastSequence
           /\ Updated(e, q).recentSeqs = e.recentSeqs
           /\ Updated(e, q).messageCount = e.messageCount + 1
           /\ Updated(e, q).droppedCount = e.droppedCount
           /\ Updated(e, q).duplicateCount = e.duplicateCount + 1
           /\ Updated(e, q).outOfOrderCount = e.outOfOrderCount
           /\ Updated(e, q).status = "healthy"
<1>1. Updated(e, q) = AfterDuplicate(e)
  BY DEF Updated
<1> QED
  BY <1>1, ReceivedFields DEF AfterDuplicate, Entry

\* A late message is remembered, and the high-water mark stays.
LEMMA LateFields ==
    ASSUME NEW e \in Entry, NEW q \in SequenceNumbers,
           ~ Advances(e, q), ~ IsDuplicate(e, q)
    PROVE  /\ Updated(e, q) \in Entry
           /\ q < e.lastSequence
           /\ q \notin e.recentSeqs
           /\ Updated(e, q).lastSequence = e.lastSequence
           /\ Updated(e, q).recentSeqs = e.recentSeqs \cup {q}
           /\ Updated(e, q).messageCount = e.messageCount + 1
           /\ Updated(e, q).droppedCount = e.droppedCount
           /\ Updated(e, q).duplicateCount = e.duplicateCount
           /\ Updated(e, q).outOfOrderCount = e.outOfOrderCount + 1
           /\ Updated(e, q).status = "healthy"
<1>1. Updated(e, q) = AfterLate(e, q)
  BY DEF Updated
<1>2. q < e.lastSequence /\ q \notin e.recentSeqs
  BY DEF Advances, IsDuplicate, Entry, SequenceNumbers
<1> DEFINE p == Received(e)
           n == p.outOfOrderCount + 1
           R == p.recentSeqs \cup {q}
<1>3. Updated(e, q) = [p EXCEPT !.outOfOrderCount = n, !.recentSeqs = R]
  BY <1>1 DEF AfterLate
<1>4. p \in Entry /\ n \in Nat /\ R \in SUBSET SequenceNumbers
  BY ReceivedFields DEF Entry
<1>5. n = e.outOfOrderCount + 1 /\ R = e.recentSeqs \cup {q}
  BY ReceivedFields
<1> HIDE DEF p, n, R
<1>6. Updated(e, q) \in Entry
  BY <1>3, <1>4 DEF Entry
<1>7. /\ Updated(e, q).lastSequence = p.lastSequence
      /\ Updated(e, q).recentSeqs = R
      /\ Updated(e, q).messageCount = p.messageCount
      /\ Updated(e, q).droppedCount = p.droppedCount
      /\ Updated(e, q).duplicateCount = p.duplicateCount
      /\ Updated(e, q).outOfOrderCount = n
      /\ Updated(e, q).status = p.status
  BY <1>3, <1>4 DEF Entry
<1> QED
  BY <1>2, <1>5, <1>6, <1>7, ReceivedFields DEF p

\* Pruning keeps exactly the window behind the new high-water mark.
LEMMA PrunedIsWindow ==
    ASSUME NEW R \in SUBSET SequenceNumbers, NEW q \in SequenceNumbers
    PROVE  Pruned(R, q) = {r \in R : r >= q - Window}
<1>1. CASE q < Window
  <2>1. \A r \in R : r >= q - Window
    BY <1>1, EntryAssumption DEF SequenceNumbers
  <2> QED
    BY <1>1, <2>1 DEF Pruned
<1>2. CASE ~ (q < Window)
  BY <1>2 DEF Pruned
<1> QED
  BY <1>1, <1>2

-----------------------------------------------------------------------------
\* Update, RecordError and RecordAnomaly keep an entry well formed.
LEMMA UpdatedType ==
    ASSUME NEW e \in Entry, NEW q \in SequenceNumbers PROVE Updated(e, q) \in Entry
BY AdvanceFields, DuplicateFields, LateFields

\* Every Update counts one message and makes the sensor healthy again.
LEMMA UpdatedHealthy ==
    ASSUME NEW e \in Entry, NEW q \in SequenceNumbers
    PROVE  /\ Updated(e, q).messageCount = e.messageCount + 1
           /\ Updated(e, q).status = "healthy"
<1>1. CASE Advances(e, q)
  BY <1>1, AdvanceFields
<1>2. CASE ~ Advances(e, q) /\ IsDuplicate(e, q)
  BY <1>2, DuplicateFields
<1>3. CASE ~ Advances(e, q) /\ ~ IsDuplicate(e, q)
  BY <1>3, LateFields
<1> QED BY <1>1, <1>2, <1>3

\* RecordError and RecordAnomaly keep an entry well formed.
LEMMA FailureType ==
    ASSUME NEW e \in Entry PROVE WithError(e) \in Entry /\ WithAnomaly(e) \in Entry
BY DEF WithError, WithAnomaly, Entry

\* The failures that the store records, and what they leave alone.
LEMMA FailureFields ==
    ASSUME NEW e \in Entry
    PROVE  /\ WithError(e).errorCount = e.errorCount + 1
           /\ WithError(e).anomalyCount = e.anomalyCount
           /\ WithAnomaly(e).anomalyCount = e.anomalyCount + 1
           /\ WithAnomaly(e).errorCount = e.errorCount
           /\ \A u \in {WithError(e), WithAnomaly(e)} :
                 /\ u.messageCount = e.messageCount /\ u.droppedCount = e.droppedCount
                 /\ u.duplicateCount = e.duplicateCount
                 /\ u.outOfOrderCount = e.outOfOrderCount
BY DEF WithError, WithAnomaly, Entry

\* The counters after Update, in terms of what Update reports.
LEMMA UpdatedCounters ==
    ASSUME NEW e \in Entry, NEW q \in SequenceNumbers
    PROVE  /\ Updated(e, q).messageCount = e.messageCount + 1
           /\ Updated(e, q).droppedCount
                = e.droppedCount + (IF Advances(e, q) THEN Gap(e, q) ELSE 0)
           /\ Updated(e, q).duplicateCount
                = e.duplicateCount + (IF IsDuplicate(e, q) THEN 1 ELSE 0)
           /\ Updated(e, q).outOfOrderCount
                = e.outOfOrderCount + (IF IsOutOfOrder(e, q) THEN 1 ELSE 0)
           /\ Updated(e, q).errorCount = e.errorCount
           /\ Updated(e, q).anomalyCount = e.anomalyCount
           /\ Advances(e, q) => Gap(e, q) \in Nat
<1>1. /\ e.lastSequence \in Nat /\ q \in Nat
      /\ e.droppedCount \in Nat /\ e.duplicateCount \in Nat /\ e.outOfOrderCount \in Nat
  BY EntryAssumption DEF Entry, SequenceNumbers
<1>2. Updated(e, q).errorCount = e.errorCount /\ Updated(e, q).anomalyCount = e.anomalyCount
  BY DEF Updated, AfterAdvance, AfterDuplicate, AfterLate, Received, Entry
<1>3. Advances(e, q) => Gap(e, q) \in Nat /\ Gap(e, q) = q - e.lastSequence - 1
  BY <1>1 DEF Advances, Gap
<1>4. Advances(e, q) => ~ IsDuplicate(e, q) /\ ~ IsOutOfOrder(e, q)
  BY <1>1 DEF Advances, IsDuplicate, IsOutOfOrder
<1>5. IsDuplicate(e, q) => ~ IsOutOfOrder(e, q)
  BY <1>1 DEF IsDuplicate, IsOutOfOrder
<1>6. ~ Advances(e, q) /\ ~ IsDuplicate(e, q) => IsOutOfOrder(e, q)
  BY <1>1 DEF IsDuplicate, IsOutOfOrder, Advances
<1> DEFINE u == Updated(e, q)
<1>7. ASSUME Advances(e, q)
      PROVE  /\ u.messageCount = e.messageCount + 1
             /\ u.droppedCount = e.droppedCount + Gap(e, q)
             /\ u.duplicateCount = e.duplicateCount
             /\ u.outOfOrderCount = e.outOfOrderCount
  <2>1. /\ u.messageCount = e.messageCount + 1
        /\ u.droppedCount = e.droppedCount + (q - e.lastSequence - 1)
        /\ u.duplicateCount = e.duplicateCount
        /\ u.outOfOrderCount = e.outOfOrderCount
    BY <1>7, AdvanceFields
  <2>2. q - e.lastSequence - 1 = Gap(e, q)
    BY <1>3, <1>7
  <2> HIDE DEF u
  <2> QED BY <2>1, <2>2
<1>8. ASSUME ~ Advances(e, q), IsDuplicate(e, q)
      PROVE  /\ u.messageCount = e.messageCount + 1
             /\ u.droppedCount = e.droppedCount
             /\ u.duplicateCount = e.duplicateCount + 1
             /\ u.outOfOrderCount = e.outOfOrderCount
  BY <1>8, DuplicateFields
<1>9. ASSUME ~ Advances(e, q), ~ IsDuplicate(e, q)
      PROVE  /\ u.messageCount = e.messageCount + 1
             /\ u.droppedCount = e.droppedCount
             /\ u.duplicateCount = e.duplicateCount
             /\ u.outOfOrderCount = e.outOfOrderCount + 1
  BY <1>9, LateFields
<1> HIDE DEF u
<1>10. u.messageCount = e.messageCount + 1
  BY <1>7, <1>8, <1>9
<1>11. u.droppedCount = e.droppedCount + (IF Advances(e, q) THEN Gap(e, q) ELSE 0)
  BY <1>1, <1>7, <1>8, <1>9
<1>12. u.duplicateCount = e.duplicateCount + (IF IsDuplicate(e, q) THEN 1 ELSE 0)
  BY <1>1, <1>4, <1>7, <1>8, <1>9
<1>13. u.outOfOrderCount = e.outOfOrderCount + (IF IsOutOfOrder(e, q) THEN 1 ELSE 0)
  BY <1>1, <1>4, <1>5, <1>6, <1>7, <1>8, <1>9
<1> QED BY <1>2, <1>3, <1>10, <1>11, <1>12, <1>13 DEF u
================================================================================
