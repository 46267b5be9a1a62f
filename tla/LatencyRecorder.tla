---------------------------- MODULE LatencyRecorder ----------------------------
(***************************************************************************)
(* internal/metrics/latency.go: a circular buffer of samples.  Workers      *)
(* record under the mutex; a reader copies the samples under the mutex and  *)
(* sorts its copy after it has released it, while workers go on recording.  *)
(***************************************************************************)
EXTENDS Integers, FiniteSets, Functions, Sequences

CONSTANTS
    Durations,   \* the latencies recorded; a sensor's clock may be ahead (end to end)
    Capacity     \* length of the buffer, 10000 in the code

ASSUME RecorderAssumption ==
    /\ Durations \subseteq Int
    /\ Capacity \in Nat \ {0}

VARIABLES
    samples,   \* the buffer, indexed from 0
    next,      \* where the next sample goes
    full,      \* the buffer has wrapped around
    reader,    \* a call of Snapshot: "idle", or "copied" and not yet computed
    data,      \* the reader's copy
    result     \* the Snapshot last returned

vars == <<samples, next, full, reader, data, result>>

Empty == [count |-> 0, min |-> 0, p50 |-> 0, p95 |-> 0, p99 |-> 0, max |-> 0]

Samples == Durations \cup {0}

\* The place of the next sample is inside the buffer.
TypeOK ==
    /\ samples \in [0 .. Capacity - 1 -> Samples]
    /\ next \in 0 .. Capacity - 1
    /\ full \in BOOLEAN
    /\ reader \in {"idle", "copied"}
    /\ data \in Seq(Samples) /\ Len(data) <= Capacity
    /\ result \in [{"count", "min", "p50", "p95", "p99", "max"} -> Int]

\* NewLatencyRecorder: the slice is made of zeros.
Init ==
    /\ samples = [i \in 0 .. Capacity - 1 |-> 0]
    /\ next = 0
    /\ full = FALSE
    /\ reader = "idle"
    /\ data = <<>>
    /\ result = Empty

\* Mutants of Record: the wrap comes one sample early; or it is not noted.
RecordWrapEarly(d) ==
    /\ samples' = [samples EXCEPT ![next] = d]
    /\ next' = IF next + 1 >= Capacity - 1 THEN 0 ELSE next + 1
    /\ full' = (full \/ next + 1 >= Capacity - 1)
    /\ UNCHANGED <<reader, data, result>>
RecordPastEnd(d) ==
    /\ samples' = [samples EXCEPT ![next] = d]
    /\ next' = next + 1
    /\ full' = (full \/ next + 1 = Capacity)
    /\ UNCHANGED <<reader, data, result>>

Record(d) ==
    /\ samples' = [samples EXCEPT ![next] = d]
    /\ next' = IF next + 1 = Capacity THEN 0 ELSE next + 1
    /\ full' = (full \/ next + 1 = Capacity)
    /\ UNCHANGED <<reader, data, result>>

\* How many samples the buffer holds.
Held == IF full THEN Capacity ELSE next

\* Snapshot, the part under the mutex: the first Held places are copied.
Copy ==
    /\ reader = "idle"
    /\ data' = [i \in 1 .. Held |-> samples[i - 1]]
    /\ reader' = "copied"
    /\ UNCHANGED <<samples, next, full, result>>

\* sort.Slice: a sample goes to the place that leaves room for those that come
\* before it, the smaller ones and, in the order of s, its equals.
UpTo(s, i) == {j \in DOMAIN s : s[j] < s[i] \/ (s[j] = s[i] /\ j <= i)}
Sorted(s) == [k \in DOMAIN s |-> s[CHOOSE i \in DOMAIN s : Cardinality(UpTo(s, i)) = k]]

\* percentile: int(p * float64(n-1)), with p in hundredths.  For the lengths
\* of the buffer the product rounds to an integer exactly when it is one.
Percentile(sorted, p) == sorted[(p * (Len(sorted) - 1)) \div 100 + 1]

Computed(s) ==
    IF s = <<>> THEN Empty
    ELSE LET sorted == Sorted(s) IN
         [count |-> Len(s),
          min   |-> sorted[1],
          p50   |-> Percentile(sorted, 50),
          p95   |-> Percentile(sorted, 95),
          p99   |-> Percentile(sorted, 99),
          max   |-> sorted[Len(sorted)]]

\* Snapshot, the part after the mutex is released.
Compute ==
    /\ reader = "copied"
    /\ result' = Computed(data)
    /\ reader' = "idle"
    /\ data' = <<>>
    /\ UNCHANGED <<samples, next, full>>

Next == Copy \/ Compute \/ \E d \in Durations : Record(d)

Spec == Init /\ [][Next]_vars

-----------------------------------------------------------------------------
\* The buffer read from the oldest sample on.
Oldest == IF full THEN next ELSE 0
InOrder == [i \in 1 .. Held |-> samples[(Oldest + i - 1) % Capacity]]

\* A reader has its answer from the moment it has copied.
Window == INSTANCE LatencyWindow WITH
    window <- InOrder,
    answer <- IF reader = "copied" THEN Computed(data) ELSE result

\* The circular buffer implements the window of the last Capacity samples:
\* wrapping loses the oldest sample and no other, a buffer that has not
\* wrapped shows none of the zeros it was made of, and a Snapshot is a summary
\* of the samples held at one moment although it is computed later.
ImplementsWindow == Window!Spec
=============================================================================
