----------------------------- MODULE LatencyWindow -----------------------------
(***************************************************************************)
(* What internal/metrics promises: the last Capacity latencies recorded,    *)
(* oldest first, and summaries of them.  A summary is of one moment, and    *)
(* each of its values is the sample of a given rank.                        *)
(***************************************************************************)
EXTENDS Integers, FiniteSets, Functions, Sequences

CONSTANTS
    Durations,   \* the latencies recorded; a sensor's clock may be ahead (end to end)
    Capacity     \* how many samples are held

VARIABLES
    window,   \* the samples held, oldest first
    answer    \* the summary last asked for

Empty == [count |-> 0, min |-> 0, p50 |-> 0, p95 |-> 0, p99 |-> 0, max |-> 0]

\* The sample of rank k (from 0) among those of w.
OfRank(w, k) ==
    CHOOSE v \in Range(w) :
        /\ Cardinality({i \in DOMAIN w : w[i] < v}) <= k
        /\ k < Cardinality({i \in DOMAIN w : w[i] <= v})

Summary(w) ==
    IF w = <<>> THEN Empty
    ELSE LET last == Len(w) - 1 IN
         [count |-> Len(w),
          min   |-> OfRank(w, 0),
          p50   |-> OfRank(w, (50 * last) \div 100),
          p95   |-> OfRank(w, (95 * last) \div 100),
          p99   |-> OfRank(w, (99 * last) \div 100),
          max   |-> OfRank(w, last)]

Init == window = <<>> /\ answer = Empty

Record(d) ==
    /\ window' = IF Len(window) < Capacity THEN Append(window, d)
                                           ELSE Append(Tail(window), d)
    /\ UNCHANGED answer

Snapshot == answer' = Summary(window) /\ UNCHANGED window

Next == Snapshot \/ \E d \in Durations : Record(d)

Spec == Init /\ [][Next]_<<window, answer>>
=============================================================================
