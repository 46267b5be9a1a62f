------------------------------ MODULE Statistics ------------------------------
(***************************************************************************)
(* What a reader sees of a processor at work: Processor.Stats, and after it *)
(* the list of sensors, as handleMetricsSummary takes them.  Stats holds    *)
(* Processor.mu, which nobody who changes a counter takes: each atomic      *)
(* counter is loaded in a step of its own, while callers and workers go on. *)
(***************************************************************************)
EXTENDS Processor

CONSTANT Readers   \* goroutines that call Stats, once each, as HTTP handlers do

VARIABLE reading   \* what each reader has loaded so far

statVars == <<vars, reading>>

\* The order in which Worker.Stats loads its counters.
LoadOrder == <<"processed", "errors", "anomalies", "dropped", "duplicates", "outOfOrder">>

\* Nothing is loaded yet.  sums are the totals over the workers; uncounted is
\* history: the callers that were between their send and their count when
\* the counter of sent messages was loaded.
Unread == [ loads |-> 0, sums |-> [k \in Counters |-> 0],
            todo |-> {"depth", "enqueued"}, depth |-> 0, enqueued |-> 0, uncounted |-> 0,
            listed |-> FALSE, messages |-> 0, failures |-> 0 ]

StatInit == Init /\ reading = [r \in Readers |-> Unread]

\* The processor goes on, or a reader does.
Reads(r, next) == reading' = [reading EXCEPT ![r] = next] /\ UNCHANGED vars

\* A mutant: the queue may be looked at before the workers are.
AtAnyPoint(r) == reading[r].loads > 0

WorkersRead(r) == Pool # {} /\ reading[r].loads = Len(LoadOrder) * Cardinality(Pool)

\* The next counter of the next worker of the slice p.workers.
LoadCounter(r) ==
    LET n == reading[r].loads
        w == SetToSeq(Pool)[1 + n \div Len(LoadOrder)]
        k == LoadOrder[1 + (n % Len(LoadOrder))]
    IN  /\ n < Len(LoadOrder) * Cardinality(Pool)
        /\ Reads(r, [reading[r] EXCEPT !.loads = n + 1, !.sums[k] = @ + counts[w][k]])

\* len(jobsChan) and totalMessagesEnqueued are operands of one composite
\* literal: Go orders the calls among them, and len of a channel is none.
LoadDepth(r) ==
    /\ WorkersRead(r) /\ "depth" \in reading[r].todo
    /\ Reads(r, [reading[r] EXCEPT !.todo = @ \ {"depth"}, !.depth = Len(queue)])

LoadEnqueued(r) ==
    /\ WorkersRead(r) /\ "enqueued" \in reading[r].todo
    /\ Reads(r, [reading[r] EXCEPT
           !.todo = @ \ {"enqueued"}, !.enqueued = enqueued,
           !.uncounted = Cardinality({c \in Enqueuers : caller[c].pc = "counting"})])

\* Stats has returned.
HasStats(r) == WorkersRead(r) /\ reading[r].todo = {}

\* A counter of the sensors that store.List copies, over all of them.
SumOf(field) == SumFunction([s \in DOMAIN sensors |-> sensors[s][field]])

\* store.List, under the store's mutex, after Stats.  The handler counts the
\* healthy and the stale sensors of the list; the sums are what its counters
\* come to at that moment.
ListSensors(r) ==
    /\ HasStats(r) /\ ~ reading[r].listed
    /\ Reads(r, [reading[r] EXCEPT !.listed = TRUE, !.messages = SumOf("messageCount"),
                                   !.failures = SumOf("errorCount") + SumOf("anomalyCount")])

StatsStep(r) == LoadCounter(r) \/ LoadDepth(r) \/ LoadEnqueued(r)

StatNext ==
    \/ Next /\ UNCHANGED reading
    \/ crashed = "no" /\ \E r \in Readers : StatsStep(r) \/ ListSensors(r)

\* Nothing makes anybody read.
StatSpec == StatInit /\ [][StatNext]_statVars /\ Fairness

-----------------------------------------------------------------------------
Handled(r) ==
    reading[r].sums["processed"] + reading[r].sums["errors"] + reading[r].sums["anomalies"]

\* A response is no snapshot, but its figures bound each other.  No message is
\* seen both in the queue and as an outcome; the outcomes exceed the messages
\* counted as sent by no more than the callers about to count (Stats).  All
\* outcomes belong to messages of the sensors that handleMetricsSummary lists
\* after them, whose own failures lag by at most one per worker.
ResponseAddsUp ==
    \A r \in Readers :
        /\ HasStats(r) =>
               /\ Handled(r) + reading[r].depth <= Len(accepted)
               /\ Handled(r) <= reading[r].enqueued + reading[r].uncounted
        /\ reading[r].listed =>
               /\ Handled(r) <= reading[r].messages
               /\ reading[r].sums["errors"] + reading[r].sums["anomalies"]
                    <= reading[r].failures + Cardinality(Pool)
===============================================================================
