-------------------------------- MODULE Replay --------------------------------
(***************************************************************************)
(* internal/replay with cmd/replay: the file to which servers append their  *)
(* messages, and a program that plays it through a processor of its own.    *)
(*                                                                          *)
(* A write to the file may fail at any byte, and a server that starts again *)
(* opens the file with O_APPEND and writes on behind what is there.  Main   *)
(* is the only goroutine of the program besides the workers: it starts the  *)
(* processor, enqueues line by line, waits for quiescence, reads Stats for  *)
(* its report, and stops the processor in its deferred call.                *)
(***************************************************************************)
EXTENDS Statistics

CONSTANTS
    Main,       \* the main goroutine of cmd/replay
    Stream,     \* the messages that servers pass to Record, in this order
    MaxFaults   \* bound: writes that fail or that make too long a line

\* The processor of this program: its one caller is Main.  MCReplay assumes it,
\* the theorems have it as a hypothesis.  Each message is recorded once.
ReplaySetting ==
    /\ Callers = {Main} /\ Stoppers = {Main} /\ Waiters = {Main} /\ Readers = {Main}
    /\ TryCallers = {} /\ MaxFaults \in Nat
    /\ Stream \in Seq(Messages) /\ ToSet(Stream) = Messages /\ IsInjective(Stream)

VARIABLES
    file,      \* its lines, each with the messages of which it holds bytes
    wrote,     \* history: what became of the write of each message of Stream
    lineNum,   \* how many lines the player has scanned
    exit       \* "no", "failed" (os.Exit(1)) or "done"

fileVars == <<file, wrote>>
replayVars == <<statVars, fileVars, lineNum, exit>>

\* What a write leaves: the line and its newline; a line longer than the
\* player's buffer (json.Marshal escapes what the client sent plainly);
\* everything but the newline; a part; nothing.  All but the first two return
\* an error, which the server only logs.
Writes == {"whole", "long", "unended", "torn", "nothing"}

\* The file does not exist, and the program has not been started.
ReplayInit ==
    /\ StatInit
    /\ file = <<>> /\ wrote = <<>> /\ lineNum = 0 /\ exit = "no"

NewLine == [msgs |-> <<>>, sound |-> TRUE, ended |-> FALSE]

\* A mutant: Record writes no newline.
Unterminated(line, m, how) ==
    [msgs |-> Append(line.msgs, m), sound |-> line.sound /\ how \in {"whole", "unended"},
     ended |-> FALSE]

\* One write goes behind what the line holds already.
Written(line, m, how) ==
    [msgs  |-> Append(line.msgs, m),
     sound |-> line.sound /\ how \in {"whole", "unended"},
     ended |-> how \in {"whole", "long"}]

\* Record, by any server: one Write in append mode, under the mutex.
Record(how) ==
    LET m    == Stream[Len(wrote) + 1]
        open == file # <<>> /\ ~ Last(file).ended
    IN  /\ Pool = {} /\ Len(wrote) < Len(Stream)
        /\ how # "whole" => Len(SelectSeq(wrote, LAMBDA h : h # "whole")) < MaxFaults
        /\ wrote' = Append(wrote, how)
        /\ file' = IF how = "nothing" THEN file
                   ELSE IF open THEN Front(file) \o <<Written(Last(file), m, how)>>
                   ELSE Append(file, Written(NewLine, m, how))
        /\ UNCHANGED <<statVars, lineNum, exit>>

\* json.Unmarshal takes one whole object, whether or not a newline ends it.
Parses(line) == line.sound /\ Len(line.msgs) = 1

\* Main between two lines.
BetweenLines == Pool # {} /\ caller[Main].pc = "idle" /\ waiter[Main] = "idle"

\* A mutant: the player skips what it cannot read.
SkipBad ==
    /\ BetweenLines /\ lineNum < Len(file) /\ ~ Parses(file[lineNum + 1])
    /\ lineNum' = lineNum + 1 /\ UNCHANGED <<statVars, fileVars, exit>>

\* A line that parses is handed to Enqueue, without further validation.
PlayLine ==
    /\ BetweenLines /\ lineNum < Len(file)
    /\ LET line == file[lineNum + 1] IN Parses(line) /\ Call(Main, line.msgs[1])
    /\ lineNum' = lineNum + 1
    /\ UNCHANGED <<reading, fileVars, exit>>

\* Replay returns an error at the first line it cannot scan or parse, and the
\* program exits at once: no wait, no report, no deferred Stop.
PlayBad ==
    /\ BetweenLines /\ lineNum < Len(file) /\ ~ Parses(file[lineNum + 1])
    /\ exit' = "failed" /\ UNCHANGED <<statVars, fileVars, lineNum>>

\* All lines are played; an error of WaitForQuiescence is only a warning.
WaitForQuiescence ==
    \/ BetweenLines /\ lineNum = Len(file) /\ Wait(Main)
    \/ WaitStep(Main)

\* Stats, and store.Count, for the report.
Report ==
    /\ waiter[Main] \in {"quiet", "timedOut", "notRunning"}
    /\ StatsStep(Main) /\ UNCHANGED <<fileVars, lineNum, exit>>

\* The deferred Stop.
StopAtEnd == HasStats(Main) /\ StopStep(Main)

Exits ==
    /\ stopper[Main] \in {"returned", "noop"}
    /\ exit' = "done" /\ UNCHANGED <<statVars, fileVars, lineNum>>

\* A step of the processor's own.
Inside(step) == step /\ UNCHANGED <<reading, fileVars, lineNum, exit>>

Running == exit = "no" /\ crashed = "no"

MainStep ==
    /\ Running
    /\ \/ PlayLine \/ PlayBad \/ Report \/ Exits
       \/ Inside(EnqueueStep(Main)) \/ Inside(WaitForQuiescence) \/ Inside(StopAtEnd)

Pooled(w) == Running /\ Inside(WorkerStep(w))

ReplayNext ==
    \/ \E how \in Writes : Record(how)
    \/ Running /\ Inside(Start)
    \/ MainStep
    \/ \E w \in Workers : Pooled(w)

\* Main and the workers go on; nothing makes a server record or somebody
\* start the program.
ReplaySpec ==
    /\ ReplayInit /\ [][ReplayNext]_replayVars
    /\ WF_replayVars(MainStep) /\ \A w \in Workers : WF_replayVars(Pooled(w))

-----------------------------------------------------------------------------
\* The place in Stream of a message that was played.
PlaceOf(m) == CHOOSE i \in DOMAIN Stream : Stream[i] = m

\* No write before the i-th left anything in the file that spoils a line.
CleanBefore(i) == \A j \in 1 .. i - 1 : wrote[j] \in {"whole", "nothing"}

PlayerOver == Pool # {} /\ (exit = "failed" \/ (lineNum = Len(file) /\ caller[Main].pc = "idle"))

\* A replay is faithful up to the first write that failed half way, and ends
\* there: until then every message whose Record returned nil is enqueued once,
\* in the order of recording, and of what servers recorded behind that point
\* nothing is, although Record returned nil for it (Record, Replay).
RecordedIsReplayed ==
    /\ \A i \in DOMAIN accepted :
           /\ CleanBefore(PlaceOf(accepted[i]))
           /\ \A j \in 1 .. i - 1 : PlaceOf(accepted[j]) < PlaceOf(accepted[i])
    /\ PlayerOver =>
           \A i \in DOMAIN wrote :
               wrote[i] = "whole" /\ CleanBefore(i) => Stream[i] \in ToSet(accepted)

\* What the program prints: with a nil error from WaitForQuiescence the queue
\* is empty, every replayed line is counted as enqueued, and the outcomes lack
\* only what is with the workers, one message each.  Without it, the outcomes
\* are at most the lines.  (Tests read the first case as if nothing was lacking.)
ReportBracketed ==
    HasStats(Main) =>
        /\ Handled(Main) <= lineNum
        /\ waiter[Main] = "quiet" =>
               /\ reading[Main].depth = 0 /\ reading[Main].enqueued = lineNum
               /\ lineNum <= Handled(Main) + Cardinality(Pool)

\* store.Update, one after the other in the order of the file.
Applied(known, m) ==
    [s \in DOMAIN known \cup {m.sensor} |->
        IF s # m.sensor THEN known[s]
        ELSE IF s \in DOMAIN known THEN Updated(known[s], m.sequence) ELSE NewEntry(m.sequence)]
StoreOf(msgs) == FoldLeft(Applied, [s \in {} |-> NewEntry(0)], msgs)

\* With one worker a replay is deterministic: at every moment the sensors are
\* what the part of the file that was processed makes of them, whatever the
\* timing, up to the failures that are recorded after Update.
StateFollowsFile ==
    Cardinality(Pool) = 1 =>
        [s \in DOMAIN sensors |-> [sensors[s] EXCEPT !.errorCount = 0, !.anomalyCount = 0]]
            = StoreOf(SubSeq(accepted, 1, Cardinality(updated)))

\* The program ends, whatever the file holds and however full the queue gets.
ReplayEnds == Pool # {} ~> exit # "no"
===============================================================================
