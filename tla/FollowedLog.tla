---------------------------- MODULE FollowedLog ----------------------------
(* shipwick logs -f over a connection that does not last (cli: commands/   *)
(* logs_follow.go, client/follow.go; agent: api/heartbeat.go, handlers.go, *)
(* deploy/views.go LogStream, docker/runtime_logs.go).  The agent follows  *)
(* every replica's log on its own and merges the lines as they come; the   *)
(* client takes a lost stream up at the latest time it was told.           *)
EXTENDS Naturals, Sequences, FiniteSets

CONSTANTS Replicas,       \* the replicas whose logs are followed
          TailLines,      \* how many old lines each begins with
          Buffer,         \* lines the channel holds (64)
          FollowRetries,  \* losses in a row before the client gives up
          MaxTime,        \* bound: the clock
          FollowBudgets   \* the scenarios: [cuts, beats, lines, says], the lines of each
                          \* replica and what they may be

VARIABLES logged,   \* each replica's lines, with the time Docker gave them
          clock,
          stream,   \* the agent's end: how far each log is read, the lines on their way
          reader,   \* the client's end
          printed,  \* per replica, the lines it printed, by their place in the log
          limits    \* what is left of the scenario

followVars == <<logged, clock, stream, reader, printed, limits>>

Closed == [open |-> FALSE, cursor |-> [r \in Replicas |-> 1], lines |-> <<>>]
Unseen == [at |-> 0, messages |-> {}]
PlacesOf(s) == {s[i] : i \in DOMAIN s}

FollowInit ==
    /\ logged = [r \in Replicas |-> <<>>] /\ clock = 1
    /\ stream = Closed
    /\ reader = [pc |-> "connecting", latest |-> 0, seen |-> [r \in Replicas |-> Unseen], connections |-> 0,
                 received |-> FALSE, lost |-> 0, beat |-> 0, resumed |-> 0]
    /\ printed = [r \in Replicas |-> <<>>]
    /\ limits \in FollowBudgets

Log(r, message) ==
    /\ Len(logged[r]) < limits.lines
    /\ logged' = [logged EXCEPT ![r] = Append(@, [at |-> clock, message |-> message])]
    /\ UNCHANGED <<clock, stream, reader, printed, limits>>

ClockTicks == clock < MaxTime /\ clock' = clock + 1 /\ UNCHANGED <<logged, stream, reader, printed, limits>>

-----------------------------------------------------------------------------
(* The agent's end.                                                        *)

FollowLogs(r) == IF Len(logged[r]) > TailLines THEN Len(logged[r]) - TailLines + 1 ELSE 1

(* Every line logged at or after that time.                                *)
FollowLogsSince(r, since) == Cardinality({i \in DOMAIN logged[r] : logged[r][i].at < since}) + 1

LogStream(since) ==
    [open |-> TRUE, lines |-> <<>>,
     cursor |-> [r \in Replicas |-> IF since = 0 THEN FollowLogs(r) ELSE FollowLogsSince(r, since)]]

(* One goroutine per replica puts its next line into the channel.          *)
Emit(r) ==
    /\ stream.open /\ stream.cursor[r] \in DOMAIN logged[r] /\ Len(stream.lines) < Buffer
    /\ stream' = [stream EXCEPT !.cursor[r] = @ + 1, !.lines = Append(@, <<r, stream.cursor[r]>>)]
    /\ UNCHANGED <<logged, clock, reader, printed, limits>>

-----------------------------------------------------------------------------
(* The client's end.                                                       *)

Later(a, b) == IF a > b THEN a ELSE b

(* resumedStream.Line: the boundary of the replica's stream, and whether   *)
(* the line is printed.                                                    *)
Repeats(seen, line) == line.at < seen.at \/ (line.at = seen.at /\ line.message \in seen.messages)
Boundary(seen, line) ==
    IF line.at > seen.at THEN [at |-> line.at, messages |-> {line.message}]
    ELSE IF line.at = seen.at THEN [seen EXCEPT !.messages = @ \union {line.message}]
    ELSE seen

(* Mutant: a line that comes again is printed again.                       *)
IsPrintedAlways(seen, line) == TRUE

IsPrinted(seen, line) == reader.connections = 1 \/ ~Repeats(seen, line)

Line ==
    /\ stream.open /\ stream.lines # <<>>
    /\ LET r == Head(stream.lines)[1]
           i == Head(stream.lines)[2]
           line == logged[r][i]
           seen == reader.seen[r] IN
       /\ reader' = [reader EXCEPT !.received = TRUE, !.latest = Later(@, line.at), !.seen[r] = Boundary(seen, line)]
       /\ printed' = IF IsPrinted(seen, line) THEN [printed EXCEPT ![r] = Append(@, i)] ELSE printed
    /\ stream' = [stream EXCEPT !.lines = Tail(@)]
    /\ UNCHANGED <<logged, clock, limits>>

(* Twenty seconds without a line; one may be on its way all the same.      *)
Heartbeat ==
    /\ stream.open /\ limits.beats > 0
    /\ limits' = [limits EXCEPT !.beats = @ - 1]
    /\ reader' = [reader EXCEPT !.received = TRUE, !.latest = Later(@, clock), !.beat = clock]
    /\ UNCHANGED <<logged, clock, stream, printed>>

(* The stream is cut, or the agent ends it to restart: what was on its way *)
(* is gone.  Anything that came through starts the count of losses over.   *)
Loses ==
    LET lost == IF reader.received THEN 1 ELSE reader.lost + 1 IN
    [reader EXCEPT !.lost = lost, !.received = FALSE,
                   !.pc = IF lost > FollowRetries THEN "gave up" ELSE "connecting"]
Cut ==
    /\ stream.open /\ limits.cuts > 0
    /\ limits' = [limits EXCEPT !.cuts = @ - 1]
    /\ stream' = Closed /\ reader' = Loses
    /\ UNCHANGED <<logged, clock, printed>>

(* The containers are gone, replaced by a deployment: the command ends.    *)
StreamEnds ==
    /\ stream.open /\ stream.lines = <<>> /\ \A r \in Replicas : stream.cursor[r] \notin DOMAIN logged[r]
    /\ \A r \in Replicas : Len(logged[r]) = limits.lines
    /\ stream' = Closed /\ reader' = [reader EXCEPT !.pc = "ended"]
    /\ UNCHANGED <<logged, clock, printed, limits>>

(* From the latest time it was told, or as the first time.                 *)
Connected ==
    /\ reader.pc = "connecting"
    /\ stream' = LogStream(reader.latest)
    /\ reader' = [reader EXCEPT !.pc = "following", !.connections = @ + 1, !.resumed = reader.latest]
    /\ UNCHANGED <<logged, clock, printed, limits>>

(* An agent that does not answer is a loss once the stream was open; before*)
(* that it is the end.                                                     *)
connectionLost ==
    /\ reader.pc = "connecting" /\ limits.cuts > 0
    /\ limits' = [limits EXCEPT !.cuts = @ - 1]
    /\ reader' = IF reader.connections = 0 THEN [reader EXCEPT !.pc = "gave up"] ELSE Loses
    /\ UNCHANGED <<logged, clock, stream, printed>>

FollowNext ==
    \/ ClockTicks \/ Line \/ Heartbeat \/ Cut \/ StreamEnds \/ Connected \/ connectionLost
    \/ \E r \in Replicas : Emit(r) \/ \E m \in limits.says[r] : Log(r, m)

-----------------------------------------------------------------------------
(* Properties.                                                             *)

(* A replica's lines are printed in the order of their times and none of   *)
(* them twice, however often the stream is lost ("prints nothing twice",   *)
(* handbook.md).                                                           *)
PrintedOnce ==
    \A r \in Replicas : \A i, j \in DOMAIN printed[r] : i < j =>
        /\ printed[r][i] # printed[r][j]
        /\ logged[r][printed[r][i]].at <= logged[r][printed[r][j]].at

(* What is missing between two lines of a replica that were printed one    *)
(* after the other, and is not one of the same time and the same words.    *)
Missed(r) ==
    {k \in DOMAIN logged[r] :
        /\ k \notin PlacesOf(printed[r])
        /\ \E i, j \in DOMAIN printed[r] : i < j /\ printed[r][i] < k /\ k < printed[r][j]
        /\ ~\E i \in PlacesOf(printed[r]) : logged[r][i] = logged[r][k]}

(* What the command says of a stream it takes up again: "Reconnected;      *)
(* nothing was missed." (logs_follow.go, resumedStream.Connected).         *)
NothingMissed == \A r \in Replicas : Missed(r) = {}

(* What holds: a line is missed only if it was still on its way when       *)
(* something else, a heartbeat or another replica's line, told a later     *)
(* time, and the stream was lost and taken up from a later one.            *)
OnlyOvertakenMissed == \A r \in Replicas : \A k \in Missed(r) :
    /\ logged[r][k].at < reader.resumed
    /\ \/ reader.beat > logged[r][k].at
       \/ \E o \in Replicas \ {r} : reader.seen[o].at > logged[r][k].at

(* A followed log repeats no line, keeps a replica's in order, and misses  *)
(* no others than those (followLogs, connectionLost).                      *)
PrintedInOrder == PrintedOnce /\ OnlyOvertakenMissed
=============================================================================
