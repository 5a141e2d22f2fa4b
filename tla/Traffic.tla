------------------------------ MODULE Traffic -------------------------------
(***************************************************************************)
(* Counting what the proxy serves (agent/internal/deploy/traffic.go,       *)
(* store/traffic.go).  One goroutine follows the proxy's access log and    *)
(* counts each line, by the hostname's owner, into the minute it belongs   *)
(* to; another writes minutes that have ended to the database; readers add *)
(* the two up.  The table of owners is re-read from the database when it   *)
(* is stale, in steps a deletion can come between; the log ends and is     *)
(* opened again; a write may fail; the agent stops or crashes.  The id of  *)
(* a deleted application is given to the next one.                         *)
(***************************************************************************)
EXTENDS Integers, Sequences, FiniteSets

CONSTANTS
    MaxId,          \* application ids are 1 .. MaxId
    MaxLives,       \* applications ever created
    MaxLines,       \* lines the access log ever holds
    TrafficBudgets  \* scenarios: [ticks, cuts, faults, stops, deletes, views]

ASSUME TrafficAssumption == MaxId \in Nat /\ MaxLives \in Nat /\ MaxLines \in Nat

VARIABLES
    minute,   \* the current minute
    left,     \* what is left of the scenario's events
    apps,     \* the applications table: which application has each id, 0 for none
    lives,    \* applications created so far; each has a hostname of its own
    log,      \* the access log: [life, at, written]
    feed,     \* [open, from, next]: followProxyOnce
    seen,     \* trafficRecorder.lastSeen
    table,    \* [owners, fresh]: which id each hostname is counted for
    line,     \* the line recordAccess is at, with where it is
    snap,     \* what refreshTrafficOwners of each goroutine has read
    minutes,  \* trafficRecorder.minutes: the lines counted in memory, by id
    flush,    \* [phase, rows, until]: flushTraffic
    rows,     \* the traffic_samples table: the lines each id's rows count
    view,     \* [phase, id, life, stored, got, whole]: trafficAt
    forgot,   \* whether a deletion has yet to forget the id it freed
    counted   \* every line counted and not given up since: [line, id]

trafficVars == <<minute, left, apps, lives, log, feed, seen, table, line, snap,
                 minutes, flush, rows, view, forgot, counted>>

Ids == 1 .. MaxId
Lives == 1 .. MaxLives
Lines == 1 .. MaxLines
Uncounted == [i \in Ids |-> {}]
NoLine == [n |-> 0, phase |-> "none"]
NoFlush == [phase |-> "idle", taken |-> Uncounted, until |-> 0, last |-> FALSE]
NoView == [phase |-> "idle", id |-> 0, life |-> 0, stored |-> {}, got |-> {}, twice |-> FALSE, whole |-> {}]
Goroutines == {"reader", "flusher"}

Owners == [l \in Lives |-> IF \E i \in Ids : apps[i] = l THEN CHOOSE i \in Ids : apps[i] = l ELSE 0]
Use(what) == left[what] > 0 /\ left' = [left EXCEPT ![what] = @ - 1]

-----------------------------------------------------------------------------

(* record: what lies not after the moment the reading resumed was counted. *)
NewLine(l) == l.at > feed.from

(* A write that failed: its minutes go back, and what was counted into     *)
(* them meanwhile is kept too.                                             *)
PutBack(m, taken) == [i \in Ids |-> m[i] \cup taken[i]]

(* Mutant: a reader does not wait for a flush.                             *)
MayViewAlways == TRUE

(* trafficAt holds the lock that flushTraffic takes whole.                 *)
MayView == flush.phase \notin {"taken", "written"}

-----------------------------------------------------------------------------
TrafficInit ==
    /\ minute = 1 /\ left \in TrafficBudgets
    /\ apps = [i \in Ids |-> IF i = 1 THEN 1 ELSE 0] /\ lives = 1
    /\ log = <<>>
    /\ feed = [open |-> FALSE, from |-> 0, next |-> 1]
    /\ seen = 0
    /\ table = [owners |-> [l \in Lives |-> 0], fresh |-> FALSE]
    /\ line = NoLine
    /\ snap = [g \in Goroutines |-> <<>>]
    /\ minutes = Uncounted /\ flush = NoFlush /\ rows = Uncounted
    /\ view = NoView /\ forgot = 0 /\ counted = {}

-----------------------------------------------------------------------------
(* Outside the recorder.                                                   *)

TrafficTick ==
    /\ Use("ticks") /\ minute' = minute + 1
    /\ table' = [table EXCEPT !.fresh = FALSE]
    /\ UNCHANGED <<apps, lives, log, feed, seen, line, snap, minutes, flush, rows, view, forgot, counted>>

(* The proxy logs a request for a hostname that is, or was, served.  Lines *)
(* of two requests may be written in the other order.                      *)
ProxyLogs(l, at) ==
    /\ Len(log) < MaxLines /\ l <= lives /\ at \in {minute - 1, minute} \ {0}
    /\ log' = Append(log, [life |-> l, at |-> at, written |-> minute])
    /\ UNCHANGED <<minute, left, apps, lives, feed, seen, table, line, snap, minutes, flush, rows, view, forgot, counted>>

CreateApplication(i) ==
    /\ lives < MaxLives /\ apps[i] = 0 /\ \A j \in Ids : j < i => apps[j] # 0
    /\ lives' = lives + 1 /\ apps' = [apps EXCEPT ![i] = lives + 1]
    /\ UNCHANGED <<minute, left, log, feed, seen, table, line, snap, minutes, flush, rows, view, forgot, counted>>

(* DeleteApplication takes the row and, with it, the samples.              *)
DeleteRow(i) ==
    /\ Use("deletes") /\ apps[i] # 0 /\ forgot = 0
    /\ apps' = [apps EXCEPT ![i] = 0] /\ rows' = [rows EXCEPT ![i] = {}]
    /\ forgot' = i
    /\ counted' = {c \in counted : ~(c.id = i /\ c.line \in rows[i])}
    /\ UNCHANGED <<minute, lives, log, feed, seen, table, line, snap, minutes, flush, view>>

Forget ==
    /\ forgot # 0 /\ forgot' = 0
    /\ minutes' = [minutes EXCEPT ![forgot] = {}]
    /\ table' = [table EXCEPT !.fresh = FALSE]
    /\ counted' = {c \in counted : ~(c.id = forgot /\ c.line \in minutes[forgot])}
    /\ UNCHANGED <<minute, left, apps, lives, log, feed, seen, line, snap, flush, rows, view>>

-----------------------------------------------------------------------------
(* The reader.                                                             *)

(* followProxyOnce: the log from the moment the last reading ended, which  *)
(* Docker repeats whole.                                                   *)
OpenLog ==
    /\ ~feed.open /\ line = NoLine /\ flush.last = FALSE
    /\ feed' = [feed EXCEPT !.open = TRUE,
                   !.next = 1 + Cardinality({n \in DOMAIN log : log[n].written < feed.from})]
    /\ UNCHANGED <<minute, left, apps, lives, log, seen, table, line, snap, minutes, flush, rows, view, forgot, counted>>

LogEnds ==
    /\ Use("cuts") /\ feed.open /\ line = NoLine
    /\ feed' = [feed EXCEPT !.open = FALSE, !.from = IF seen > @ THEN seen ELSE @]
    /\ UNCHANGED <<minute, apps, lives, log, seen, table, line, snap, minutes, flush, rows, view, forgot, counted>>

(* recordAccess: a stale table is read again first.                        *)
ReadLine ==
    /\ feed.open /\ line = NoLine /\ feed.next <= Len(log)
    /\ feed' = [feed EXCEPT !.next = @ + 1]
    /\ line' = [n |-> feed.next, phase |-> IF table.fresh THEN "record" ELSE "refresh"]
    /\ UNCHANGED <<minute, left, apps, lives, log, seen, table, snap, minutes, flush, rows, view, forgot, counted>>

(* record: the line is counted for the owner of its hostname.              *)
Record ==
    /\ line.phase = "record" /\ line' = NoLine
    /\ LET l == log[line.n]
           id == table.owners[l.life]
       IN IF ~NewLine(l) THEN UNCHANGED <<seen, minutes, counted>>
          ELSE /\ seen' = IF l.at > seen THEN l.at ELSE seen
               /\ IF id = 0 THEN UNCHANGED <<minutes, counted>>
                  ELSE /\ minutes' = [minutes EXCEPT ![id] = @ \cup {line.n}]
                       /\ counted' = counted \cup {[line |-> line.n, id |-> id]}
    /\ UNCHANGED <<minute, left, apps, lives, log, feed, table, snap, flush, rows, view, forgot>>

(* refreshTrafficOwners: the database is read, then the table replaced and *)
(* what is counted for ids without an application forgotten; a read that   *)
(* fails leaves the table and calls it fresh.                              *)
Asks(g) == IF g = "reader" THEN line.phase = "refresh" ELSE flush.phase = "refresh"

Refreshed(g) ==
    IF g = "reader" THEN line' = [line EXCEPT !.phase = "record"] /\ UNCHANGED flush
    ELSE flush' = [flush EXCEPT !.phase = "take"] /\ UNCHANGED line

RefreshRead(g) ==
    /\ Asks(g) /\ snap[g] = <<>>
    /\ snap' = [snap EXCEPT ![g] = <<Owners, {i \in Ids : apps[i] # 0}>>]
    /\ UNCHANGED <<minute, left, apps, lives, log, feed, seen, table, line, minutes, flush, rows, view, forgot, counted>>

RefreshFails(g) ==
    /\ Asks(g) /\ snap[g] = <<>> /\ Use("faults")
    /\ table' = [table EXCEPT !.fresh = TRUE] /\ Refreshed(g)
    /\ UNCHANGED <<minute, apps, lives, log, feed, seen, snap, minutes, rows, view, forgot, counted>>

RefreshStore(g) ==
    /\ Asks(g) /\ snap[g] # <<>>
    /\ table' = [owners |-> snap[g][1], fresh |-> TRUE]
    /\ minutes' = [i \in Ids |-> IF i \in snap[g][2] THEN minutes[i] ELSE {}]
    /\ counted' = {c \in counted : ~(c.id \notin snap[g][2] /\ c.line \in minutes[c.id])}
    /\ snap' = [snap EXCEPT ![g] = <<>>] /\ Refreshed(g)
    /\ UNCHANGED <<minute, left, apps, lives, log, feed, seen, rows, view, forgot>>

-----------------------------------------------------------------------------
(* The flusher.                                                            *)

FlushBegin ==
    /\ flush.phase = "idle" /\ Use("flushes")
    /\ flush' = [NoFlush EXCEPT !.phase = "refresh", !.until = minute]
    /\ UNCHANGED <<minute, apps, lives, log, feed, seen, table, line, snap, minutes, rows, view, forgot, counted>>

Ended(i) == {n \in minutes[i] : log[n].at < flush.until}

FlushTake ==
    /\ flush.phase = "take" /\ view.phase # "reading"
    /\ flush' = [flush EXCEPT !.phase = "taken", !.taken = [i \in Ids |-> Ended(i)]]
    /\ minutes' = [i \in Ids |-> minutes[i] \ Ended(i)]
    /\ UNCHANGED <<minute, left, apps, lives, log, feed, seen, table, line, snap, rows, view, forgot, counted>>

(* AddTrafficSamples is one transaction: a row of an id that no            *)
(* application has fails it.                                               *)
Referenced == \A i \in Ids : flush.taken[i] # {} => apps[i] # 0

FlushAdd ==
    /\ flush.phase = "taken" /\ Referenced
    /\ rows' = [i \in Ids |-> rows[i] \cup flush.taken[i]]
    /\ flush' = [flush EXCEPT !.phase = "written", !.taken = Uncounted]
    /\ UNCHANGED <<minute, left, apps, lives, log, feed, seen, table, line, snap, minutes, view, forgot, counted>>

FlushFails ==
    /\ flush.phase = "taken"
    /\ \/ ~Referenced /\ UNCHANGED left
       \/ Referenced /\ Use("faults")
    /\ minutes' = PutBack(minutes, flush.taken)
    /\ flush' = [flush EXCEPT !.phase = "written", !.taken = Uncounted]
    /\ UNCHANGED <<minute, apps, lives, log, feed, seen, table, line, snap, rows, view, forgot, counted>>

(* The lock is released; after a last flush the process is gone.           *)
FlushEnd ==
    /\ flush.phase = "written" /\ ~flush.last /\ flush' = NoFlush
    /\ UNCHANGED <<minute, left, apps, lives, log, feed, seen, table, line, snap, minutes, rows, view, forgot, counted>>

(* A stop flushes the current minutes too, with the reader gone.           *)
Stop ==
    /\ Use("stops") /\ flush.phase = "idle"
    /\ line' = NoLine /\ snap' = [g \in Goroutines |-> <<>>]
    /\ feed' = [feed EXCEPT !.open = FALSE]
    /\ flush' = [NoFlush EXCEPT !.phase = "refresh", !.until = minute + 1, !.last = TRUE]
    /\ UNCHANGED <<minute, apps, lives, log, seen, table, minutes, rows, view, forgot, counted>>

Gone ==
    /\ feed' = [open |-> FALSE, from |-> minute, next |-> 1]
    /\ seen' = 0 /\ table' = [owners |-> [l \in Lives |-> 0], fresh |-> FALSE]
    /\ line' = NoLine /\ snap' = [g \in Goroutines |-> <<>>]
    /\ minutes' = Uncounted /\ flush' = NoFlush /\ view' = NoView /\ forgot' = 0
    /\ counted' = {c \in counted : c.line \in rows[c.id]}
    /\ UNCHANGED <<minute, apps, lives, log, rows>>

TrafficRestart == flush.phase = "written" /\ flush.last /\ Gone /\ UNCHANGED left
Crash == Use("stops") /\ Gone

-----------------------------------------------------------------------------
(* A reader of an application's traffic.                                   *)

ViewRows(i) ==
    /\ view.phase = "idle" /\ Use("views") /\ apps[i] # 0 /\ MayView
    /\ view' = [NoView EXCEPT !.phase = "reading", !.id = i, !.life = apps[i], !.stored = rows[i]]
    /\ UNCHANGED <<minute, apps, lives, log, feed, seen, table, line, snap, minutes, flush, rows, forgot, counted>>

ViewMinutes ==
    /\ view.phase = "reading"
    /\ view' = [view EXCEPT !.phase = "done",
                   !.got = view.stored \cup minutes[view.id],
                   !.twice = view.stored \cap minutes[view.id] # {},
                   !.whole = {c.line : c \in {d \in counted : d.id = view.id}}]
    /\ UNCHANGED <<minute, left, apps, lives, log, feed, seen, table, line, snap, minutes, flush, rows, forgot, counted>>

ViewEnd ==
    /\ view.phase = "done" /\ view' = NoView
    /\ UNCHANGED <<minute, left, apps, lives, log, feed, seen, table, line, snap, minutes, flush, rows, forgot, counted>>

TrafficNext ==
    \/ TrafficTick \/ \E l \in Lives, at \in 0 .. minute : ProxyLogs(l, at)
    \/ \E i \in Ids : CreateApplication(i) \/ DeleteRow(i) \/ ViewRows(i)
    \/ Forget \/ OpenLog \/ LogEnds \/ ReadLine \/ Record
    \/ \E g \in Goroutines : RefreshRead(g) \/ RefreshFails(g) \/ RefreshStore(g)
    \/ FlushBegin \/ FlushTake \/ FlushAdd \/ FlushFails \/ FlushEnd
    \/ Stop \/ TrafficRestart \/ Crash \/ ViewMinutes \/ ViewEnd

TrafficSpec == TrafficInit /\ [][TrafficNext]_trafficVars

-----------------------------------------------------------------------------
(* Properties.                                                             *)

Places(n) ==
    {p \in {"memory", "taken", "stored"} \X Ids :
        \/ p[1] = "memory" /\ n \in minutes[p[2]]
        \/ p[1] = "taken" /\ n \in flush.taken[p[2]]
        \/ p[1] = "stored" /\ n \in rows[p[2]]}

(* A request is counted once at most, however often the log is opened      *)
(* again, minutes are put back and ids change hands (record, flushTraffic).*)
CountedOnce == \A n \in DOMAIN log : Cardinality(Places(n)) <= 1

(* What was counted stays counted until its application is deleted or the  *)
(* agent dies: a write that fails loses none of it (flushTraffic).         *)
StaysCounted == \A c \in counted : \E p \in Places(c.line) : p[2] = c.id

(* A reader sees every minute once: none that is between memory and the    *)
(* database is missed or added twice (trafficAt, flushing).                *)
ViewsWhole ==
    view.phase = "done" /\ apps[view.id] = view.life =>
        ~view.twice /\ view.got = view.whole

(* Every request is counted once, stays counted and is shown (record,      *)
(* flushTraffic, trafficAt).                                               *)
RequestsCounted == CountedOnce /\ StaysCounted /\ ViewsWhole
=============================================================================
