------------------------------ MODULE LogSearch ------------------------------
(* A search through an application's output, page by page                   *)
(* (agent/internal/deploy/logsearch.go, agent/internal/api/routes_logs.go,  *)
(* cli/internal/commands/logs_archive.go), while the archive of LogArchive  *)
(* goes on: it reads the logs of the replicas that exist, from the highest  *)
(* index down, and then the entries from the newest to the oldest.  Every   *)
(* line matches; a page is bounded in lines and in what it reads.           *)
EXTENDS LogArchive

CONSTANTS PageLimit,    \* LogSearch.Limit
          SearchBudget  \* searchBudget, in lines

ASSUME SearchAssumption == PageLimit \in Nat \ {0} /\ SearchBudget \in Nat \ {0}

VARIABLE srch  \* the search: the request under way, its cursor, what was found

searchVars == <<logVars, srch>>

(* searchCursor: the replica and the lines before a time (0: all of them),  *)
(* or the entries up to an id and of that one the lines before a position   *)
(* (-1: all of them).                                                       *)
AtReplica(r, before) == [live |-> TRUE, replica |-> r, before |-> before, entry |-> 0, line |-> -1]
AtEntry(id, line) == [live |-> FALSE, replica |-> 0, before |-> 0, entry |-> id, line |-> line]
Newest == MaxEntries + 1

NoSearch == [pc |-> "idle", cur |-> AtReplica(0, 0), got |-> 0, bytes |-> 0, left |-> {}, at |-> 0,
             through |-> 0, entries |-> {}, found |-> {}, goal |-> {}]

SearchInit == LogInit /\ srch = NoSearch

Full == srch.got >= PageLimit \/ srch.bytes >= SearchBudget

(* lastMatches: the newest of the lines, at most as many as fit.            *)
Latest(lines) == {t \in lines : Cardinality({u \in lines : u > t}) < PageLimit - srch.got}

Found(s, c, hits, read) ==
  [s EXCEPT !.found = @ \cup LinesOf(c, hits), !.got = @ + Cardinality(hits), !.bytes = @ + Cardinality(read)]

SearchStart ==
  /\ srch.pc = "idle" /\ budget.search
  /\ srch' = [NoSearch EXCEPT !.pc = "ask",
                !.goal = UNION ({LinesOf(c, box[c].lines) : c \in {b \in Containers : box[b].exists}}
                                \cup {LinesOf(r.box, r.lines) : r \in {s \in rows : s.box # Quiet}})]
  /\ UNCHANGED logVars

(* queryLogs and SearchLogs: one request, from the cursor of the last.      *)
SearchPage ==
  /\ srch.pc = "ask"
  /\ srch' = IF desired = "deleted" THEN [srch EXCEPT !.pc = "done"]
             ELSE [srch EXCEPT !.pc = IF srch.cur.live THEN "live" ELSE "list", !.got = 0, !.bytes = 0,
                               !.left = {c \in Containers : box[c].exists}]
  /\ UNCHANGED logVars

(* Mutant: the replica the cursor stopped in counts as done.                *)
AheadPast == {r \in srch.left : srch.cur.replica = 0 \/ r < srch.cur.replica}

(* The replicas the cursor has not passed.                                  *)
Ahead == {r \in srch.left : srch.cur.replica = 0 \/ r <= srch.cur.replica}

Before(r) == IF r = srch.cur.replica THEN srch.cur.before ELSE 0

SearchReplica ==
  /\ srch.pc = "live"
  /\ srch' = IF Ahead = {} THEN [srch EXCEPT !.pc = "list", !.cur = AtEntry(Newest, -1)]
             ELSE LET r == Max(Ahead)
                  IN  IF Full THEN [srch EXCEPT !.pc = "ask", !.cur = AtReplica(r, Before(r))]
                      ELSE [srch EXCEPT !.pc = "read", !.at = r, !.through = ArchivedThrough(r)]
  /\ UNCHANGED logVars

(* searchContainer: from where the last archived run ended.  A container    *)
(* removed meanwhile has its output in the archive.                         *)
SearchContainer ==
  /\ srch.pc = "read"
  /\ LET r == srch.at
         lines == {t \in box[r].lines : t > srch.through /\ (Before(r) = 0 \/ t < Before(r))}
         hits == Latest(lines)
         next == [Found(srch, r, hits, lines) EXCEPT !.pc = "live", !.left = srch.left \ {r}]
     IN  srch' = IF ~box[r].exists THEN [srch EXCEPT !.pc = "live", !.left = srch.left \ {r}]
                 ELSE IF hits = lines THEN next
                 ELSE [next EXCEPT !.pc = "ask", !.cur = AtReplica(r, Min(hits))]
  /\ UNCHANGED logVars

SearchList ==
  /\ srch.pc = "list"
  /\ srch' = [srch EXCEPT !.pc = "entries",
                !.entries = {r \in rows : r.box # Quiet /\ r.size > 0 /\ r.id <= srch.cur.entry}]
  /\ UNCHANGED logVars

UpTo(a) == IF a.id = srch.cur.entry THEN srch.cur.line ELSE -1
Position(a, t) == Cardinality({u \in a.lines : u < t})

(* searchEntry: the lines before the cursor's, and where the next request   *)
(* goes on when not all of them fit.                                        *)
ReadEntry(a) ==
  LET lines == {t \in a.lines : UpTo(a) < 0 \/ Position(a, t) < UpTo(a)}
      hits == Latest(lines)
      next == [Found(srch, a.box, hits, a.lines) EXCEPT !.entries = srch.entries \ {a}]
  IN  IF hits = lines THEN next
      ELSE [next EXCEPT !.pc = "ask", !.cur = AtEntry(a.id, Position(a, Min(hits)))]

(* An entry whose file is not there is skipped: the retention took it, or   *)
(* its copy has not renamed it yet.                                         *)
SearchEntry ==
  /\ srch.pc = "entries"
  /\ IF srch.entries = {} THEN srch' = [srch EXCEPT !.pc = "done"] /\ UNCHANGED excused
     ELSE LET a == CHOOSE r \in srch.entries : \A o \in srch.entries : o.id <= r.id
          IN  IF Full
              THEN srch' = [srch EXCEPT !.pc = "ask", !.cur = AtEntry(a.id, UpTo(a))] /\ UNCHANGED excused
              ELSE IF a.id \notin files
              THEN srch' = [srch EXCEPT !.entries = @ \ {a}] /\ excused' = excused \cup LinesOf(a.box, a.lines)
              ELSE srch' = ReadEntry(a) /\ UNCHANGED excused
  /\ UNCHANGED <<clock, budget, desired, box, watch, disk, work, engine, kept>>

SearchStep == SearchPage \/ SearchReplica \/ SearchContainer \/ SearchList \/ SearchEntry

SearchNext == (LogNext /\ UNCHANGED srch) \/ SearchStart \/ SearchStep
(* A search that came to its end found every line there was when it began,  *)
(* although the lines moved from the containers into the archive under it   *)
(* (SearchLogs): except the ones that were removed, or that it met between  *)
(* their row and their file.                                                *)
SearchComplete == srch.pc = "done" => srch.goal \subseteq srch.found \cup excused

(* What a container printed is kept once, in files that are there, and is  *)
(* found (archiveLogs, SearchLogs).                                        *)
LogsKeptAndFound == KeptOnce /\ NothingLost /\ FilesAgree /\ SearchComplete
==============================================================================
