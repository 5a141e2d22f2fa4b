----------------------------- MODULE LogArchive -----------------------------
(* The log archive (agent/internal/deploy/logarchive.go,                    *)
(* agent/internal/store/logarchive.go): the end of every run of a container *)
(* is copied out of Docker, by the supervisor and by a stop in the          *)
(* background, by whoever removes a container before it is gone, and at the *)
(* agent's start for the runs nobody copied.  A line is its moment on the   *)
(* clock of its container; a file takes one unit per line.                  *)
EXTENDS Integers, FiniteSets, FiniteSetsExt

CONSTANTS Containers,   \* the replicas of the application under study: 1..n
          Workers,      \* the goroutines that copy
          TailLines,    \* replicaLogLines
          MaxBytes,     \* LogArchiveOptions.MaxBytes
          QuietBytes,   \* what another application's one entry takes
          MaxClock,     \* bound on the moments that pass
          MaxEntries,   \* bound on the entries that are added
          Budgets       \* what happens in a behaviour: see LogAssumption

ASSUME LogAssumption ==
  /\ Containers \subseteq Nat \ {0}
  /\ {TailLines, MaxBytes, QuietBytes, MaxClock, MaxEntries} \subseteq Nat
  /\ TailLines > 0
  /\ \A b \in Budgets : {b.stops, b.faults} \subseteq Nat /\ {b.ends, b.search} \subseteq BOOLEAN
                      /\ b.workers \subseteq Workers /\ b.clock \in 0..MaxClock
                      /\ b.printed \in 0..b.clock /\ b.boxes \subseteq Containers

VARIABLES
  clock, budget,
  desired,  \* the application's desired state; "deleted" once it has no record
  box,      \* each container: [exists, running, finished, bad, lines]
  seen,     \* the supervisor's exitSeen
  stopping, \* a Stop under way: the replicas it has still to stop and copy
  rows,     \* log_archives
  nextId,
  files,    \* the ids whose file is under its final name
  temps,    \* capture-* files: the worker that wrote it, or "left"
  files_mu, \* logArchive.files: a worker, "tend", "purge" or "free"
  work,     \* the copies under way
  agent,    \* "up" or "down"
  missed,   \* archiveMissedRuns: the containers it has still to look at
  tended,   \* the housekeeping of this start has run
  purging,  \* purgeLogs is still to come
  kept, excused  \* history: lines that got an entry, lines whose loss is known

logVars == <<clock, budget, desired, box, seen, stopping, rows, nextId, files, temps,
             files_mu, work, agent, missed, tended, purging, kept, excused>>
disk == <<rows, nextId, files, temps, files_mu>>
watch == <<seen, stopping>>
engine == <<agent, missed, tended, purging>>
history == <<kept, excused>>

Quiet == 0   \* the container of the other application's entry
Times == 1..MaxClock
Lines == Containers \X Times
LinesOf(c, ts) == {<<c, t>> : t \in ts}
Idle == [pc |-> "idle", box |-> 0, removing |-> FALSE, died |-> FALSE,
         through |-> 0, ended |-> 0, over |-> FALSE, lines |-> {}, id |-> 0]

LogInit ==
  /\ budget \in Budgets /\ clock = budget.printed /\ desired = "running"
  /\ box = [c \in Containers |-> [exists |-> c \in budget.boxes, running |-> c \in budget.boxes, finished |-> 0,
                                bad |-> FALSE, lines |-> IF c \in budget.boxes THEN 1..clock ELSE {}]]
  /\ seen = {} /\ stopping = {}
  /\ rows = {[id |-> 1, box |-> Quiet, ended |-> 0, lines |-> {}, size |-> QuietBytes]}
  /\ nextId = 2 /\ files = {1} /\ temps = {} /\ files_mu = "free"
  /\ work = [w \in Workers |-> Idle]
  /\ agent = "up" /\ missed = {} /\ tended = TRUE /\ purging = FALSE
  /\ kept = {} /\ excused = {}

(***************************************************************************)
(* The containers.                                                         *)
(***************************************************************************)

Tick == clock < budget.clock /\ clock' = clock + 1

PrintLine(c) ==
  /\ box[c].exists /\ box[c].running /\ Tick
  /\ box' = [box EXCEPT ![c].lines = @ \cup {clock'}]
  /\ UNCHANGED <<budget, desired, watch, disk, work, engine, history>>

Down(c, bad) == [box EXCEPT ![c].running = FALSE, ![c].finished = clock', ![c].bad = bad]

(* Nobody waits for the exit of a replica that a stop, cut short by the      *)
(* agent's own, left running under a stopped application.                   *)
Exit(c) ==
  /\ box[c].exists /\ box[c].running /\ Tick
  /\ \E bad \in BOOLEAN : box' = Down(c, bad)
  /\ excused' = IF desired = "stopped" /\ c \notin stopping THEN excused \cup LinesOf(c, Times) ELSE excused
  /\ UNCHANGED <<budget, desired, watch, disk, work, engine, kept>>

(***************************************************************************)
(* Who asks for a copy.                                                    *)
(***************************************************************************)

(* The application's lock keeps the supervisor and a stop away from what is *)
(* being retired.                                                           *)
Retiring(c) == \E w \in Workers : work[w].box = c /\ work[w].removing
Managed(c) == agent = "up" /\ box[c].exists /\ ~Retiring(c)

Begin(w, c, removing, died) ==
  /\ w \in budget.workers /\ work[w].pc = "idle"
  /\ work' = [work EXCEPT ![w] = [Idle EXCEPT !.pc = "claim", !.box = c, !.removing = removing, !.died = died]]

(* supervisor.go: the first tick that finds a replica down says why, and    *)
(* copies it; a crash or a kill for its memory is endOf's "died".           *)
SeeExit(w, c) ==
  /\ Managed(c) /\ desired = "running" /\ c \notin seen /\ ~box[c].running
  /\ Begin(w, c, FALSE, box[c].bad)
  /\ seen' = seen \cup {c}
  /\ UNCHANGED <<clock, budget, desired, box, stopping, disk, engine, history>>

Restart(c) ==
  /\ Managed(c) /\ desired = "running" /\ c \in seen /\ ~box[c].running
  /\ box' = [box EXCEPT ![c].running = TRUE]
  /\ seen' = seen \ {c}
  /\ UNCHANGED <<clock, budget, desired, stopping, disk, work, engine, history>>

(* A replica restarted for its health check is copied after the restart.    *)
RestartUnhealthy(w, c) ==
  /\ Managed(c) /\ desired = "running" /\ box[c].running /\ Tick
  /\ box' = [Down(c, FALSE) EXCEPT ![c].running = TRUE]
  /\ Begin(w, c, FALSE, FALSE)
  /\ UNCHANGED <<budget, desired, watch, disk, engine, history>>

(* Stop: the desired state first, then the containers, then their copies.   *)
SetStopped ==
  /\ agent = "up" /\ desired = "running" /\ desired' = "stopped"
  /\ \A c \in Containers : ~Retiring(c)
  /\ stopping' = {c \in Containers : box[c].exists}
  /\ UNCHANGED <<clock, budget, box, seen, disk, work, engine, history>>

StopReplica(w, c) ==
  /\ agent = "up" /\ c \in stopping
  /\ stopping' = stopping \ {c}
  /\ IF box[c].running THEN Tick /\ box' = Down(c, FALSE) ELSE UNCHANGED <<clock, box>>
  /\ Begin(w, c, FALSE, FALSE)
  /\ UNCHANGED <<budget, desired, seen, disk, engine, history>>

(* retireContainer: the container is stopped; when that fails it is copied  *)
(* and removed as it runs.                                                  *)
RetireContainer(w, c) ==
  /\ Managed(c) /\ c \notin stopping
  /\ \E died \in {FALSE, box[c].bad} : Begin(w, c, TRUE, died)
  /\ \/ box[c].running /\ Tick /\ box' = Down(c, FALSE) /\ UNCHANGED budget
     \/ ~box[c].running /\ UNCHANGED <<box, clock, budget>>
     \/ /\ box[c].running /\ budget.faults > 0
        /\ budget' = [budget EXCEPT !.faults = @ - 1]
        /\ UNCHANGED <<box, clock>>
  /\ excused' = IF box'[c].running THEN excused \cup LinesOf(c, Times) ELSE excused
  /\ UNCHANGED <<desired, watch, disk, engine, kept>>

(* archiveMissedRuns: a replica that runs, or one of a stopped application; *)
(* one that is down and should run is the supervisor's.                     *)
MissedRun(w, c) ==
  /\ agent = "up" /\ c \in missed
  /\ missed' = missed \ {c}
  /\ IF box[c].exists /\ (box[c].running \/ desired = "stopped")
     THEN Begin(w, c, FALSE, FALSE)
     ELSE UNCHANGED work
  /\ UNCHANGED <<clock, budget, desired, box, watch, disk, agent, tended, purging, history>>

(***************************************************************************)
(* A copy.                                                                 *)
(***************************************************************************)

RowsOf(c) == {r \in rows : r.box = c}

(* LogArchivedThrough: the later of the end and the last line of the newest *)
(* entry.                                                                   *)
ArchivedThrough(c) ==
  IF RowsOf(c) = {} THEN 0
  ELSE LET newest == CHOOSE r \in RowsOf(c) : \A o \in RowsOf(c) : o.id <= r.id
       IN  Max({newest.ended} \cup newest.lines)

(* logArchive.claim: one copy of a container at a time.                     *)
Free(c) == \A w \in Workers : work[w].box = c => work[w].pc \in {"claim", "idle", "remove"}

(* The goroutine lets go of the claim; one that removes goes on to remove.  *)
Released(w) == IF work[w].removing THEN [Idle EXCEPT !.pc = "remove", !.box = work[w].box, !.removing = TRUE] ELSE Idle

(* archiveOutput up to the window it reads: nothing is copied of a run that *)
(* has not ended, unless the container goes.                                *)
Inspect(w) ==
  /\ work[w].pc = "claim" /\ Free(work[w].box)
  /\ LET c == work[w].box
         b == box[c]
         t == ArchivedThrough(c)
         over == b.finished > t
     IN  work' = [work EXCEPT ![w] =
           IF ~b.exists \/ desired = "deleted" \/ (~work[w].removing /\ ~over) THEN Released(w)
           ELSE [@ EXCEPT !.pc = "read", !.through = t, !.over = over,
                          !.ended = IF work[w].removing /\ (b.running \/ b.finished = 0) THEN clock ELSE b.finished]]
  /\ UNCHANGED <<clock, budget, desired, box, watch, disk, engine, history>>

(* The window: from after the last copy, up to the stop when the container  *)
(* stays.                                                                   *)
Window(w) ==
  {t \in box[work[w].box].lines :
     /\ t > work[w].through
     /\ work[w].removing \/ t <= work[w].ended}

(* logTail: the last lines of it.                                           *)
ReadTail(lines) == {t \in lines : Cardinality({u \in lines : u > t}) < TailLines}

(* ReadLogs and the temporary file.  A run that printed nothing gets an     *)
(* entry when it died; anything else without lines gets none.               *)
ReadLogs(w) ==
  /\ work[w].pc = "read"
  /\ LET c == work[w].box
         window == Window(w)
         lines == ReadTail(window)
     IN  IF ~box[c].exists THEN work' = [work EXCEPT ![w] = Released(w)] /\ UNCHANGED <<temps, excused>>
         ELSE IF lines = {} /\ ~(work[w].over /\ work[w].died)
         THEN work' = [work EXCEPT ![w] = Released(w)] /\ UNCHANGED <<temps, excused>>
         ELSE /\ work' = [work EXCEPT ![w].pc = "record", ![w].lines = lines,
                                             ![w].through = 0, ![w].over = FALSE, ![w].died = FALSE]
              /\ temps' = IF lines = {} THEN temps ELSE temps \cup {w}
              /\ excused' = excused \cup LinesOf(c, window \ lines)
  /\ UNCHANGED <<clock, budget, desired, box, watch, rows, nextId, files, files_mu, engine, kept>>

(* A copy that cannot be made is logged and nothing else.                   *)
CopyFails(w) ==
  /\ work[w].pc \in {"claim", "read"} /\ budget.faults > 0
  /\ budget' = [budget EXCEPT !.faults = @ - 1]
  /\ LET c == work[w].box
     IN  /\ excused' = excused \cup LinesOf(c, box[c].lines)
         /\ work' = [work EXCEPT ![w] = Released(w)]
  /\ UNCHANGED <<clock, desired, box, watch, disk, engine, kept>>

(* addLogEntry, under the files lock: the row, which an application deleted *)
(* meanwhile refuses.                                                       *)
AddLogArchive(w) ==
  /\ work[w].pc = "record" /\ files_mu = "free" /\ nextId <= MaxEntries
  /\ IF desired = "deleted"
     THEN /\ work' = [work EXCEPT ![w] = Released(w)]
          /\ temps' = temps \ {w}
          /\ UNCHANGED <<rows, nextId, files_mu>>
     ELSE /\ rows' = rows \cup {[id |-> nextId, box |-> work[w].box, ended |-> work[w].ended,
                                lines |-> work[w].lines, size |-> Cardinality(work[w].lines)]}
          /\ nextId' = nextId + 1 /\ files_mu' = w
          /\ work' = [work EXCEPT ![w].pc = "rename", ![w].id = nextId]
          /\ UNCHANGED temps
  /\ UNCHANGED <<clock, budget, desired, box, watch, files, engine, history>>

(* The rename, which fails when the temporary file is gone: the row goes.   *)
(* An entry without lines has no file to rename.                            *)
RenameFile(w) ==
  /\ work[w].pc = "rename"
  /\ LET here == work[w].lines = {} \/ w \in temps
     IN  /\ IF here
            THEN /\ files' = IF work[w].lines = {} THEN files ELSE files \cup {work[w].id}
                 /\ kept' = kept \cup LinesOf(work[w].box, work[w].lines)
                 /\ work' = [work EXCEPT ![w].pc = "enforce", ![w].lines = {}, ![w].id = 0, ![w].ended = 0]
                 /\ UNCHANGED <<rows, excused>>
            ELSE /\ rows' = {r \in rows : r.id # work[w].id}
                 /\ excused' = excused \cup LinesOf(work[w].box, work[w].lines)
                 /\ work' = [work EXCEPT ![w] = Released(w)]
                 /\ UNCHANGED <<files, kept>>
         /\ temps' = temps \ {w}
  /\ files_mu' = "free"
  /\ UNCHANGED <<clock, budget, desired, box, watch, nextId, engine>>

Held(app, rs) == MapThenSumSet(LAMBDA r : r.size, {r \in rs : (r.box = Quiet) = (app = "quiet")})
Total(rs) == Held("busy", rs) + Held("quiet", rs)

(* PruneLogArchivesTo, one round: the oldest entries of the application     *)
(* that holds the most, until that is another one or the rest fits.         *)
Round(rs, limit) ==
  LET most == IF Held("quiet", rs) > Held("busy", rs) THEN "quiet" ELSE "busy"
      mine == {r \in rs : (r.box = Quiet) = (most = "quiet") /\ r.size > 0}
      next == Held(IF most = "quiet" THEN "busy" ELSE "quiet", rs)
      \* what is left of mine after the entries with at most this id are gone
      after(id) == {r \in mine : r.id > id}
      cut == {r \in mine : \A o \in mine : o.id < r.id =>
                /\ Total(rs) - (Held(most, rs) - Held(most, after(o.id))) > limit
                /\ Held(most, after(o.id)) >= next}
  IN  rs \ cut

(* enforceLogSize after a copy, under the files lock.                       *)
EnforceLogSize(w) ==
  /\ work[w].pc = "enforce" /\ files_mu \in {"free", w}
  /\ IF Total(rows) <= MaxBytes
     THEN /\ files_mu' = "free" /\ work' = [work EXCEPT ![w] = Released(w)]
          /\ UNCHANGED <<rows, files, excused>>
     ELSE /\ files_mu' = w
          /\ rows' = Round(rows, MaxBytes)
          /\ LET gone == rows \ rows'
             IN  /\ files' = files \ {r.id : r \in gone}
                 /\ excused' = excused \cup UNION {LinesOf(r.box, r.lines) : r \in gone}
          /\ UNCHANGED work
  /\ UNCHANGED <<clock, budget, desired, box, watch, nextId, temps, engine, kept>>

(* removeContainer, once the copy is over.                                  *)
RemoveContainer(w) ==
  /\ work[w].pc = "remove"
  /\ box' = [box EXCEPT ![work[w].box].exists = FALSE, ![work[w].box].running = FALSE]
  /\ work' = [work EXCEPT ![w] = Idle]
  /\ UNCHANGED <<clock, budget, desired, watch, disk, engine, history>>

(***************************************************************************)
(* The application's end, housekeeping, stops and starts.                  *)
(***************************************************************************)

(* DeleteApplication: its entries go with its record; purgeLogs follows.    *)
DeleteApplication ==
  /\ agent = "up" /\ budget.ends /\ desired # "deleted" /\ \A c \in Containers : ~box[c].exists
  /\ desired' = "deleted" /\ purging' = TRUE
  /\ rows' = {r \in rows : r.box = Quiet}
  /\ excused' = Lines
  /\ UNCHANGED <<clock, budget, box, watch, nextId, files, temps, files_mu, work, agent, missed, tended, kept>>

PurgeLogs ==
  /\ agent = "up" /\ purging /\ files_mu = "free"
  /\ files' = files \cap {1} /\ purging' = FALSE
  /\ UNCHANGED <<clock, budget, desired, box, watch, rows, nextId, temps, files_mu, work, agent, missed, tended, history>>

(* tidyLogFiles: files without an entry and entries without their file go;  *)
(* so do unfinished files, at the start whoever is writing them.            *)
TidyRows(rs) == {r \in rs : r.size = 0 \/ r.id \in files}

TendLogArchive ==
  /\ agent = "up" /\ ~tended /\ missed = {} /\ files_mu = "free" /\ Total(rows) <= MaxBytes
  /\ tended' = TRUE
  /\ files' = files \cap {r.id : r \in rows}
  /\ rows' = TidyRows(rows)
  /\ temps' = {}
  /\ UNCHANGED <<clock, budget, desired, box, watch, nextId, files_mu, work, agent, missed, purging, history>>

(* Its first half: the size, when a copy was cut short before it saw to it. *)
TendSize ==
  /\ agent = "up" /\ ~tended /\ missed = {} /\ files_mu = "free" /\ Total(rows) > MaxBytes
  /\ rows' = Round(rows, MaxBytes)
  /\ LET gone == rows \ rows'
     IN  /\ files' = files \ {r.id : r \in gone}
         /\ excused' = excused \cup UNION {LinesOf(r.box, r.lines) : r \in gone}
  /\ UNCHANGED <<clock, budget, desired, box, watch, nextId, temps, files_mu, work, engine, kept>>

(* Age: an entry past its retention goes.  Later rounds of the housekeeping *)
(* remove no unfinished file that a copy could still be writing.            *)
PruneOld ==
  /\ agent = "up" /\ budget.ends /\ tended /\ files_mu = "free"
  /\ \E r \in rows :
       /\ r.box # Quiet /\ \A o \in rows : o.box # Quiet => r.ended <= o.ended
       /\ clock = budget.clock
       /\ rows' = rows \ {r} /\ files' = files \ {r.id}
       /\ excused' = excused \cup LinesOf(r.box, r.lines)
  /\ UNCHANGED <<clock, budget, desired, box, watch, nextId, temps, files_mu, work, engine, kept>>

AgentStops ==
  /\ agent = "up" /\ budget.stops > 0
  /\ agent' = "down" /\ budget' = [budget EXCEPT !.stops = @ - 1]
  /\ work' = [w \in Workers |-> Idle]
  /\ seen' = {} /\ stopping' = {} /\ files_mu' = "free" /\ purging' = FALSE /\ missed' = {} /\ tended' = FALSE
  /\ temps' = IF temps = {} THEN {} ELSE {"left"}
  /\ excused' = excused \cup
       UNION {LinesOf(work[w].box, work[w].lines) : w \in {v \in Workers : work[v].pc = "rename"}}
  /\ UNCHANGED <<clock, desired, box, rows, nextId, files, kept>>

AgentStarts ==
  /\ agent = "down" /\ agent' = "up"
  /\ missed' = {c \in Containers : box[c].exists}
  /\ UNCHANGED <<clock, budget, desired, box, watch, disk, work, tended, purging, history>>

(***************************************************************************)
(* Everything together.                                                    *)
(***************************************************************************)

CopyStep(w) ==
  Inspect(w) \/ ReadLogs(w) \/ AddLogArchive(w) \/ RenameFile(w)
  \/ EnforceLogSize(w) \/ RemoveContainer(w)

ContainerStep(c) == PrintLine(c) \/ Exit(c)

Asked(w, c) ==
  SeeExit(w, c) \/ RestartUnhealthy(w, c) \/ StopReplica(w, c) \/ RetireContainer(w, c) \/ MissedRun(w, c)

LogNext ==
  \/ \E c \in Containers : ContainerStep(c) \/ Restart(c)
  \/ \E w \in Workers, c \in Containers : Asked(w, c)
  \/ \E w \in Workers : CopyStep(w) \/ CopyFails(w)
  \/ SetStopped \/ DeleteApplication \/ PurgeLogs \/ TendSize \/ TendLogArchive \/ PruneOld
  \/ AgentStops \/ AgentStarts

(* The agent's goroutines run on, and its service manager starts it again;  *)
(* containers and people do what they like.                                 *)
LogProgress ==
  \/ \E w \in Workers : CopyStep(w)
  \/ \E w \in Workers, c \in Containers : SeeExit(w, c) \/ StopReplica(w, c) \/ MissedRun(w, c)
  \/ PurgeLogs \/ TendSize \/ TendLogArchive \/ AgentStarts

(***************************************************************************)
(* Properties.                                                             *)
(***************************************************************************)

IdsOf(rs) == {r.id : r \in rs}

(* However often a container is looked at, by however many goroutines, a    *)
(* line is in one entry at most (logArchive.busy, LogArchivedThrough).      *)
KeptOnce ==
  \A r, s \in rows : r # s /\ r.box = s.box => r.lines \cap s.lines = {}

(* What a container printed is in the archive before the container is gone, *)
(* unless the copy failed, was cut to its bounds or made room since         *)
(* (removeContainer, archiveLogs).                                          *)
NothingLost ==
  \A c \in Containers : ~box[c].exists => LinesOf(c, box[c].lines) \subseteq kept \cup excused

(* With no write under way the directory and the database agree, after a    *)
(* stop in the middle of one too (addLogEntry, tidyLogFiles).               *)
FilesAgree ==
  agent = "up" /\ tended /\ ~purging /\ files_mu = "free" =>
    files = IdsOf({r \in rows : r.size > 0})

(* An application that prints much makes room out of its own entries: what  *)
(* the quiet one has kept goes only when it holds the most                  *)
(* (PruneLogArchivesTo).                                                    *)
QuietStays ==
  [][1 \in IdsOf(rows) /\ 1 \notin IdsOf(rows') => QuietBytes >= Held("busy", rows')]_logVars

Covered(c) ==
  LinesOf(c, {t \in box[c].lines : t <= box[c].finished})
     \subseteq UNION {LinesOf(r.box, r.lines) : r \in RowsOf(c)} \cup excused

(* A run that ended is archived in the end, whoever had to notice it: the   *)
(* supervisor, a stop, or the next agent (archiveMissedRuns).               *)
RunsArchived == \A c \in Containers : []<>(Covered(c) \/ nextId > MaxEntries)

=============================================================================
