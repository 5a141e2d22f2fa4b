------------------------------- MODULE Backups -------------------------------
(* Backups the agent keeps: of one application's volumes and of its own     *)
(* state (agent/internal/deploy/backups.go, backups_before.go,              *)
(* backups_adopt.go, volumes.go, agent/internal/store/backups.go,           *)
(* agent/internal/backup/storage.go).  A backup is a row, the files under   *)
(* its id in the directory and in the bucket, and the goroutine that takes, *)
(* verifies, restores or removes it.  The store answers every call; Docker, *)
(* the directory and the bucket may fail.  What a database holds can be     *)
(* replaced by an earlier copy of it, while the files stay what they are.   *)
EXTENDS Integers, Sequences, FiniteSets, SequencesExt, FiniteSetsExt

CONSTANTS Volumes,          \* the volumes of deploy.yaml, in order
          StopFirst,        \* whether backups.stop is set
          Keep,             \* backups.keep, and what is kept of the state
          FailuresKept,     \* backupFailuresKept
          MaxRuns, MaxRequests, MaxStops, MaxFaults,
          MaxStateRestores, \* how often the database is put back
          Spent             \* what of these bounds is used up at first: [requests, stops, faults, restores]

ASSUME BackupsAssumption ==
  /\ Volumes \in Seq(STRING) /\ IsInjective(Volumes)
  /\ {Keep, FailuresKept, MaxRuns, MaxRequests, MaxStops, MaxFaults,
      MaxStateRestores} \subseteq Nat
  /\ Keep > 0
  /\ StopFirst \in BOOLEAN
  /\ Spent \subseteq [requests : Nat, stops : Nat, faults : Nat, restores : Nat]

VARIABLES
  agent,     \* "up" or "down"
  lock,      \* the application's lock: "free", "backup" or "restore"
  svc,       \* [desired, up, gen (the active deployment), excused]
  data,      \* what each volume holds: Live, Emptied or the id restored into it
  rows,      \* backup_runs
  seq,       \* the last id the database handed out
  prepared,  \* backupSchedule.prepared
  files,     \* the files of each id, per place
  copies,    \* what the database file of a state backup holds
  jobs,      \* the goroutine that takes and finishes each backup
  acts,      \* the one that verifies, restores or removes it
  adopt,     \* AdoptBackups under way: the ids it knows
  due,       \* the schedule fired in (lastTick, minute]
  used,      \* how often each bounded event happened
  made, going, mistaken, read, put   \* history, see below

backupVars == <<agent, lock, svc, data, rows, seq, prepared, files, copies, jobs,
                acts, adopt, due, used, made, going, mistaken, read, put>>
work == <<jobs, acts, adopt>>
history == <<made, going, mistaken, read, put>>
db == <<rows, seq>>

Ids == 1..MaxRuns
Live == 0
Emptied == -1
Places == {"dir", "bucket"}
StateFiles == <<"database", "key">>
FilesOf(owner) == IF owner = "app" THEN Volumes ELSE StateFiles
Names == ToSet(Volumes) \cup ToSet(StateFiles)

NoRow == [status |-> "none", owner |-> "app", activity |-> "", vols |-> {}, restored |-> FALSE]
NoJob == [pc |-> "none", left |-> <<>>, ok |-> TRUE, stopped |-> FALSE, list |-> {}]
NoAct == [pc |-> "none", left |-> <<>>]
NoCopy == [rows |-> [i \in Ids |-> NoRow], seq |-> -1]
NotAdopting == {0}

(* Storage.Open: the directory is asked first, then the bucket.             *)
Readable(id, v) == \E p \in Places : <<p, v>> \in files[id]

(* The database is new, or it was put back from before its first backup,    *)
(* whose files are still there (backups_adopt.go).                          *)
(* made[i]: what was recorded of i when it succeeded; going: the backups    *)
(* whose removal was decided; mistaken: those the database takes for another *)
(* backup, one that is being taken; read[i]: the deployments its archives   *)
(* were read from; put[i]: the volumes restored from it since it was        *)
(* claimed.                                                                 *)
BackupsInit ==
  /\ agent = "up" /\ lock = "free"
  /\ \E run \in BOOLEAN :
       svc = [desired |-> IF run THEN "running" ELSE "stopped", up |-> run, gen |-> 1, excused |-> FALSE]
  /\ data = [v \in ToSet(Volumes) |-> Live]
  /\ rows = [i \in Ids |-> NoRow] /\ seq = 0 /\ prepared = FALSE
  /\ \E forgotten \in SUBSET {1} :
       /\ made = [i \in Ids |-> IF i \in forgotten THEN ToSet(Volumes) ELSE {}]
       /\ files = [i \in Ids |-> Places \X made[i]]
  /\ copies = [i \in Ids |-> NoCopy]
  /\ jobs = [i \in Ids |-> NoJob] /\ acts = [i \in Ids |-> NoAct]
  /\ adopt = NotAdopting /\ due = FALSE
  /\ used \in Spent
  /\ going = {} /\ mistaken = {}
  /\ read = [i \in Ids |-> {}] /\ put = [i \in Ids |-> {}]

-----------------------------------------------------------------------------
(* A call of Docker, the directory or the bucket.                           *)
Call(ok) ==
  IF ok THEN UNCHANGED used
  ELSE used.faults < MaxFaults /\ used' = [used EXCEPT !.faults = @ + 1]

Request == used.requests < MaxRequests /\ used' = [used EXCEPT !.requests = @ + 1]

(* Storage.Prepare: the highest id any place holds files under.             *)
Highest == Max({0} \cup {i \in Ids : files[i] # {}})

(* ReserveBackupRunIDs.                                                     *)
Reserve(n) == Max({n, Highest})

(* Removal of a run's files.  One that fails may have removed some of them. *)
Removed(id, ok, left) == files' = [files EXCEPT ![id] = IF ok THEN {} ELSE @ \cap left]
Remains(id, ok) == IF ok THEN {{}} ELSE {files[id], files[id] \cap ({"bucket"} \X Names)}

Row(owner, st, vols) == [NoRow EXCEPT !.owner = owner, !.status = st, !.vols = vols]

(* beginBackup and StartStateBackup: prepareBackups, the copy of the        *)
(* database for a backup of the state, then the record.  A destination that *)
(* cannot be prepared fails the backup, which is recorded all the same -    *)
(* under an id that files of another one may be kept under.                 *)
Begin(owner, to) ==
  \E ok \in IF prepared THEN {TRUE} ELSE BOOLEAN :
    LET base == IF ok /\ ~prepared THEN Reserve(seq) ELSE seq
        id == base + 1
    IN /\ id \in Ids
       /\ Call(ok)
       /\ prepared' = (prepared \/ ok)
       /\ seq' = id
       /\ rows' = [rows EXCEPT ![id] = Row(owner, "running", {})]
       /\ copies' = IF owner = "state" /\ ok
                    THEN [copies EXCEPT ![id] = [rows |-> rows, seq |-> base]] ELSE copies
       /\ jobs' = [jobs EXCEPT ![id] =
                     [NoJob EXCEPT !.pc = IF ok THEN to ELSE "release",
                                   !.left = FilesOf(owner), !.ok = ok]]
       /\ read' = [read EXCEPT ![id] = {}]
       /\ mistaken' = IF files[id] # {} THEN mistaken \cup {id} ELSE mistaken

(* The lock the backup is started under is its own until it is released.    *)
Held == "backup"

(* StartBackup, by hand: with the application stopped too.                  *)
StartBackup ==
  /\ agent = "up" /\ lock = "free" /\ Begin("app", "before") /\ lock' = Held
  /\ UNCHANGED <<agent, svc, data, files, acts, adopt, due, made, going, put>>

(* scheduleBackups: a busy application keeps its window, a stopped one too. *)
ScheduleBackup ==
  /\ agent = "up" /\ due /\ svc.desired = "running" /\ lock = "free"
  /\ Begin("app", "before") /\ lock' = Held /\ due' = FALSE
  /\ UNCHANGED <<agent, svc, data, files, acts, adopt, made, going, put>>

(* The clock: a minute the schedule fires in.                               *)
FallsDue ==
  /\ agent = "up" /\ ~due /\ seq < MaxRuns /\ Request /\ due' = TRUE
  /\ UNCHANGED <<agent, lock, svc, data, rows, seq, prepared, files, copies, work, history>>

(* StartStateBackup, under stateRunning and no application's lock.          *)
StartStateBackup ==
  /\ agent = "up"
  /\ \A i \in Ids : rows[i].owner = "state" => jobs[i].pc = "none"
  /\ Begin("state", "archive")
  /\ UNCHANGED <<agent, lock, svc, data, files, acts, adopt, due, made, going, put>>

(* backups.before, in the replica or in a container beside it.              *)
RunBefore(id) ==
  /\ jobs[id].pc = "before"
  /\ \E ok \in BOOLEAN :
       /\ Call(ok)
       /\ jobs' = [jobs EXCEPT ![id].pc = IF ~ok THEN "release" ELSE IF StopFirst THEN "stop" ELSE "archive",
                               ![id].ok = ok]
  /\ UNCHANGED <<agent, lock, svc, data, db, prepared, files, copies, acts, adopt, due, history>>

(* stopForBackup: what runs is stopped, and remembered for the restart.     *)
StopForBackup(id) ==
  /\ jobs[id].pc = "stop"
  /\ \E ok \in BOOLEAN :
       /\ Call(ok)
       /\ svc' = [svc EXCEPT !.up = @ /\ ~ok]
       /\ jobs' = [jobs EXCEPT ![id].pc = IF ok THEN "archive" ELSE "release",
                               ![id].ok = ok, ![id].stopped = svc.up]
  /\ UNCHANGED <<agent, lock, data, db, prepared, files, copies, acts, adopt, due, history>>

(* One archive: ExportPath into Storage.Write, which uploads the file and   *)
(* then gives it its name in the directory.                                 *)
Archive(id) ==
  /\ jobs[id].pc = "archive" /\ jobs[id].left # <<>>
  /\ LET v == Head(jobs[id].left) IN
     \E got \in {Places, {"bucket"}, {}} :
       /\ Call(got = Places)
       /\ files' = [files EXCEPT ![id] = @ \cup (got \X {v})]
       /\ jobs' = [jobs EXCEPT ![id].left = IF got = Places THEN Tail(@) ELSE @,
                               ![id].pc = IF got = Places THEN @ ELSE "release",
                               ![id].ok = got = Places]
       /\ read' = [read EXCEPT ![id] = @ \cup IF rows[id].owner = "app" THEN {svc.gen} ELSE {}]
  /\ UNCHANGED <<agent, lock, svc, data, db, prepared, copies, acts, adopt, due, made, going, put, mistaken>>

(* takeBackup returns, however it does: what was stopped is started again.  *)
Restarts(id) == jobs[id].stopped

(* The end of takeBackup and the release of the lock, in that order.        *)
Release(id) ==
  /\ jobs[id].pc = "release" \/ (jobs[id].pc = "archive" /\ jobs[id].left = <<>>)
  /\ \E ok \in BOOLEAN :
       /\ Call(ok)
       /\ ~ok => Restarts(id)
       /\ svc' = IF Restarts(id) THEN [svc EXCEPT !.up = @ \/ ok, !.excused = ~ok] ELSE svc
       /\ data' = IF svc'.up /\ ~svc.up THEN [v \in DOMAIN data |-> Live] ELSE data
  /\ lock' = IF rows[id].owner = "app" THEN "free" ELSE lock
  /\ jobs' = [jobs EXCEPT ![id].pc = "finish"]
  /\ UNCHANGED <<agent, db, prepared, files, copies, acts, adopt, due, history>>

(* FinishBackupRun: a failed backup keeps nothing.                          *)
Finished(owner, ok, done) ==
  Row(owner, IF ok THEN "succeeded" ELSE "failed", IF ok THEN done ELSE {})

(* finishBackup and finishStateBackup.  The files of a failed backup go,    *)
(* unless the destinations are not known to be this installation's.         *)
FinishBackup(id) ==
  /\ jobs[id].pc = "finish"
  /\ LET owner == rows[id].owner
         ok == jobs[id].ok
         done == ToSet(FilesOf(owner)) \ ToSet(jobs[id].left)
     IN /\ rows' = [rows EXCEPT ![id] = Finished(owner, ok, done)]
        /\ IF ok \/ ~prepared THEN UNCHANGED <<files, used>>
           ELSE \E gone \in BOOLEAN : /\ Call(gone)
                                      /\ \E left \in Remains(id, gone) : Removed(id, gone, left)
        /\ made' = IF ok THEN [made EXCEPT ![id] = done] ELSE made
  /\ jobs' = [jobs EXCEPT ![id].pc = "list"]
  /\ UNCHANGED <<agent, lock, svc, data, seq, prepared, copies, acts, adopt, due, going, read, put, mistaken>>

Newer(id, st) == {i \in Ids : i > id /\ rows[i].owner = rows[id].owner /\ rows[i].status = st}

(* What pruneBackups takes: beyond the newest Keep that succeeded, beyond   *)
(* the last FailuresKept that failed, and not in use.                       *)
Overdue(id) ==
  /\ rows[id].activity = ""
  /\ \/ rows[id].status = "succeeded" /\ Cardinality(Newer(id, "succeeded")) >= Keep
     \/ rows[id].status = "failed" /\ Cardinality(Newer(id, "failed")) >= FailuresKept

(* pruneBackups reads the list once ...                                     *)
PruneList(id) ==
  /\ jobs[id].pc = "list"
  /\ LET old == {i \in Ids : rows[i].owner = rows[id].owner /\ Overdue(i)}
     IN jobs' = [jobs EXCEPT ![id] = IF old = {} THEN NoJob ELSE [@ EXCEPT !.pc = "prune", !.list = old]]
  /\ UNCHANGED <<agent, lock, svc, data, db, prepared, files, copies, acts, adopt, due, used, history>>

(* The next of the list, one that could not be removed or was passed over.  *)
Onward(job, old) ==
  IF job.list = {old} THEN NoJob ELSE [job EXCEPT !.pc = "prune", !.list = job.list \ {old}]

(* ... and removes what it lists, newest first: the files ...               *)
PruneFiles(id) ==
  /\ jobs[id].pc = "prune"
  /\ LET old == Max(jobs[id].list) IN
     /\ going' = going \cup {old}
     /\ IF rows[old].status \in {"failed", "none"}
        THEN UNCHANGED <<files, used>> /\ jobs' = [jobs EXCEPT ![id].pc = "unrecord"]
        ELSE \E ok \in BOOLEAN :
               /\ Call(ok)
               /\ \E left \in Remains(old, ok) : Removed(old, ok, left)
               /\ jobs' = [jobs EXCEPT ![id] =
                    IF ok THEN [@ EXCEPT !.pc = "unrecord"] ELSE Onward(jobs[id], old)]
  /\ UNCHANGED <<agent, lock, svc, data, db, prepared, copies, acts, adopt, due, made, read, put, mistaken>>

(* ... and then the record.                                                 *)
PruneRow(id) ==
  /\ jobs[id].pc = "unrecord"
  /\ LET old == Max(jobs[id].list) IN
     /\ rows' = [rows EXCEPT ![old] = NoRow]
     /\ jobs' = [jobs EXCEPT ![id] = Onward(jobs[id], old)]
  /\ UNCHANGED <<agent, lock, svc, data, seq, prepared, files, copies, acts, adopt, due, used, history>>

-----------------------------------------------------------------------------
(* ClaimBackupRun.                                                          *)
Claim(id, activity) ==
  /\ rows[id].status \notin {"none", "running"} /\ rows[id].activity = ""
  /\ rows' = [rows EXCEPT ![id].activity = activity]

(* DeleteBackup: claimed, the files, the record; on failure released.       *)
DeleteBackup(id) ==
  /\ agent = "up" /\ Request /\ rows[id].owner = "app" /\ Claim(id, "remove")
  /\ acts' = [acts EXCEPT ![id].pc = "files"]
  /\ going' = going \cup {id}
  /\ UNCHANGED <<agent, lock, svc, data, seq, prepared, files, copies, jobs, adopt, due, made, read, put, mistaken>>

DeleteFiles(id) ==
  /\ acts[id].pc = "files"
  /\ \E ok \in BOOLEAN :
       /\ Call(ok)
       /\ IF rows[id].status = "failed" THEN ok /\ UNCHANGED files
          ELSE \E left \in Remains(id, ok) : Removed(id, ok, left)
       /\ rows' = IF ok THEN rows ELSE [rows EXCEPT ![id].activity = ""]
       /\ acts' = [acts EXCEPT ![id] = IF ok THEN [@ EXCEPT !.pc = "row"] ELSE NoAct]
  /\ UNCHANGED <<agent, lock, svc, data, seq, prepared, copies, jobs, adopt, due, history>>

DeleteRow(id) ==
  /\ acts[id].pc = "row"
  /\ rows' = [rows EXCEPT ![id] = NoRow] /\ acts' = [acts EXCEPT ![id] = NoAct]
  /\ UNCHANGED <<agent, lock, svc, data, seq, prepared, files, copies, jobs, adopt, due, used, history>>

(* VerifyBackup: the lock is held only to decide what to verify with.       *)
VerifyBackup(id) ==
  /\ agent = "up" /\ lock = "free" /\ Request
  /\ rows[id].owner = "app" /\ rows[id].status = "succeeded" /\ Claim(id, "verify")
  /\ acts' = [acts EXCEPT ![id] = [pc |-> "verify", left |-> SetToSeq(rows[id].vols)]]
  /\ UNCHANGED <<agent, lock, svc, data, seq, prepared, files, copies, jobs, adopt, due, history>>

(* verifyBackup: each archive into a scratch volume, then the health check. *)
Verify(id) ==
  /\ acts[id].pc = "verify" /\ acts[id].left # <<>>
  /\ \E ok \in BOOLEAN :
       /\ IF Readable(id, Head(acts[id].left)) THEN Call(ok) ELSE ~ok /\ UNCHANGED used
       /\ IF ok THEN acts' = [acts EXCEPT ![id].left = Tail(@)] /\ UNCHANGED rows
          ELSE acts' = [acts EXCEPT ![id] = NoAct] /\ rows' = [rows EXCEPT ![id].activity = ""]
  /\ UNCHANGED <<agent, lock, svc, data, seq, prepared, files, copies, jobs, adopt, due, history>>

(* FinishBackupVerify.  A row that is gone is not updated.                  *)
FinishVerify(id) ==
  /\ acts[id].pc = "verify" /\ acts[id].left = <<>>
  /\ acts' = [acts EXCEPT ![id] = NoAct] /\ rows' = [rows EXCEPT ![id].activity = ""]
  /\ UNCHANGED <<agent, lock, svc, data, seq, prepared, files, copies, jobs, adopt, due, used, history>>

(* RestoreBackup with claimRestore: the application must be stopped.        *)
RestoreBackup(id) ==
  /\ agent = "up" /\ lock = "free" /\ Request /\ svc.desired = "stopped"
  /\ rows[id].owner = "app" /\ rows[id].status = "succeeded" /\ Claim(id, "restore")
  /\ acts' = [acts EXCEPT ![id] = [pc |-> "restore", left |-> SetToSeq(rows[id].vols)]]
  /\ put' = [put EXCEPT ![id] = {}]
  /\ UNCHANGED <<agent, lock, svc, data, seq, prepared, files, copies, jobs, adopt, due, made, going, read, mistaken>>

(* Restore refuses a busy application and one that runs or is meant to.     *)
Restorable(id) == lock = "free" /\ svc.desired = "stopped" /\ ~svc.up

(* FinishBackupRestore.                                                     *)
RestoreEnds(id, ok) ==
  /\ acts' = [acts EXCEPT ![id] = NoAct]
  /\ rows' = [rows EXCEPT ![id] = IF @.status = "none" THEN @
                                  ELSE [@ EXCEPT !.activity = "", !.restored = ok]]

(* restoreBackup, one volume: the archive is opened, then Restore takes the *)
(* lock, removes the replica and the volume and creates them again ...      *)
RestoreEmpty(id) ==
  /\ acts[id].pc = "restore" /\ acts[id].left # <<>>
  /\ LET v == Head(acts[id].left)
         can == Readable(id, v) /\ Restorable(id)
     IN \E ok \in BOOLEAN :
          /\ IF can THEN Call(ok) ELSE ~ok /\ UNCHANGED used
          /\ IF ok THEN /\ lock' = "restore" /\ data' = [data EXCEPT ![v] = Emptied]
                        /\ acts' = [acts EXCEPT ![id].pc = "import"] /\ UNCHANGED rows
             ELSE RestoreEnds(id, FALSE) /\ UNCHANGED <<lock, data>>
  /\ UNCHANGED <<agent, svc, seq, prepared, files, copies, jobs, adopt, due, history>>

(* The first volume that cannot be extracted ends the restore.              *)
ImportFailed(id) == RestoreEnds(id, FALSE)

(* ... and extracts the archive before the process ever runs.               *)
RestoreImport(id) ==
  /\ acts[id].pc = "import" /\ lock' = "free"
  /\ LET v == Head(acts[id].left) IN
     \E ok \in BOOLEAN :
       /\ Call(ok)
       /\ IF ok THEN /\ data' = [data EXCEPT ![v] = id] /\ put' = [put EXCEPT ![id] = @ \cup {v}]
                     /\ acts' = [acts EXCEPT ![id] = [pc |-> "restore", left |-> Tail(@.left)]]
                     /\ UNCHANGED rows
          ELSE ImportFailed(id) /\ UNCHANGED <<data, put>>
  /\ UNCHANGED <<agent, svc, seq, prepared, files, copies, jobs, adopt, due, made, going, read, mistaken>>

FinishRestore(id) ==
  /\ acts[id].pc = "restore" /\ acts[id].left = <<>> /\ RestoreEnds(id, TRUE)
  /\ UNCHANGED <<agent, lock, svc, data, seq, prepared, files, copies, jobs, adopt, due, used, history>>

(* AdoptBackups: the ids first ...                                          *)
AdoptIds ==
  /\ agent = "up" /\ adopt = NotAdopting /\ prepared /\ Request
  /\ adopt' = {i \in Ids : rows[i].status # "none"}
  /\ UNCHANGED <<agent, lock, svc, data, db, prepared, files, copies, jobs, acts, due, history>>

(* adoptable: a backup of the state has both its files, one of an           *)
(* application the archives that are there; one place holds all of them.    *)
FoundFiles(id) == {f[2] : f \in files[id]}
OwnerOf(id) == IF FoundFiles(id) \subseteq ToSet(Volumes) THEN "app" ELSE "state"
Adoptable(id) ==
  /\ files[id] # {}
  /\ OwnerOf(id) = "state" => FoundFiles(id) = ToSet(StateFiles)
  /\ \E p \in Places : {p} \X FoundFiles(id) \subseteq files[id]

(* AdoptBackupRun: INSERT OR IGNORE.                                        *)
Insert(id) == rows[id].status = "none"

(* ... the files second, and a record for each whole run without one.       *)
AdoptFiles ==
  /\ agent = "up" /\ adopt # NotAdopting /\ adopt' = NotAdopting
  /\ rows' = [i \in Ids |-> IF i \notin adopt /\ Adoptable(i) /\ Insert(i)
                            THEN Row(OwnerOf(i), "succeeded", FoundFiles(i)) ELSE rows[i]]
  /\ UNCHANGED <<agent, lock, svc, data, seq, prepared, files, copies, jobs, acts, due, used, history>>

-----------------------------------------------------------------------------
(* Stop, Start and a deployment, each under the lock from start to end.     *)
StopOrStart ==
  /\ agent = "up" /\ lock = "free" /\ Request
  /\ svc' = IF svc.desired = "running"
            THEN [svc EXCEPT !.desired = "stopped", !.up = FALSE, !.excused = FALSE]
            ELSE [svc EXCEPT !.desired = "running", !.up = TRUE]
  /\ data' = IF svc'.up THEN [v \in DOMAIN data |-> Live] ELSE data
  /\ UNCHANGED <<agent, lock, db, prepared, files, copies, work, due, history>>

Deploy ==
  /\ agent = "up" /\ lock = "free" /\ Request
  /\ svc' = [desired |-> "running", up |-> TRUE, gen |-> svc.gen + 1, excused |-> FALSE]
  /\ data' = [v \in DOMAIN data |-> Live]
  /\ UNCHANGED <<agent, lock, db, prepared, files, copies, work, due, history>>

(* The supervisor starts what is meant to run.                              *)
Supervise ==
  /\ agent = "up" /\ lock = "free" /\ svc.desired = "running" /\ ~svc.up
  /\ svc' = [svc EXCEPT !.up = TRUE, !.excused = FALSE]
  /\ data' = [v \in DOMAIN data |-> Live]
  /\ UNCHANGED <<agent, lock, db, prepared, files, copies, work, due, used, history>>

(* The agent is killed.  An archive that was uploaded and has not got its   *)
(* name in the directory is in the bucket only.                             *)
StopAgent ==
  /\ agent = "up" /\ used.stops < MaxStops
  /\ agent' = "down" /\ lock' = "free" /\ prepared' = FALSE /\ due' = FALSE
  /\ used' = [used EXCEPT !.stops = @ + 1]
  /\ jobs' = [i \in Ids |-> NoJob] /\ acts' = [i \in Ids |-> NoAct] /\ adopt' = NotAdopting
  /\ svc' = [svc EXCEPT !.excused = ~svc.up]
  /\ \E half \in BOOLEAN :
       files' = [i \in Ids |-> IF half /\ jobs[i].pc = "archive" /\ jobs[i].left # <<>>
                               THEN files[i] \cup {<<"bucket", Head(jobs[i].left)>>} ELSE files[i]]
  /\ UNCHANGED <<data, db, copies, history>>

(* InterruptBackupRuns.                                                     *)
Interrupted(r) ==
  CASE r.status = "running" -> Row(r.owner, "failed", {})
    [] r.activity = "restore" -> [r EXCEPT !.activity = "", !.restored = FALSE]
    [] OTHER -> [r EXCEPT !.activity = ""]

(* Mutant: the files of a backup that was in use go as well.                *)
HalfInUse(r) == r.status = "running" \/ r.activity # ""

(* The backups whose files InterruptBackupRuns' caller removes.             *)
Half(r) == r.status = "running"

(* StartBackups: the rows are settled, then the files of the backups that   *)
(* were being taken go, for which the destinations are prepared first.      *)
StartBackups ==
  /\ agent = "down" /\ agent' = "up"
  /\ rows' = [i \in Ids |-> Interrupted(rows[i])]
  /\ LET half == {i \in Ids : Half(rows[i])} IN
     IF half = {} THEN UNCHANGED <<files, prepared, seq, used>>
     ELSE \E ok \in BOOLEAN :
            /\ Call(ok)
            /\ prepared' = ok /\ seq' = IF ok THEN Reserve(seq) ELSE seq
            /\ files' = [i \in Ids |-> IF ok /\ i \in half THEN {} ELSE files[i]]
  /\ UNCHANGED <<lock, svc, data, copies, work, due, history>>

(* The operator puts back the database of a backup of the state, whole in   *)
(* one place, on a server whose agent is not running.                       *)
RestoreState(id) ==
  /\ agent = "down" /\ used.restores < MaxStateRestores
  /\ copies[id] # NoCopy /\ \A v \in ToSet(StateFiles) : Readable(id, v)
  /\ used' = [used EXCEPT !.restores = @ + 1]
  /\ rows' = copies[id].rows /\ seq' = copies[id].seq
  /\ mistaken' = mistaken \cup {i \in Ids : copies[id].rows[i].status = "running" /\ files[i] # {}}
  /\ UNCHANGED <<agent, lock, svc, data, prepared, files, copies, work, due, made, going, read, put>>

-----------------------------------------------------------------------------
Steps(id) ==
  \/ RunBefore(id) \/ StopForBackup(id) \/ Archive(id) \/ Release(id) \/ FinishBackup(id)
  \/ PruneList(id) \/ PruneFiles(id) \/ PruneRow(id) \/ DeleteFiles(id) \/ DeleteRow(id)
  \/ Verify(id) \/ FinishVerify(id) \/ RestoreEmpty(id) \/ RestoreImport(id) \/ FinishRestore(id)
Requests(id) == DeleteBackup(id) \/ VerifyBackup(id) \/ RestoreBackup(id) \/ RestoreState(id)
AgentSteps == ScheduleBackup \/ AdoptFiles \/ Supervise \/ StartBackups \/ \E id \in Ids : Steps(id)

BackupsNext ==
  \/ AgentSteps
  \/ StartBackup \/ FallsDue \/ StartStateBackup \/ AdoptIds \/ StopOrStart \/ Deploy \/ StopAgent
  \/ \E id \in Ids : Requests(id)

BackupsSpec == BackupsInit /\ [][BackupsNext]_backupVars

(* The goroutines run, the service manager starts the agent again.          *)
BackupsFairSpec == BackupsSpec /\ WF_backupVars(AgentSteps)

-----------------------------------------------------------------------------
(* Types; a failed backup and one being taken list no volumes.              *)
BackupsTypeOK ==
  /\ agent \in {"up", "down"} /\ lock \in {"free", "backup", "restore"}
  /\ svc \in [desired : {"running", "stopped"}, up : BOOLEAN, gen : Nat, excused : BOOLEAN]
  /\ data \in [ToSet(Volumes) -> Ids \cup {Live, Emptied}]
  /\ rows \in [Ids -> [status : {"none", "running", "succeeded", "failed"}, owner : {"app", "state"},
                       activity : {"", "verify", "restore", "remove"}, vols : SUBSET Names, restored : BOOLEAN]]
  /\ \A i \in Ids : rows[i].status # "succeeded" => rows[i].vols = {}
  /\ seq \in 0..MaxRuns /\ {prepared, due} \subseteq BOOLEAN
  /\ files \in [Ids -> SUBSET (Places \X Names)]
  /\ adopt \subseteq Ids \cup NotAdopting /\ going \subseteq Ids /\ mistaken \subseteq Ids

(* A backup that succeeded, or says it did, can be read in full until       *)
(* retention or a user decides to remove it: no crash, failed removal,      *)
(* interrupted run, adoption or restored database takes or fakes a file.    *)
(* Not so one that the database takes for a backup that is being taken:     *)
(* because it was put back from while that one was, or because a backup     *)
(* whose destinations could not be prepared was recorded under its id.      *)
KeptIsWhole ==
  \A i \in Ids \ (going \cup mistaken) :
    \A v \in made[i] \cup rows[i].vols : Readable(i, v)

(* A backup starts under an id that no file is kept under, whatever the     *)
(* database has forgotten: it never writes over another one's archives.     *)
FreshId == \A i \in Ids : jobs[i].pc \in {"before", "stop"} => files[i] = {}

(* All archives of a backup are read from one deployment: nothing replaces  *)
(* the container half-way.                                                  *)
OneVersion == \A i \in Ids : Cardinality(read[i]) <= 1

(* An application that is meant to run runs when the backup that stopped it *)
(* has let go of it, unless the agent died or starting it failed.          *)
RunsAfterwards ==
  agent = "up" /\ lock = "free" /\ svc.desired = "running" => svc.up \/ svc.excused

(* A volume is replaced only while no process of the application runs.     *)
NotUnderneath == lock = "restore" => ~svc.up

(* A restore that is recorded as done has replaced every volume the backup *)
(* holds; while another one is under way the record still speaks of the last. *)
RestoreTruthful ==
  \A i \in Ids : rows[i].restored /\ rows[i].activity # "restore" =>
                   rows[i].vols \subseteq put[i] \/ used.restores > 0

(* Retention never takes the newest backup that worked, however many failed*)
(* after it: only a user's deletion does.                                  *)
NewestStays ==
  [][\A i \in Ids :
       /\ rows[i].status = "succeeded" /\ Newer(i, "succeeded") = {} /\ rows[i].owner = "app"
       /\ rows'[i].status = "none"
       => rows[i].activity = "remove" \/ used'.restores > used.restores
          \/ \E j \in going : j > i]_backupVars

(* A firing is taken up by a backup, or waits: it is never dropped.        *)
DueIsTaken == [][due /\ ~due' => seq' > seq \/ agent' = "down"]_backupVars

(* Whatever is in progress with a backup ends, across restarts too.        *)
BackupsEnd == \A i \in Ids : (rows[i].status = "running" \/ rows[i].activity # "")
                               ~> (rows[i].status # "running" /\ rows[i].activity = "")

(* A backup is whole, of one version and under its own id, and taking or   *)
(* restoring one does the application no harm (takeBackup,                 *)
(* restoreVolumes).                                                        *)
BackupsSafe == BackupsTypeOK /\ KeptIsWhole /\ FreshId /\ OneVersion /\ RunsAfterwards /\ NotUnderneath /\ RestoreTruthful

(* Retention keeps what counts, no firing is dropped, and what is begun    *)
(* ends (pruneBackups, scheduleBackups, StartBackups).                     *)
BackupsProgress == NewestStays /\ DueIsTaken /\ BackupsEnd
=============================================================================
