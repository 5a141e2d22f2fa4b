# Shipwick in TLA+

Shipwick runs applications as Docker containers on one server.  Its agent
(`agent/`) takes deployments over an HTTP API, exchanges the containers of one
version for those of the next behind a reverse proxy (Caddy, with a module of
Shipwick's own in `caddy/`), keeps what should run running, backs up, exports,
imports, alerts and archives, and takes up whatever it was doing when it is
started again after a crash or an upgrade.  The command line client (`cli/`)
deploys to it and installs it.  This directory specifies those parts, checks
them with TLC on small instances, and proves what matters most of them with
TLAPS for every value of the constants.

    tlc -config MCRolling.cfg MCApplication     a run (PROJECT.json lists them)
    tlapm ApplicationProofs.tla                 the proofs of a module

`PROJECT.json` lists the components, the runs with their properties, the lines
every definition models, the hazards at the line where they bite, and the
theorems.

## 1. Inventory

Paths are relative to `src/agent/internal/` unless they begin with another
directory of `src/`.

| Part | State it keeps | Operations | What is hard | What makes it correct |
|---|---|---|---|---|
| Application lock, operation count, shutdown (`deploy/engine.go`) | `locks`, `ops`, `closed`, `drains` under one mutex | `lock`, `tryLock`, `unlock`, `beginOp`, `launch`, `Shutdown` | a deployment keeps its request's lock after the request; a channel is closed to wake waiters; Shutdown races beginnings | one operation per application; no lost wake-up; nothing runs once the database is closed |
| Deployment records (`deploy/state.go`, `store/deployments.go`) | status, `completed_at`, `current_deployment_id` | `TransitionDeployment`, `ActivateDeployment`, `CompleteDeployment` | a crash around every write | one ACTIVE record; only moves of the state machine; a completed record is final |
| Rollout (`deploy/rollout.go`) | `rollout`: previous, old, fresh, serving, retired, ... | `execute`, `swap`, `abort`, `rollBack`, `rollBackRecreate` | many durable steps, each of which may fail or be the last | capacity, peak, names only after a check, never two versions on one volume |
| Drains, recovery, settling (`deploy/drain.go`, `resume.go`, `settle.go`) | draining containers; ends still to be written | `retireInBackground`, `Recover`, `survey`, `settle` | must infer from rows, containers and names where a rollout was | nobody forgotten; every deployment completes |
| Supervisor, stop and start (`deploy/supervisor.go`, `operations.go`) | state per replica; `desired_state` | tick, restart, probe results, `recreateReplicas`, `Stop`, `Start` | probes answer outside the lock | converges; a stopped application stays stopped |
| Jobs, hooks, schedules (`deploy/jobs.go`, `schedule.go`) | `job_runs`, claims, windows | `startJob`, `finishRun`, `runHook`, ticks, `Delete` | schedule against user; a restart in a run; a deletion that lists before a run's container is made | one run per job; the hook once; no orphans; no firing lost |
| Configuration and secrets (`deploy/secrets.go`, `config.go`, `pkg/spec/document.go`, `cli/.../expand.go`) | values, references, plain fields | deploy, show, redeploy, roll back | escaping, on two sides | the document given back is the one deployed, without the values |
| Versions (`deploy/images.go`, `localimages.go`, `static.go`) | images, folders, tags | upload, extract, route, sweep | swept from a list made earlier | what is served, or would be after a rollback, is there |
| Agent process (`agent/cmd/.../main.go`, `deploy/loop.go`, `updates.go`) | what is open, what runs | start, serve, signal, close | a shared time limit; loops that outlive others | what is opened first is closed last |
| Backups (`deploy/backups*.go`, `volumes.go`, `store/backups.go`, `backup/`) | rows, files in a directory and a bucket, goroutines | take, verify, restore, prune, delete, adopt | a database restored over files that stay | what is kept is whole; nothing is restored under a process |
| Uploads and the backup file (`backup/multipart.go`, `pkg/backupfile`) | parts, a note, chunks | create, send, complete, abort; write, read | lost answers; a truncated file | only whole objects; a cut file is never read as whole |
| Key rotation (`store/rotation.go`, `crypto.go`, `config/encryption.go`) | key file, pending key, sealed rows, the ring | rotate, settle, read, write, snapshot | no step changes both files | some key on disk always opens everything |
| Export (`deploy/export*.go`) | the manifest, what was read | write | listed before locked | whole exports that announce what they use |
| Import, standby, promotion (`deploy/import.go`, `standby.go`, `promotion.go`) | volumes, records, roles | fetch, import, promote | half-replaced data; imports against promotion | a standby stays down until asked, and is not undone after |
| Log archive and search (`deploy/logarchive.go`, `logsearch.go`) | rows, files, temporaries | copy, prune, search in pages | copies race removal and housekeeping | no line lost, doubled or skipped |
| Alerts, outages, certificate status (`deploy/alerts.go`, `outage.go`, `certstatus.go`, `certfailures.go`) | episodes, levels | tick, sample, probe, follow the proxy's log | two loops write one state; a log that repeats | what was told in trouble is told of its end; no news twice |
| Routes, DNS gate, certificates (`deploy/routing.go`, `dns.go`, `certificates.go`, `proxy/`) | claims, verdicts, what Caddy runs | sync, decide, load, verify | two syncs; a silent resolver | one application answers; a domain leaves only after an answer |
| Addresses (`docker/rest.go`, `runtime.go`, `caddy/table.go`) | leases, the proxy's cache | connect, rest, look up, forget | an address changes hands under a cache | no request reaches a stranger |
| Access (`api/`, `oidc/`, `store/access.go`, `tokens.go`) | sessions, tokens, rules, keys | sign in, identify, authorize, administer | rules change between steps of a request | served as given; an ended session stays so |
| Traffic (`deploy/traffic.go`, `store/traffic.go`) | minutes in memory and database | count, flush, view, forget | cut log, failing write, reused ids | each request once |
| Webhook (`notify/notify.go`) | a bounded queue | notify, deliver, retry, close | retries against shutdown | told in order |
| CLI: deployments, images, logs (`cli/internal/commands/multi.go`, `layers.go`, `logs_follow.go`) | processes, a stale answer, a resumed stream | deploy many, send, follow | lost answers, Ctrl-C | order and exit code; whole images; no line twice, none missed |
| CLI: releases and servers (`upgrade*.go`, `bundle*.go`, `server*.go`, `cliconfig/`) | files being replaced, saved contexts, `.env` | upgrade, bundle, login, install, configure | killed or cut between steps | nothing unverified is run; tokens go where they belong |
| Other commands, API views, audit trail, metrics, dashboard, Docker option translation | | one request and an answer | | not modelled, see section 8 |

Interactions: API requests, the supervisor, schedules and `Recover` call the
rollout under the application's lock.  The rollout writes the store, calls
Docker, puts an override into routing and leaves drains behind.  Probes,
drains, settling, log copies and the routing sync of *other* applications run
outside the lock and so interleave with whoever holds it.  Jobs, backups,
exports and imports are operations of their own that take the lock for the part
of their work that needs it.  Database, Docker, the bucket and the proxy's
configuration survive the agent; everything else is lost with it.

## 2. Modules

| Module | Models | Uses |
|---|---|---|
| `AppLock` | the lock, the operation count, drains and probes as far as they are counted, `Shutdown` | |
| `AppState` | the state of one application; Docker as the engine uses it; routing overrides; creating, draining and removing replicas | |
| `Rollout` | a deployment: `run`, `execute`, `swap`, `abort`, `rollBack`, `rollBackRecreate`, `settle` | `AppState` |
| `Supervision` | the supervisor, probe results, `recreateReplicas`, `Stop`, `Start` | `AppState` |
| `Application` | the composition, the agent's stops, `Recover` and `survey`; fairness | `Rollout`, `Supervision` |
| `DeploymentRecord` | abstract: what the records promise to their readers; `Application` implements it | |
| `Jobs`, `Configuration`, `Versions`, `AgentProcess` | the parts of the agent beside the rollout | |
| `Backups`, `KeyRotation`, `Upload`, `BackupFile` | what is kept for the worst day | |
| `Export`, `Transfer` | the two ends of a move between servers | |
| `ExportFeed` | abstract: what one end promises the other; `Export` implements it, `Transfer` reads it | |
| `LogArchive`, `LogSearch`, `Alerts`, `CertStatus`, `Routing` | the loops that watch | `LogSearch` extends `LogArchive` |
| `Access`, `Addresses`, `Traffic`, `Webhook` | who reaches what | |
| `DeployMany`, `SendImage`, `FollowedLog`, `Release`, `Servers` | the command line client | |
| `MC*` | the instances TLC checks, a group of parts each | |
| `*Proofs` | theorems, see section 6 | |

In `MCAgent`, `MCBackups`, `MCTransfer`, `MCWatching` and `MCEdges`
the parts share no state, so `part` picks one of them for a whole behaviour: the
run is the union of the parts' state spaces and not their product.  Where parts
do interact, the composition is explicit: `Application` (rollout, supervisor,
user, restarts over one application's state), `LogSearch` (a search over the
archive while it goes on), and the two ends of a move, which know each other
only through `ExportFeed`.

### How code becomes state and actions

An action is one durable effect together with everything the code does up to
the next one, or one critical section of a mutex, or one step between an
await or an unlock and the next; so another actor, a crash or a failure may come
between any two.  Names follow the source.

- **AppLock.**  A caller is an API request and then the goroutine it leaves
  behind: `trying` and `waiting` are the loop of `lock`, `holding` is the
  request's own goroutine, `running` the one `launch` starts, `released`,
  `settled` and `unlocked` the places between the release of the lock and the
  `opDone` that follows.  Closing `appLock.released` is `Woken`.
- **Application.**  Three kinds of state: the database (`status`, `completed`,
  `replicas`, `strategy`, `active`, `desired`, `row`), Docker (`ctr`, `named`),
  and the agent's memory (`agent`, `pc`, `r`, `override`, `drains`, `unready`,
  `ended`).  `r` is `type rollout` with the locals of its methods; `pc` is where
  the holder of the lock is, `idle` the free lock.  The ghosts `verified` and
  `whole` are read by properties (and by `ProbePasses`, to leave out answers
  that change nothing).  A container is the pair of deployment and index,
  because its name is.  Deadlines and backoffs are choices: any step may fail, an
  abort may run out of its budget, a restart may come at any time.  A foreground
  removal stops and removes in one action.  `Recover` runs before the API and
  the supervisor start and is one action.
- **Jobs.**  A run is a row, a container and the goroutine that waits for it;
  each can outlive the others.  Minutes are numbers and a schedule fires at
  multiples of `Every`.
- **Configuration.**  A text is a sequence of pieces, a piece a word with a
  number of dollars before it, which is all that `spec.Placeholder` tells apart.
- **Backups.**  A row, the files under an id in two places, and the goroutine at
  work on it.  A restored state backup replaces the database and not the files.
- **KeyRotation.**  A key is a number, a sealed value the key it is under; `ring`
  is what `keyMu` guards, and readers and writers are between fetching and
  opening, sealing and storing.
- **BackupFile.**  AES-GCM is ideal; the length of a chunk and its marker are
  what it seals.  **Upload** keeps `partSizeFor`'s arithmetic.
- **Export, Transfer.**  A number stands for a deployment's configuration and
  for the data of its volumes; half-replaced data is a value of its own.
  `pruneBackups` at the end of an export is `PruneExports`; in `ExportFeed` it is
  `Retire`, and `Transfer` reads a bucket from which exports go.
- **LogArchive, LogSearch.**  A line is its moment on its container's clock, a
  file takes a unit per line, a cursor is what the code encodes in one.
- **Routing.**  `SyncLoads` is the first reading of the certificates and
  `SyncApplies` or `SyncGivesUp` the second.  A wildcard matches every exact hostname of the model; a path is
  the sequence of its parts; two syncs ("tick" and "op") run at once.
- **Addresses, Access, Traffic.**  Time counts in ticks; what the code waits for
  (`Keep`, `Rest`, `Dial`, session lifetimes) are constants in that unit.
- **DeployMany, SendImage, FollowedLog, Release, Servers.**  Each process of the
  client and each answer of the agent is a step; answers are lost, and Ctrl-C,
  kill and a broken connection come between any two.  An image is sent by the CLI
  or is an archive somebody made by hand, under any tags and without any of its
  layers.

## 3. Runs

| Run | Instance | Checks (* also proved, section 6) |
|---|---|---|
| `applock` | 1 application, 2 callers, the supervisor, 2 containers; fair | `LockSafety`*, `RequestsAreAnswered`, `ShutdownEnds` |
| `rolling` | 2 rolling deployments of 1 to 3 replicas, 1 stop of the agent | `OneActive`*, `WithinBounds`, `NamesEarned`* |
| `converges` | 2 deployments of 1 or 2 replicas with either strategy and 1 death; 1 deployment with 3 stops or starts, or with 2 and a death; 2 deployments of either strategy with 1 stop or start by the user, of one replica also with 2 and a death, or with a stop of the agent; fair | `NeverSideBySide`, `StaysStopped`, `Converges` |
| `faults` | 2 deployments of 1 replica, both strategies, 1 stop, failing calls; fair | `NobodyForgotten`*, `KeepsPromise`*, `DeploymentsComplete` |
| `agent` | jobs: 1 job, 3 minutes, 1 deployment with a stop and a fault, or 2 with a stop or a request; configuration: 3 documents, 3 versions; versions: 3 records, images and folders; process: 2 starts | `JobsSafe`*, `DocumentKept`, `VersionsThere`*, `ProcessOrder`*, `JobsProgress` |
| `backups` | 2 volumes, 2 runs, 1 fault or stop, 1 state restore; 2 rotations and 2 stops; files of 1 to 7 units; 5 bytes in chunks of 2 | `BackupsSafe`*, `KeysSafe`*, `FilesWhole`, `ComesThrough` |
| `standby` | 2 exports of 2 applications with 2 deployments meanwhile, 1 export and 1 failure kept; 2 applications on a standby, 2 imports, 1 promotion, 1 upset | `TransferSafe`*, `StandbyKept`*, `FeedsReaders`*, `MovesEnd` |
| `watching` | 2 containers, 2 copying goroutines; 1 or 2 replicas for alerts; 2 applications that claim 3 hostnames | `LogsKeptAndFound`, `EpisodesTold`*, `OnlyNews`*, `RoutesRight`, `OnlyAnAnswer`, `AllIsDone` |
| `edges` | 2 sign-ins, 2 requests, 2 provider keys; 2 containers on one address; 2 log lines; 3 events in a queue of 2; the client: 3 applications with 5 shapes of `after`, 2 images over 16 stocks and 3 sets of tags, 2 replicas and 3 lines, 3 releases on 5 machines, 1 server | `AccessHolds`*, `NoStranger`, `RequestsCounted`*, `ToldInOrder`*, `CommandsKeepTo`, `SentSafely`*, `NothingUnverified`*, `ServersKept`* |
| `v_dormant` | as `standby`, with a stop inside a commit | `DormantStaysDown` is violated |
| `v_silent_resolver` | as `watching`, a restart while the resolver is silent | `OnlyAnAnswer` is violated |
| `v_missed` | as `edges`, a followed log | `NothingMissed` is violated |

What they show:

- **Lock and shutdown.**  An application has one holder, `ops` is exactly what is
  under way, a waiter is woken by the release it waits for, and when Shutdown
  returns without an error nothing is left that could use the database.
- **Rollout.**  While a rolling deployment replaces one version by another, at
  least as many replicas as the smaller version has run, are found and checked
  (`CapacityKept`), at most one container more than the larger version runs until
  the commit (`PeakKept`; together `WithinBounds`), and a new replica is found
  only after its check (`NamesEarned`), also when the agent was replaced in the
  middle.  Containers of two versions of a recreate application never run at
  once while the agent does not stop (`NeverSideBySide`).  What is stopped stays
  stopped also while deployments of it succeed or fail, replicas die and the agent
  stops, but for what a `Start` or a rollback had itself started, and for what a
  stop cut short by the agent's end had not yet stopped (`StaysStopped`, section 5).
  Once users, deaths and stops end every deployment is completed and
  the containers are those of the active version and serve (`Converges`).
- **Agent.**  A job never runs twice at once, the pre-deploy command runs once
  however often the agent stops and no version becomes active without it, a
  deleted application leaves no container, no due minute is lost to a deployment
  that holds the lock, also while another version's schedules are active.  A document that is given back and deployed again gives
  the same configuration, without the values filled in.  What is served and what
  a rollback would serve survive every sweep.  The database is closed after its
  last user, unless a shutdown runs out of time or the process gives up without one
  (section 5), and the question for updates is asked once a day across restarts.
- **Backups and keys.**  A backup that says it succeeded is readable in full
  until somebody decides to remove it, also after a restored database, unless that
  database means another state of the bucket by its id (`mistaken`, section 5); the
  application runs again after the backup that stopped it, and no process runs under
  a volume that is replaced; a rotation that is cut anywhere leaves a key that opens
  everything; a cut file is not read as whole; an upload is completed with all its
  parts or leaves nothing.
- **Moves.**  Exports announce what they use although the list is made before
  the locks are taken, appear only whole, and leave the bucket only when enough
  newer ones are there.  No import, commit, failure or restart makes a standby run
  on another's or half-restored data; whoever starts or promotes an application
  whose containers a failed import has removed does (`blind`, section 5).  It stays
  down until asked and is not undone once it took over.
- **Loops.**  Every line of an ended run is archived once and found by a paged
  search.  A memory alert is told once for its episode, and whoever was told of an
  application's trouble is told of its end, a second time only when a probe answers
  between the two notes of a tick.  A level of an expiry is told once for a
  certificate; a failure again only after another reason or after the certificate
  was obtained.  Equal routes never decide who answers; Caddy asks for certificates
  only where the DNS points here, unless it was a stored certificate that kept a
  hostname served, which was deleted while the resolver was silent (`heldOver`,
  section 5); what is planned is served in the end, also when the database does not
  give the certificates for a while.
- **Edges.**  A request is served with what its credential stood for while it
  was under way; an ended session stays ended; a code gives one session; a
  request for one application reaches no container of another from the moment that
  one has asked, after it joined, whether its address was given up meanwhile; a
  request is counted once; the webhook tells of events in order.
- **Client.**  A deployment begins only after what it waits for has deployed,
  and the exit code says so.  A loaded image is whole, whatever archive it came in,
  and a refused upload leaves the tags of others as they were, except where its undo
  is not reached or fails (`astray`, section 5).  A followed log repeats nothing and
  misses only what something later overtook, which it should not (section 4).  The binary at its name
  is always a whole, verified build; a token goes only to the URL it was given
  for and a configure that reports a healthy agent left it as configured.

### Bounds

Two deployments are one exchange with everything before and after it: a rollout
looks at its own deployment and the one it replaces.  Three replicas are needed
for a batch in the middle of a rollout and for scaling by more than one.  One
stop of the agent, at any of its steps, is the case recovery is written for; two
rotations and two stops reach a pending key of an earlier rotation.  One fault or
death reaches every error path, since the code's reactions do not count them.
Queues and pages have the smallest size at which they fill (a queue of two and
three events; a page of one line and two replicas).  The times of `Addresses` are
the code's in units of half a second (an answer is kept for 2 s, a connection tried
for 0.5 s, an address rests for exactly their sum); with a `Rest` of one unit less
`NoStranger` is violated.  Those of `Access` keep the order of the code's constants
(`CacheFor` longer than `RefetchEvery`).  Scenarios (`Budgets`, `Spent`,
`MCAccessBudgets`, ...) spend a few events each in turn rather than all at once.
`Indexes`, `Deployments`, ids and events are ordered by the code, so there is
little symmetry to use and none is declared.  `AppLock` has one application
because every entry of `locks` is independent and Shutdown sees them only as a
number.  Runs whose parts all come to rest when their events are spent say
`CHECK_DEADLOCK FALSE`; `applock`, `rolling`, `converges` and `faults` have
none, the routing tick and arriving requests never end.

### Fairness

It is asked only that what has begun goes on: goroutines run under deadlines,
drains under a grace period, probes, the supervisor and the schedules under
their tickers, settling is retried by a ticker, a container told to stop is
killed by Docker in the end, an agent that is down is started by its service
manager (`packaging/`), and, for `ComesUp`, an operator whose key is in the
environment sets the one the agent told him.  In `watching`, a Docker, a resolver
or a proxy that went away comes back.  It is weak fairness, per container where
the code handles containers independently.  `AppLock` uses strong fairness
twice: for the timer of `LockWait`, which runs on while the lock is tried again
and again, and for the deadline of an operation that keeps waiting for drains.
Nothing is assumed of users, failures, deaths or stops, which are bounded.

## 4. Where code and documentation disagree

| Run | Property | What happens |
|---|---|---|
| `v_dormant` | `DormantStaysDown` | `executeDormant` commits with `ActivateDeployment`, which makes the desired state "running", and notes that the application stays stopped in a second step.  When the agent ends between the two, the supervisor of the next one starts the application on the standby. |
| `v_silent_resolver` | `OnlyAnAnswer` | `keepServing` knows the verdicts of this process only: after a restart a lookup without an answer finds none, and the sync takes a hostname that is being served out of the proxy. |
| `v_missed` | `NothingMissed` | A lost `logs -f` is resumed from the latest time that any line or heartbeat told.  A line that was still on its way then, overtaken by another replica's or by a heartbeat, is older and never comes; the command prints "Reconnected; nothing was missed." |

## 5. Behaviours met while modelling

No run is kept for these; several are why a property is worded as it is.

*Rollout and supervisor.*  A resumed rollout starts an adopted replica with
`StartContainer` and not `startNameless`, so one that died with its names is
found before its check (with `MaxDeaths = 1`, `rolling` violates `NamesEarned`;
why `NamesAreEarned` leaves out resumed rollouts).  A container that was created
and not recorded before the agent stopped is removed by nobody when it is of the
active deployment, and every later attempt fails on its name.  After a stop
between FAILED and ROLLBACK of a recreate deployment the old version is started
while the new one's containers drain.  `recreateReplicas` starts replicas and
only then notes that they are starting; another application's sync in between
gives them the names.  When the restore fails, `rollBack` discards what still
serves.  A deployment of a stopped application that fails after its first swap
rolls back to a version that was not running and starts it; `Start` that finds a
container gone fails and leaves the others running, the desired state still
"stopped"; and a `Stop` that the agent's end cuts short leaves the rest running (the
three exceptions of `StaysStopped`).  During a rollback N+2 run at the
peak.  `Delete` with a drain
that fails leaves the container.

*Jobs.*  `collectJob` makes its cleanup context before it waits, so the container
of a job whose timeout is not shorter than `cleanupTimeout` may be left running
(`TimeoutEndsCommand` and `OneRunPerJob` except such a container, which they mark
`late`, and say that a shorter timeout never has one).  A schedule that
never fires (`0 0 30 2 *`) starts at every tick (`StartedWhenDue` excepts it).  Rows of `run` beyond fifty and
runs of hooks are not pruned.

*Process.*  When `Recover` fails, or the server cannot serve, `run` returns without
`Engine.Shutdown` (`main.go:238`, `287-289`): the deferred calls close Docker and the
database under what `Recover` had resumed, or under loops, probes and operations
(`GivesUp`, excepted by `ClosedLast` beside a shutdown that runs out of its time).

*Configuration.*  A value of the CLI's environment that contains `${NAME}` is
filled in again by the agent.

*Versions.*  `Delete` removes static files before records; `pruneImages` removes
an image of a registry that another application shares; a build slower than
`orphanAge` may lose its tag.

*Backups.*  A crash in `DeleteBackup` before the record goes leaves a record
without files; the cleanup context of `verifyBackup` can be expired when it is
used; files that leaked are adopted; an application started between two volumes
of a restore runs on both, and one that is started after a restore failed half-way
runs on what is there: the properties say that nothing runs while a volume is
replaced and that the record does not claim otherwise.  Two more are the exception
`mistaken` of `KeptIsWhole`, after an older database was put back.  A copy of the
database that was made while another backup ran says that it is running still:
`StartBackups` takes it for interrupted and removes its files
(`backups.go:119-125`), although it has succeeded since.  And a backup that is
refused because the destinations could not be prepared is recorded all the same
(`backups.go:400-404`), before ids are reserved, so it may have the id of an older
one; when the bucket answers before it ends, or at the next start, the files under
that id are removed as its own.

*Keys.*  `writeKeyFile` truncates the pending file when it is called again after
a failed rename, with the only copy of the key in it (why `KeysAreSafe` assumes
that renames succeed, and `MemoryFits` does not); a reader between the commit and
`ring.rotate` fails; a commit that reports an error although it happened leaves
the ring behind.

*Moves.*  An import that fails after it removed an application's containers leaves
the application with a volume that is empty or half filled.  `Start` finds no
containers to start and sets the desired state (`operations.go:47-73`), a promotion
does the same (`promotion.go:164-184`), and the supervisor creates the replicas
(`supervisor.go:288-317`), on those volumes.  `Start` failing half-way in a promotion; a scheduled fetch refused while
an import runs; an older export is not repaired once a newer was seen; two
imports reorder a promotion; a lost answer to the CLI.

*Logs.*  A row is written before its file is renamed: after a crash in between
`archiveMissedRuns` takes the run as archived.  A cursor in a live log skips lines
with equal timestamps.  Housekeeping at the start may take a temporary file of a
copy that is under way.

*Access and traffic.*  The comment on the rate limit against 429 for everybody; a
sign-in under way survives `EndSessions`; an audit entry is written after its
handler.  A line that is counted after `forget` goes to the next owner of the id;
lines with equal timestamps are lost at a cut.

*Alerts and certificates.*  The end of an outage is told twice when a probe answers
between `noteAlerts` and `noteAvailability` of one tick (`alerts.go:426-428`, `473`),
against "raised once and cleared once" (`alerts.go:20-24`).  Reasons that alternate
are told each time, against "once per reason" (`certfailures.go:260-262`): only the
last one is remembered.  A failure that the proxy logged before it obtained the
certificate, and that is read after the probe has told that it did, is told.  A
supplied certificate near its end that replaces one reported as urgent is not
reported, because `warned` is the hostname's.

*Addresses and routing.*  `NoStranger` leaves out who holds an address and has not
been told that nobody gave it up meanwhile.  There are three such: a container
between joining the network and that question, one whose question Docker did not
answer (`runtime.go:540-548`: "the address was taken after a full rest"), and one
whose agent ended before it asked.  In each the proxy may still hold the address.
The rest has no slack for the way of a DNS answer.  Between `NetworkDisconnect` and
the record of the release lies less than another container's joining and its
question, which the model takes for granted (`Leaves`).  A fallback dial after
`resolveWait` uses what was known.  A stored certificate that is deleted while the
resolver is silent leaves its hostname ready, since `keepServing` takes the verdict
that was owed to it for the last answer, although "a verdict owed to a certificate
is never remembered as an answer from DNS" (`certificates.go:239-241`); Caddy then
asks an authority for it.  Of racing first deployments the alphabetically first wins.

*Client.*  Ctrl-C that races the last answer exits with 0.  A refused upload does
not put back the tags its archive carried (`localimages.go:74-84` says why it
should) when the load ends in an error: the daemon's answer breaks off after a tag
was moved (`runtime_images.go:52`, `58`), or the image lacks layers and the store
recorded it nevertheless, whose tags are removed (`runtime_images.go:25-28`) without
a look at what they named (`localimages.go:51-53`).  Nor when `TagImage` fails, a
sweep removes the image meanwhile, or the agent stops between load and undo.  `logs
-f`: a line equal to one printed is dropped, and a line older than the first tail with
the same timestamp is printed after a reconnect.  Two upgrades at once share their
staging names.  Two racing `server configure` can leave one's settings
(`ConfiguredRuns` is of commands that do not overlap); a repeated one says
"unchanged" although the first never reached the agent.

## 6. What is proved

For every value of the constants that the named assumptions allow: any number of
applications, callers, deployments, replicas, stops, deaths, values, rotations,
exports, events, retries, lines, sign-ins, codes, layers, tags, versions and blocks.

| Theorem | States | Assumes |
|---|---|---|
| `AppLockProofs!LockIsSafe` (with `TypeCorrect`, `MutualExclusion`, `OpsCorrect`, `ShutdownIsQuiet`, `WakeupsAreKept`) | `Spec => []LockSafety` | finite sets (`FiniteAssumption`) |
| `ApplicationProofs!ActiveIsOne` | `Spec => []OneActive` | `ConstantsAssumption` |
| `ApplicationProofs!NoneForgotten` | `Spec => []NobodyForgotten` | the same |
| `ApplicationProofs!RecordsKeepPromise` | `Spec => KeepsPromise`: `Application` implements `DeploymentRecord` | the same |
| `ApplicationProofs!NamesAreEarned` | `Spec => [](~r.resumed => NamesEarned)` | the same |
| `AgentProofs!JobsAreSafe` | `JobsSpec => []JobsSafe` | `JobsAssumption` |
| `AgentProofs!VersionsAreThere` | `VersionSpec => []VersionsThere` | `VersionsAssumption` |
| `AgentProofs!ProcessIsOrdered` | `ProcessSpec => []ProcessOrder` | |
| `KeyRotationProofs!MemoryFits` | the key in memory, fetched rows and copies of the database, at every step | `~CommitMayLie` |
| `KeyRotationProofs!KeysAreSafe` | `KeySpec => []KeysSafe` | `~CommitMayLie`, `~RenameMayFail` |
| `KeyRotationProofs!BackupsAreSafe` | `BackupsSpec => []BackupsSafe` | `BackupsAssumption` |
| `ExportProofs!ExportsFeedReaders` | `ExportSpec => FeedsReaders`: `Export` implements `ExportFeed`, its pruning too | `OrderAssumption` |
| `ExportProofs!StandbyIsWhole` | no key dropped, volumes whole but for blind starts, a fetch is here: at every step, stops anywhere | `TransferAssumption` |
| `ExportProofs!StandbyIsSafe` | `TransferSpec => []TransferSafe` | `TransferAssumption`, `~StopsInCommit` |
| `ExportProofs!StandbyIsKept` | `TransferSpec => StandbyKept` | `TransferAssumption` |
| `EdgesProofs!EpisodesAreTold` | `AlertSpec => []EpisodesTold` | `AlertAssumption` |
| `EdgesProofs!EventsAreNews` | `CertSpec => []OnlyNews` | |
| `EdgesProofs!EventsToldInOrder` | `WebhookSpec => []ToldInOrder` | `WebhookAssumption` |
| `EdgesProofs!RequestsAreCounted` | `TrafficSpec => []RequestsCounted` | `TrafficAssumption` |
| `AccessProofs!AccessIsHeld` | `AccessSpec => []AccessHolds` | `AccessAssumption` |
| `ClientProofs!ImagesSentSafely` | `SendSpec => []SentSafely` | `SendAssumption` |
| `ClientProofs!TokensGoWhereGiven` | `ServersSpec => []SentWhereGiven`, commands may overlap | `ServersAssumption` |
| `ClientProofs!ServersAreKept` | `ServersSpec => ServersKept` | `ServersAssumption`, `~Overlapping` |
| `ClientProofs!NothingUnverifiedRuns` | `ReleaseSpec => []NothingUnverified` | `ReleaseAssumption`, `~Overlap` |

None of these is inductive as it stands; the arguments:

- **Lock.**  Exclusion needs that `locks` names the holder, without which a
  release could free another's lock.  The count: each action adds one member to a
  set that is counted, removes one, moves one or leaves them, and the library's
  cardinality theorems do the rest.  For Shutdown the strengthening records what
  each of its stages has seen and cannot become false again: once closed nothing
  begins, once `ops` is zero nobody may retire or probe.
- **Records.**  `RecordInv` adds `InCharge` (the holder of the lock has a
  deployment exactly at the places where it works on one, and a stopped agent
  holds nothing), `Unfinished` (what is worked on, or waits to be settled, exists
  and is not completed, and the two never are the same) and `Accounted` (what is
  completed has ended; what has not ended is somebody's).  The commit needs
  `Unfinished` to know that it revives no completed record, a new deployment needs
  `InCharge`, `Recover` needs `Accounted` and leaves it true by failing what it
  does not resume.  Most of the sixty-odd steps write no record (`Quiet`); those
  that write a status are moves by the holder (`Advances`); seven have a lemma
  each, and `StepKinds` says that this is all of `Next`.  The refinement is the
  same split again.
- **Names.**  `NamesInv` adds what Docker and routing know: a container that was
  not started has no name (`DockerOK`), the routing override belongs to a rollout
  that has not committed or given up (`RollOK`), and, place by place, which
  replicas the rollout has shown to routing: none before the first batch, none
  still to come, and of a batch that is swapped only those whose check passed
  (`Exchange`).  A tick of any other application's sync gives names from exactly
  that set.
- **Jobs.**  `JobsInv` adds who holds a job's claim (`Holders`), that a run which is
  not ended has a collector or an agent that is down (`Watchers`), that of the runs
  of a job one at most is neither draining nor stuck (`Alone`), where a run's
  container can be at each of its steps (`Containers`), what the pre-deploy row of a
  deployment says at each phase, resumed or not (`Hooks`), and that a tick only
  names what fired in its window (`TickIsDue`).
- **Versions.**  `VersionInv` says that one record is active and everything
  superseded is older, so that a rollback goes to a known place (`History`); that
  the operation which holds the lock works on the last record and what it has made
  sure of so far (`Rolling`, `SoFar`): a folder is extracted only where it does not
  serve, gets its name when it is whole, and is routed to after that; and what a
  rollout may say is served (`Overrides`).  `SameHistory` covers all steps but the
  activation; `ImagesKept` and `FoldersKept` say that no removal takes what a
  rollback needs.  A digest that is empty would be mistaken for "no folder"
  (`VersionsAssumption`).
- **Process.**  What the start has opened is known from the step it is at, and what
  the end has closed from its phase (`PhaseOK`, `TablesOK`); nothing begins any more
  once the process leaves in time (`Quiet`); the last question for a newer release is
  in memory or in its file before the next is asked (`QuestionOK`).  Where the process
  gave up or ran out of time nothing is claimed of what is open.
- **Keys.**  `KeyInv`: a rotation is alone with the ring (`Alone`), each step finds
  what the one before left (`InOrder`), a fetched row is under the key of its time
  or, between the commit and the switch, the next (`Fetched`).  For the disk:
  either the configured key fits or the pending one does, by the step.
- **Backups.**  `BackupInv` adds what a database may say of the files there are,
  for the one that is used and for every copy that may be put back (`Rows`,
  `Copies`): a backup that is listed with a volume has its files, unless its removal
  was decided.  Nothing was made under the id of a backup that is running, nor does
  any copy list files there (`Running`), so that removing what an interrupted one
  left costs nothing; ids are handed out above all files once the destinations are
  prepared (`Reserved`, by the greatest id found); a backup that is taken has
  written what is not left to write (`Taking`), and reads one deployment because it
  has the lock (`Locked`); what is pruned or claimed is not running (`Pruning`,
  `Claimed`); a restore has put back what is not left to restore (`Restoring`).
- **Export.**  An application that is locked is the one that was listed, because
  a deployment made since has a higher number and is refused (`ListedOK`,
  `HeldOK`); so what the manifest announced covers what is read (`ReadOK`).
- **Standby.**  `StandbyInv`: one transfer at a time (`OneTransfer`); what an import
  replaces is down (`ReplacedIsDown`); a volume is its deployment's while that is in
  flight or committed, and half restored only where nothing runs on it (`DataOK`);
  what runs was asked for, unless the agent ended between a commit and its note
  (`AskedOK`, hence `~StopsInCommit`); the applications an import is done with are
  here (`FetchOK`); each export announces the keys it uses (`BucketOK`, which is
  what `ExportFeed` promises).
- **Alerts.**  A replica without a standing memory alert is calm, and so is one
  whose newest reading is low while the sampler is in its round (`QuietIsCalm`,
  `LowIsCalm`): an alert is raised only after a reading below the clear level or a
  new container.  Whatever stands, an outage or an alert, owes its end or had it told
  by the other (`EndsAreOwed`).
- **Certificates.**  `CertInv`: certificates are numbered upwards (`NumbersGrow`), and
  every event still stands as it was told: the level of an expiry until a newer
  certificate was looked at, the reason of a failure until another was told or a
  newer certificate was obtained, also over what the log repeats (`Stands`).
- **Webhook.**  The queue is ascending, the event being sent precedes it, what was
  received precedes both, and an accepted event is waiting, being sent or done
  with until Close gives up (`NoneLost`).
- **Traffic.**  A line that is counted somewhere will not be read as new again: it
  lies before the moment the next reading begins at, or was handed out by this
  reading, or the reader is gone for the last flush (`Past`).  So `record` adds only
  a line that is nowhere, the places stay apart (`Apart`) and the history is what
  they hold (`Exact`); a reader between its two reads keeps the flusher out
  (`ViewInv`), and the id it asked for may only change hands for a later life.
- **Access.**  A row that was looked up is the session's but for its state, and
  what lookup and judgement gave is in `since` from then on (`RequestsInv`, with
  `ToldOver` for ended sessions).  A code is redeemed once by the provider; in a run
  of the agent it is with one sign-in, in the nonces or past its life
  (`OneRedeemed`, `Shared`, `OneAccepted`), for which the nonces have to be kept at
  least as long as what the provider answers to a code is accepted: that is
  `CodeLife <= NonceKeptFor` of `AccessAssumption`, as the comment on `nonceKeptFor`
  says (`signin.go:43`: ten minutes and the allowance for clocks, against 15).  Keys
  believed are no older than the cache allows (`KeysInv`).  A scenario's restarts are
  finite, which tells one run of the agent from another.
- **Images.**  Only an archive whose one tag is of the application is taken
  (`OwnTagOnly`); while it is loaded and checked what its tags named is remembered,
  and a tag that did not go astray names that, or is one of those being loaded
  (`Remembered`); what was loaded is whole from then on (`Arrived`).
- **Servers.**  Every token in the saved file, in any command's copy of it and in
  a command about to save belongs to its URL (`TokensInv`); this holds with
  overlapping commands, whose stale copies are files of an earlier time.  A
  configuration has reached the new file, the server's file or the agent,
  according to its step (`ConfigureInv`), and nobody else writes meanwhile.
- **Releases.**  No file has two names (`Linked`), so writing the staged one leaves
  the binary and the bundle alone; what is written was proven to be the release's
  before the first block (`Proven`), and as many blocks hold it as were written
  (`Working`), so what `Replace` or `MoveIn` renames is whole.  On Windows the build
  that ran stands aside while the name is free (`Standing`).  Two commands that
  overlap may write one staged file, hence `~Overlap`.  `ReleaseAssumption` says that
  the index's digest is no manifest's.

Only model-checked:

- liveness (`RequestsAreAnswered`, `ShutdownEnds`, `Converges`,
  `DeploymentsComplete`, `JobsProgress`, `ComesThrough`, `MovesEnd`,
  `AllIsDone`), which is out of the prover's reach;
- `DocumentKept`, `FilesWhole`, `RoutesRight`, `LogsKeptAndFound` and
  `CommandsKeepTo`, which rest
  on what folds and recursive functions over sequences compute, an induction
  over data that the prover cannot use;
- `WithinBounds`, which counts replicas of two versions through every place of
  the rollout; `NeverSideBySide`, which holds only of behaviours without stops, and
  `StaysStopped`: both need the state of every container at every place;
- `NoStranger`, which holds by a race of clocks;
- `OnlyAnAnswer`, whose inductive invariant is still to be found.

## 7. Plan

Done, in this order: `AppLock` with its proofs; the application as `AppState`,
`Rollout`, `Supervision`, `Application`, with `DeploymentRecord`; the other parts
of the agent; moves between servers; the edges; the client; proofs of the
records, names, keys, exports, webhook, images, servers, releases, request counts and
access; of jobs, versions, the process, the standby, alerts and certificates; of
backups.

Next, most important first: `NeverSideBySide` without stops; `WithinBounds`; what
retention keeps (`NewestStays`, part of `ComesThrough`).

## 8. Not modelled

The commands of the client that are one request and a printed answer; the API's
views, its audit trail and its wire types; metrics and Prometheus, which are only
read back; the dashboard, which is a client; the translation of a specification
into Docker's options; `init` and `detect`, which write a file from questions;
the text of notifications and logs.  A stop of the agent inside `Recover` is left
out (each of its parts is idempotent), and so are the branch of `deploy` for a file
of which one application is chosen (`multi.go:113-123`), chunks of a backup file that
were exchanged, and a database that reports a failed
commit although it happened, except in `KeyRotation` (`CommitMayLie`).
