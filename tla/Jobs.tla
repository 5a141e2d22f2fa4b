-------------------------------- MODULE Jobs --------------------------------
(* One-off containers of one application: scheduled jobs, `shipwick run`    *)
(* commands and the pre-deploy hook (agent/internal/deploy/jobs.go,         *)
(* schedule.go, the hook and recovery parts of resume.go, Delete of         *)
(* operations.go, agent/internal/store/jobs.go).  A run is a row of         *)
(* job_runs, a container and the goroutine that waits for it; each can      *)
(* outlive the others.  The store answers every call; Docker may fail.      *)
EXTENDS Naturals, Sequences, FiniteSets, SequencesExt

CONSTANTS Jobs,         \* the jobs of deploy.yaml
          Every,        \* Every[j]: j fires each Every[j] minutes; 0: never
          Timeout,      \* Timeout[j]: minutes a run of j may take
          Kept,         \* jobRunsKept
          MaxMinute, MaxDeploys, MaxRequests, MaxStops,
          MaxFaults     \* calls of Docker that may fail

ASSUME JobsAssumption ==
  /\ Every \in [Jobs -> Nat]
  /\ Timeout \in [Jobs \cup {"pre-deploy", "run"} -> Nat]
  /\ {Kept, MaxMinute, MaxDeploys, MaxRequests, MaxStops, MaxFaults} \subseteq Nat
  /\ Kept > 0 /\ MaxMinute > 0
  /\ {"pre-deploy", "run"} \cap Jobs = {}   \* spec.ReservedJobNames

(* cleanupTimeout of engine.go, in minutes.                                 *)
CleanupTimeout == 2

VARIABLES
  agent,     \* "up", "closing" (Shutdown was called) or "down"
  lock,      \* who holds the application's lock
  app,       \* [exists, running (desired state), active]
  dep,       \* the deployment in flight: [id, phase, resumed]
  runs,      \* every run ever recorded, oldest first
  claims,    \* jobRunner.active
  lastTick,  \* jobRunner.lastTick; 0: not known
  tick,      \* the tick under way: [minute, due]
  minute,    \* the wall clock
  used       \* how often each bounded request was made

jobVars == <<agent, lock, app, dep, runs, claims, lastTick, tick, minute, used>>

Names == Jobs \cup {"pre-deploy", "run"}
NoDep == [id |-> 0, phase |-> "none", resumed |-> FALSE]
NoTick == [minute |-> 0, due |-> {}]
Run == [job : Names, kind : {"hook", "scheduled", "manual"}, dep : 0..MaxDeploys,
        status : {"running", "succeeded", "failed", "timed_out", "interrupted", "gone"},
        started : 1..MaxMinute,
        cont : {"none", "running", "exited"}, code : {0, 1},
        watch : {"no", "launch", "wait", "remove"}, draining : BOOLEAN,
        \* what kept a container that was to go: Docker failed, or the time
        \* for it was over before it was asked
        stuck : {"no", "docker", "late"}]

-----------------------------------------------------------------------------
(* A call of Docker: one made with a dead context fails, any other one may. *)
Docker(ok, dead) ==
  IF dead \/ ok THEN ok = ~dead /\ UNCHANGED used
  ELSE used.faults < MaxFaults /\ used' = [used EXCEPT !.faults = @ + 1]

(* A context that Shutdown cancels, when that happens before the call.      *)
Cancelled == {FALSE, agent = "closing"}

(* collectJob takes its cleanup context before it waits: once the run is    *)
(* older than cleanupTimeout every call made with it fails.                 *)
Expired(r) == minute - runs[r].started >= CleanupTimeout

(* claim and release of the job runner; commands are not exclusive, and the *)
(* hook is run by the deployment, which claims nothing.                     *)
Exclusive(j) == j \in Jobs
Claimable(j) == Exclusive(j) => j \notin claims
ClaimsAfter(r) == claims \ {runs[r].job}

WithRun(r, run) == [runs EXCEPT ![r] = run]

(* FinishJobRun: only a row that says running is updated.                   *)
Finished(run, status) == [run EXCEPT !.status = IF @ = "running" THEN status ELSE @]

(* PruneJobRuns: the rows of the job that are not among its newest Kept.    *)
Pruned(rs, j) ==
  LET Newer(i) == {k \in DOMAIN rs : k > i /\ rs[k].job = j /\ rs[k].status # "gone"}
  IN [i \in DOMAIN rs |->
        IF rs[i].job = j /\ Cardinality(Newer(i)) >= Kept
        THEN [rs[i] EXCEPT !.status = "gone"] ELSE rs[i]]

(* CreateJobRun.                                                            *)
Recorded(j, kind, d) ==
  Append(runs, [job |-> j, kind |-> kind, dep |-> d, status |-> "running",
                started |-> minute, cont |-> "none", code |-> 0,
                watch |-> "launch", draining |-> FALSE, stuck |-> "no"])

Launching == \E r \in DOMAIN runs : runs[r].watch = "launch"

(* What the lock's holder goes on with once the run it launched is started  *)
(* or has failed: startFromActive returns, the tick takes its next job, the *)
(* deployment waits for its hook.                                           *)
LockAfterLaunch == IF lock = "start" THEN "free" ELSE lock

JobsInit ==
  /\ agent = "up" /\ lock = "free"
  /\ app = [exists |-> FALSE, running |-> FALSE, active |-> 0]
  /\ dep = NoDep /\ runs = <<>> /\ claims = {} /\ lastTick = 0 /\ tick = NoTick
  /\ minute = 1 /\ used = [deploys |-> 0, requests |-> 0, stops |-> 0, faults |-> 0]

-----------------------------------------------------------------------------
(* launchJob, under the lock of whoever recorded the run.  A run whose      *)
(* container never started is finished here; a container that was created   *)
(* and not started is removed, if that works.                               *)
Launch(r) ==
  /\ runs[r].watch = "launch"
  /\ \E started \in BOOLEAN, dead \in Cancelled :
     /\ Docker(started, dead)
     /\ IF started
       THEN /\ runs' = WithRun(r, [runs[r] EXCEPT !.cont = "running", !.watch = "wait"])
            /\ claims' = claims
       ELSE /\ \E left \in IF dead THEN {"none"} ELSE {"none", "exited"} :
                 runs' = WithRun(r, [Finished(runs[r], "failed") EXCEPT !.cont = left, !.watch = "no",
                                       !.stuck = IF left = "none" THEN "no" ELSE "docker"])
            /\ claims' = ClaimsAfter(r)
  /\ lock' = LockAfterLaunch
  /\ UNCHANGED <<agent, app, dep, lastTick, tick, minute>>

(* startFromActive with RunJob or RunCommand: under the lock, from the      *)
(* active deployment.  Refusals leave everything as it was.                 *)
StartRun(j) ==
  /\ agent = "up" /\ lock = "free" /\ app.exists /\ app.active # 0
  /\ used.requests < MaxRequests
  /\ Claimable(j)
  /\ claims' = IF Exclusive(j) THEN claims \cup {j} ELSE claims
  /\ runs' = Recorded(j, "manual", app.active)
  /\ lock' = "start"
  /\ used' = [used EXCEPT !.requests = @ + 1]
  /\ UNCHANGED <<agent, app, dep, lastTick, tick, minute>>

RunJob == \E j \in Jobs : StartRun(j)
RunCommand == StartRun("run")

-----------------------------------------------------------------------------
(* Schedule.Matches.                                                        *)
Fires(j, m) == Every[j] # 0 /\ m % Every[j] = 0

(* Schedule.Next: the first firing after a minute, or the zero time - which *)
(* lies before every minute - when there is none.                           *)
NextFiring(j, after) == IF Every[j] = 0 THEN 0 ELSE (after \div Every[j] + 1) * Every[j]

(* Mutant: the window of a busy application moves on as well.               *)
ScheduleTickBusy ==
  /\ agent = "up" /\ lock \in {"free", "deploy"}
  /\ app.exists /\ app.active # 0 /\ app.running
  /\ LET last == IF lastTick = 0 THEN minute - 1 ELSE lastTick IN
     /\ minute > last
     /\ IF lock = "deploy" THEN lastTick' = minute /\ UNCHANGED <<tick, lock>>
        ELSE /\ tick' = [minute |-> minute, due |-> {j \in Jobs : ~(NextFiring(j, last) > minute)}]
             /\ lock' = "tick" /\ UNCHANGED lastTick
  /\ UNCHANGED <<agent, app, dep, runs, claims, minute, used>>

(* scheduleJobs: the window begins where the last tick ended, or with the   *)
(* current minute; a busy application keeps its window for the next tick.   *)
ScheduleTick ==
  /\ agent = "up" /\ lock = "free"
  /\ app.exists /\ app.active # 0 /\ app.running
  /\ LET last == IF lastTick = 0 THEN minute - 1 ELSE lastTick
     IN /\ minute > last
        /\ tick' = [minute |-> minute,
                    due |-> {j \in Jobs : ~(NextFiring(j, last) > minute)}]
  /\ lock' = "tick"
  /\ UNCHANGED <<agent, app, dep, runs, claims, lastTick, minute, used>>

(* scheduleApp starts one due job: skipped while it runs, refused when the  *)
(* engine is closing.                                                       *)
ScheduleStart(j) ==
  /\ lock = "tick" /\ j \in tick.due /\ ~Launching
  /\ tick' = [tick EXCEPT !.due = @ \ {j}]
  /\ IF Claimable(j) /\ agent = "up"
     THEN /\ claims' = claims \cup {j}
          /\ runs' = Recorded(j, "scheduled", app.active)
     ELSE UNCHANGED <<claims, runs>>
  /\ UNCHANGED <<agent, lock, app, dep, lastTick, minute, used>>

(* Every due job was looked at: unlock, and the window moves on, whatever   *)
(* became of the starts.                                                    *)
ScheduleDone ==
  /\ lock = "tick" /\ tick.due = {} /\ ~Launching
  /\ lastTick' = tick.minute /\ tick' = NoTick /\ lock' = "free"
  /\ UNCHANGED <<agent, app, dep, runs, claims, minute, used>>

(* The end of scheduleJobs: an application that is gone is forgotten.       *)
ScheduleForget ==
  /\ agent = "up" /\ ~app.exists /\ lastTick # 0
  /\ lastTick' = 0
  /\ UNCHANGED <<agent, lock, app, dep, runs, claims, tick, minute, used>>

-----------------------------------------------------------------------------
(* collectJob: the process ended by itself, or its container was removed    *)
(* under it; the outcome is recorded.                                       *)
CollectExit(r) ==
  /\ runs[r].watch = "wait" /\ runs[r].cont # "running"
  /\ LET failed == runs[r].cont = "none" \/ runs[r].code # 0
     IN runs' = WithRun(r, [Finished(runs[r], IF failed THEN "failed" ELSE "succeeded")
                              EXCEPT !.watch = "remove"])
  /\ UNCHANGED <<agent, lock, app, dep, claims, lastTick, tick, minute, used>>

(* collectJob: the wait ended before the process did.  Stop, then record.   *)
CutOff(r, status) ==
  /\ runs[r].watch = "wait" /\ runs[r].cont = "running"
  /\ \E stopped \in BOOLEAN :
       /\ Docker(stopped, Expired(r))
       /\ runs' = WithRun(r, [Finished(runs[r], status)
                                 EXCEPT !.watch = "remove", !.code = 1,
                                        !.cont = IF stopped THEN "exited" ELSE @])
  /\ UNCHANGED <<agent, lock, app, dep, claims, lastTick, tick, minute>>

(* By its timeout, or by Shutdown.                                          *)
CollectCutOff(r) ==
  /\ agent = "closing" \/ minute - runs[r].started >= Timeout[runs[r].job]
  /\ CutOff(r, IF agent = "closing" THEN "interrupted" ELSE "timed_out")

(* Or Docker stopped answering.                                             *)
WaitFails(r) == agent = "up" /\ used.faults < MaxFaults /\ CutOff(r, "failed")

(* collectJob's deferred removal, and for a run of its own goroutine        *)
(* reportRun's pruning, the release of the claim and opDone.                *)
CollectRemove(r) ==
  /\ runs[r].watch = "remove"
  /\ \E removed \in BOOLEAN :
       /\ Docker(removed, Expired(r))
       /\ LET gone == WithRun(r, [runs[r] EXCEPT !.watch = "no", !.cont = IF removed THEN "none" ELSE @,
                         !.stuck = IF removed THEN "no" ELSE IF Expired(r) THEN "late" ELSE "docker",
                         !.code = 0])
          IN runs' = IF runs[r].kind = "hook" THEN gone ELSE Pruned(gone, runs[r].job)
  /\ claims' = ClaimsAfter(r)
  /\ UNCHANGED <<agent, lock, app, dep, lastTick, tick, minute>>

-----------------------------------------------------------------------------
(* A deployment takes the lock; the rest of its rollout is module Rollout.  *)
Deploy ==
  /\ agent = "up" /\ lock = "free" /\ used.deploys < MaxDeploys
  /\ used' = [used EXCEPT !.deploys = @ + 1]
  /\ app' = [app EXCEPT !.exists = TRUE, !.running = IF app.exists THEN @ ELSE TRUE]
  /\ dep' = [id |-> used.deploys + 1, phase |-> "begun", resumed |-> FALSE]
  /\ lock' = "deploy"
  /\ UNCHANGED <<agent, runs, claims, lastTick, tick, minute>>

(* Mutant: only a hook that succeeded is remembered.                        *)
HookRunsSucceeded == {r \in DOMAIN runs : runs[r].kind = "hook" /\ runs[r].dep = dep.id
                                          /\ runs[r].status = "succeeded"}

(* runHookOnce finds no earlier run of this deployment's hook, and runHook  *)
(* records one.                                                             *)
HookRuns == {r \in DOMAIN runs : runs[r].kind = "hook" /\ runs[r].dep = dep.id
                                 /\ runs[r].status # "gone"}
RunHook ==
  /\ lock = "deploy" /\ dep.phase = "begun" /\ agent = "up"
  /\ dep.resumed => HookRuns = {}
  /\ runs' = Recorded("pre-deploy", "hook", dep.id)
  /\ dep' = [dep EXCEPT !.phase = "hook"]
  /\ UNCHANGED <<agent, lock, app, claims, lastTick, tick, minute, used>>

(* runHookOnce of a resumed deployment whose hook was begun before.         *)
HookWasRun ==
  /\ lock = "deploy" /\ dep.phase = "begun" /\ agent = "up"
  /\ dep.resumed /\ HookRuns # {}
  /\ LET last == CHOOSE r \in HookRuns : \A k \in HookRuns : k <= r
     IN dep' = [dep EXCEPT !.phase = IF runs[last].status = "succeeded" THEN "after" ELSE "failed"]
  /\ UNCHANGED <<agent, lock, app, runs, claims, lastTick, tick, minute, used>>

(* runHook returns: the verdict is the run's, not its row's.                *)
HookDone ==
  /\ lock = "deploy" /\ dep.phase = "hook"
  /\ agent = "up"
  /\ \E r \in HookRuns :
       /\ \A k \in HookRuns : k <= r
       /\ runs[r].watch = "no"
       /\ dep' = [dep EXCEPT !.phase = IF runs[r].status = "succeeded" THEN "after" ELSE "failed"]
  /\ UNCHANGED <<agent, lock, app, runs, claims, lastTick, tick, minute, used>>

(* The rollout after the hook: committed, or failed.                        *)
DeployEnds ==
  /\ lock = "deploy" /\ dep.phase \in {"after", "failed"}
  /\ \E ok \in {dep.phase = "after", FALSE} :
       app' = IF ok THEN [app EXCEPT !.active = dep.id, !.running = TRUE] ELSE app
  /\ dep' = NoDep /\ lock' = "free"
  /\ UNCHANGED <<agent, runs, claims, lastTick, tick, minute, used>>

(* The shutdown reaches the deployment: it lets go and stays in flight.     *)
DeployInterrupted ==
  /\ lock = "deploy" /\ agent = "closing" /\ ~Launching
  /\ \A r \in HookRuns : runs[r].watch = "no"
  /\ lock' = "free"
  /\ UNCHANGED <<agent, app, dep, runs, claims, lastTick, tick, minute, used>>

-----------------------------------------------------------------------------
(* Delete: every container that is listed and not already on its way out is *)
(* stopped and removed; one that cannot be ends the deletion.               *)
DeleteRetire ==
  /\ agent = "up" /\ lock = "free" /\ app.exists /\ used.requests < MaxRequests
  /\ LET listed == {r \in DOMAIN runs : runs[r].cont # "none" /\ ~runs[r].draining}
     IN \E ok \in BOOLEAN : \E gone \in IF ok THEN {listed} ELSE SUBSET listed :
          /\ ok \/ used.faults < MaxFaults
          /\ used' = [used EXCEPT !.requests = @ + 1, !.faults = IF ok THEN @ ELSE @ + 1]
          /\ runs' = [r \in DOMAIN runs |-> IF r \in gone THEN [runs[r] EXCEPT !.cont = "none"] ELSE runs[r]]
          /\ lock' = IF ok THEN "delete" ELSE "free"
  /\ UNCHANGED <<agent, app, dep, claims, lastTick, tick, minute>>

(* awaitDrains has returned: the records go.                                *)
DeleteRecords ==
  /\ lock = "delete" /\ \A r \in DOMAIN runs : ~runs[r].draining
  /\ runs' = [r \in DOMAIN runs |-> [runs[r] EXCEPT !.status = "gone"]]
  /\ app' = [exists |-> FALSE, running |-> FALSE, active |-> 0]
  /\ lock' = "free"
  /\ UNCHANGED <<agent, dep, claims, lastTick, tick, minute, used>>

(* Stop and Start, as far as jobs see them: the desired state.              *)
StopOrStart ==
  /\ agent = "up" /\ lock = "free" /\ app.exists /\ app.active # 0
  /\ used.requests < MaxRequests
  /\ used' = [used EXCEPT !.requests = @ + 1]
  /\ app' = [app EXCEPT !.running = ~@]
  /\ UNCHANGED <<agent, lock, dep, runs, claims, lastTick, tick, minute>>

-----------------------------------------------------------------------------
Shutdown ==
  /\ agent = "up" /\ used.stops < MaxStops
  /\ agent' = "closing" /\ used' = [used EXCEPT !.stops = @ + 1]
  /\ UNCHANGED <<lock, app, dep, runs, claims, lastTick, tick, minute>>

(* What dies with the process: the lock, the claims, the last tick and the  *)
(* goroutines that wait for containers or drain them.                       *)
Dead ==
  /\ agent' = "down" /\ lock' = "free" /\ claims' = {} /\ lastTick' = 0 /\ tick' = NoTick
  /\ runs' = [r \in DOMAIN runs |-> [runs[r] EXCEPT !.watch = "no", !.draining = FALSE]]
  /\ UNCHANGED <<app, dep, minute>>

(* Shutdown returns once no operation is left; a crash waits for nobody.    *)
Exit ==
  /\ agent = "closing" /\ lock = "free"
  /\ \A r \in DOMAIN runs : runs[r].watch = "no" /\ ~runs[r].draining
  /\ Dead /\ UNCHANGED used

Crash ==
  /\ agent # "down" /\ used.stops < MaxStops
  /\ Dead /\ used' = [used EXCEPT !.stops = @ + 1]

(* Recover: runs that say running are marked interrupted, job containers of *)
(* a known application are leftovers, retired in the background, and a      *)
(* deployment in flight takes the lock again.                               *)
Recover ==
  /\ agent = "down" /\ agent' = "up"
  /\ runs' = [r \in DOMAIN runs |-> [Finished(runs[r], "interrupted") EXCEPT
                !.draining = runs[r].cont # "none" /\ app.exists]]
  /\ IF dep.phase = "none"
     THEN UNCHANGED <<dep, lock>>
     ELSE dep' = [dep EXCEPT !.phase = "begun", !.resumed = TRUE] /\ lock' = "deploy"
  /\ UNCHANGED <<app, claims, lastTick, tick, minute, used>>

(* A background drain ends, or gives up; Shutdown cuts it short.            *)
DrainEnds(r) ==
  /\ runs[r].draining
  /\ \E ok \in BOOLEAN, dead \in Cancelled :
       /\ Docker(ok, dead)
       /\ runs' = WithRun(r, [runs[r] EXCEPT !.draining = FALSE, !.cont = IF ok THEN "none" ELSE @,
                                 !.stuck = IF ok THEN "no" ELSE "docker"])
  /\ UNCHANGED <<agent, lock, app, dep, claims, lastTick, tick, minute>>

-----------------------------------------------------------------------------
(* The world: a container's process ends, time passes.  Of the exit codes   *)
(* only the hook's decides anything.                                        *)
ProcessExits(r) ==
  /\ runs[r].cont = "running"
  /\ \E code \in IF runs[r].kind = "hook" THEN {0, 1} ELSE {0} :
       runs' = WithRun(r, [runs[r] EXCEPT !.cont = "exited", !.code = code])
  /\ UNCHANGED <<agent, lock, app, dep, claims, lastTick, tick, minute, used>>

(* A wait that is over is noticed, and followed up, within the minute: a     *)
(* timer and three calls of Docker take seconds.                            *)
Overdue(r) ==
  \/ runs[r].watch \in {"launch", "remove"}
  \/ /\ runs[r].watch = "wait"
     /\ runs[r].cont # "running" \/ minute - runs[r].started >= Timeout[runs[r].job]

Minute ==
  /\ minute < MaxMinute /\ minute' = minute + 1
  /\ \A r \in DOMAIN runs : ~Overdue(r)
  /\ UNCHANGED <<agent, lock, app, dep, runs, claims, lastTick, tick, used>>

RunStep(r) ==
  \/ Launch(r) \/ CollectExit(r) \/ CollectCutOff(r) \/ CollectRemove(r) \/ DrainEnds(r)

AgentStep ==
  \/ \E r \in DOMAIN runs : RunStep(r)
  \/ ScheduleTick \/ (\E j \in Jobs : ScheduleStart(j)) \/ ScheduleDone \/ ScheduleForget
  \/ RunHook \/ HookWasRun \/ HookDone \/ DeployEnds \/ DeployInterrupted
  \/ DeleteRecords \/ Exit \/ Recover

JobsNext ==
  \/ AgentStep
  \/ RunJob \/ RunCommand \/ Deploy \/ DeleteRetire \/ StopOrStart
  \/ Shutdown \/ Crash \/ Minute
  \/ \E r \in DOMAIN runs : WaitFails(r) \/ ProcessExits(r)

JobsSpec == JobsInit /\ [][JobsNext]_jobVars

(* Fairness: the agent's goroutines run, the agent is started again and the *)
(* clock goes on.  Each of its steps is taken a bounded number of times, so *)
(* fairness to all of them together starves none.  No process in a          *)
(* container is trusted to end.                                             *)
JobsFairSpec == JobsSpec /\ WF_jobVars(AgentStep) /\ WF_jobVars(Minute)

-----------------------------------------------------------------------------
(* Type invariant of the runs, the claims and the lock.                     *)
JobsTypeOK ==
  /\ agent \in {"up", "closing", "down"}
  /\ lock \in {"free", "start", "tick", "deploy", "delete"}
  /\ app \in [exists : BOOLEAN, running : BOOLEAN, active : 0..MaxDeploys]
  /\ dep \in [id : 0..MaxDeploys, phase : {"none", "begun", "hook", "after", "failed"},
              resumed : BOOLEAN]
  /\ runs \in Seq(Run) /\ claims \subseteq Jobs
  /\ minute \in 1..MaxMinute /\ lastTick \in 0..MaxMinute
  /\ tick \in [minute : 0..MaxMinute, due : SUBSET Jobs]

(* One run per job at a time: while the agent runs, no two containers of a *)
(* job run next to each other, save one that it is taking away or that was *)
(* not given up.                                                            *)
OneRunPerJob ==
  agent # "down" =>
    \A r, k \in DOMAIN runs :
      /\ r # k /\ runs[r].job = runs[k].job /\ Exclusive(runs[r].job)
      /\ {runs[r].cont, runs[k].cont} = {"running"}
      => \E x \in {r, k} : runs[x].draining \/ runs[x].stuck # "no"

(* The pre-deploy command of a deployment is run at most once, however      *)
(* often the agent stops, and no version becomes active unless its command  *)
(* succeeded.                                                               *)
HookOnce ==
  /\ \A r, k \in DOMAIN runs :
       runs[r].kind = "hook" /\ runs[k].kind = "hook" /\ runs[r].dep = runs[k].dep => r = k
  /\ app.active # 0 => \E r \in DOMAIN runs :
       runs[r].kind = "hook" /\ runs[r].dep = app.active /\ runs[r].status = "succeeded"

(* Delete leaves no container behind: whatever was being started, waited    *)
(* for or drained, an application that is gone has no container, save one   *)
(* whose drain failed while Delete waited for it.                           *)
NoOrphans == ~app.exists => \A r \in DOMAIN runs : runs[r].cont = "none" \/ runs[r].stuck # "no"

(* A row that says running has somebody who will finish it: the goroutine   *)
(* that waits for the container, or the next start of the agent.            *)
RunningIsWatched ==
  agent # "down" => \A r \in DOMAIN runs : runs[r].status = "running" => runs[r].watch \in {"launch", "wait"}

(* Every run comes to an end in its record, at the latest when its time is  *)
(* up, however often the agent stops.                                       *)
RunsEnd ==
  <>[](\A r \in DOMAIN runs :
         runs[r].status = "running" => minute - runs[r].started < Timeout[runs[r].job])

(* A run that timed out has ended, command and container: nothing of it is  *)
(* left once it was collected, unless it was not given up; and time is short*)
(* only for a run that was given cleanupTimeout or more.                    *)
TimeoutEndsCommand ==
  \A r \in DOMAIN runs :
    /\ runs[r].status = "timed_out" /\ runs[r].watch = "no"
       => runs[r].cont = "none" \/ runs[r].stuck # "no" \/ runs[r].draining \/ agent = "down"
    /\ runs[r].stuck = "late" => Timeout[runs[r].job] >= CleanupTimeout

(* A minute that falls due while the application is meant to run is not     *)
(* lost, also when a deployment holds the lock: a run of the job is started *)
(* or one is going on - unless the agent stopped, or has not looked at the  *)
(* application before.  (A clock that stops while a deployment waits for    *)
(* its pre-deploy command says nothing.)                                    *)
Serving == agent = "up" /\ app.exists /\ app.active # 0 /\ app.running /\ lastTick # 0
ClockStopped == minute = MaxMinute /\ lock = "deploy" /\ dep.phase = "hook"
FiringIsHonoured ==
  \A j \in Jobs : \A m \in {n \in 1..MaxMinute : Fires(j, n)} :
    [](/\ minute = m
       /\ Serving /\ lastTick < m /\ tick.minute < m
       => \/ <>(\/ ~Serving \/ j \in claims
                 \/ \E r \in DOMAIN runs : runs[r].job = j /\ runs[r].started >= m)
          \/ <>[]ClockStopped)

(* Only what is due is started: the schedule of a scheduled run fired at or *)
(* before the minute it was started in, unless it is one that never fires.  *)
StartedWhenDue ==
  \A r \in DOMAIN runs : runs[r].kind = "scheduled" =>
    Every[runs[r].job] = 0 \/ \E m \in 1..runs[r].started : Fires(runs[r].job, m)

(* Jobs and hooks run once, when they are due and under somebody's eyes,   *)
(* and leave nothing behind (startJob, finishRun, runHook).                *)
JobsSafe == JobsTypeOK /\ OneRunPerJob /\ HookOnce /\ NoOrphans /\ RunningIsWatched /\ StartedWhenDue /\ TimeoutEndsCommand

(* What was started ends and what is due is started (startJob, finishRun). *)
JobsProgress == RunsEnd /\ FiringIsHonoured
=============================================================================
