----------------------------- MODULE AgentProofs ----------------------------
(***************************************************************************)
(* The parts of the agent beside the rollout.  Of the jobs: for any jobs,  *)
(* schedules, timeouts, deployments, failures of Docker and stops of the   *)
(* agent, no job runs twice at once, a pre-deploy command runs once, every *)
(* run has somebody who ends it, and a deleted application leaves nothing. *)
(* Of the process: for any requests, operations, faults and signals, what  *)
(* is used is open and what was asked today is not asked again.  Of the    *)
(* versions: what is served is whole, and what a rollback would serve is   *)
(* still on the server.                                                    *)
(***************************************************************************)
EXTENDS Jobs, AgentProcess, Versions, SequenceTheorems, TLAPS

-----------------------------------------------------------------------------
(* The inductive invariant.                                                 *)

UsedOK == used \in [deploys : Nat, requests : Nat, stops : Nat, faults : Nat]
          /\ used.deploys <= MaxDeploys

(* Who holds the lock, and what that says of the deployment.                *)
Holders ==
  /\ agent = "down" => lock = "free" /\ claims = {}
  /\ lock \in {"start", "tick", "delete"} => dep.phase = "none"
  /\ lock = "deploy" => dep.phase # "none"
  /\ agent = "up" /\ dep.phase # "none" => lock = "deploy"
  /\ lock # "free" \/ dep.phase # "none" => app.exists

Fired(j, n) == Every[j] = 0 \/ \E m \in 1..n : Fires(j, m)

TickIsDue == \A j \in tick.due : Fired(j, minute)

(* The goroutine of a run, while there is one: it is within its time, holds *)
(* the claim of its job, and a run is launched by whoever holds the lock.   *)
Watcher(r) ==
  /\ runs[r].draining => runs[r].watch = "no"
  /\ agent = "down" => runs[r].watch = "no" /\ ~runs[r].draining
  /\ runs[r].watch # "no" =>
       /\ runs[r].started <= minute /\ minute - runs[r].started <= Timeout[runs[r].job]
       /\ Exclusive(runs[r].job) => runs[r].job \in claims
  /\ runs[r].watch = "launch" =>
       /\ runs[r].cont = "none"
       /\ lock \in {"start", "tick", "deploy"}
       /\ lock = "deploy" => dep.phase = "hook" /\ runs[r].kind = "hook" /\ runs[r].dep = dep.id
Watchers == \A r \in DOMAIN runs : Watcher(r)

(* No two goroutines launch, and none watch runs of one exclusive job.      *)
Alone ==
  \A r, k \in DOMAIN runs :
    /\ runs[r].watch = "launch" /\ runs[k].watch = "launch" => r = k
    /\ /\ runs[r].watch # "no" /\ runs[k].watch # "no"
       /\ runs[r].job = runs[k].job /\ Exclusive(runs[r].job)
       => r = k

(* A container that nobody watches is being taken away, or was not given up.*)
Left(r) == runs[r].cont # "none" /\ ~runs[r].draining /\ runs[r].stuck = "no"
Container(r) ==
  /\ agent # "down" /\ Left(r) => runs[r].watch # "no"
  /\ lock = "delete" => ~Left(r)
  /\ runs[r].stuck = "late" => Timeout[runs[r].job] >= CleanupTimeout
Containers == \A r \in DOMAIN runs : Container(r)

(* The hooks: one of a deployment, which is known as long as it matters.    *)
HookRow(r) ==
  /\ runs[r].kind = "hook" <=> runs[r].job = "pre-deploy"
  /\ runs[r].kind = "hook" => runs[r].dep <= used.deploys
  /\ runs[r].kind = "hook" /\ dep.phase # "none" /\ runs[r].dep = dep.id =>
       /\ runs[r].status # "gone"
       /\ dep.phase = "begun" => dep.resumed
Passed(d) == \E r \in DOMAIN runs : runs[r].kind = "hook" /\ runs[r].dep = d /\ runs[r].status = "succeeded"
Hooks ==
  /\ \A r \in DOMAIN runs : HookRow(r)
  /\ dep.phase # "none" => dep.id = used.deploys
  /\ dep.phase = "after" => Passed(dep.id)
  /\ HookOnce

JobsInv ==
  /\ JobsTypeOK /\ UsedOK /\ Holders /\ TickIsDue /\ Watchers /\ Alone /\ Containers /\ Hooks
  /\ NoOrphans /\ RunningIsWatched /\ StartedWhenDue

-----------------------------------------------------------------------------
(* How the runs change.                                                     *)

(* The fields of a recorded run.                                            *)
LEMMA RunFields ==
  ASSUME NEW x \in Run
  PROVE  /\ x.job \in Names /\ x.kind \in {"hook", "scheduled", "manual"} /\ x.dep \in 0..MaxDeploys
         /\ x.status \in {"running", "succeeded", "failed", "timed_out", "interrupted", "gone"}
         /\ x.started \in 1..MaxMinute /\ x.cont \in {"none", "running", "exited"}
         /\ x.code \in {0, 1} /\ x.watch \in {"no", "launch", "wait", "remove"}
         /\ x.draining \in BOOLEAN /\ x.stuck \in {"no", "docker", "late"}
  BY DEF Run

(* One row is replaced.                                                     *)
LEMMA WithRunIs ==
  ASSUME runs \in Seq(Run), NEW r \in DOMAIN runs, NEW x \in Run
  PROVE  /\ WithRun(r, x) \in Seq(Run) /\ DOMAIN WithRun(r, x) = DOMAIN runs
         /\ WithRun(r, x)[r] = x
         /\ \A k \in DOMAIN runs : k # r => WithRun(r, x)[k] = runs[k]
<1> DEFINE S == Run
<1>1. runs \in Seq(S) /\ x \in S
  OBVIOUS
<1> HIDE DEF S
<1>2. WithRun(r, x) \in Seq(S)
  BY <1>1 DEF WithRun
<1> QED
  BY <1>2 DEF WithRun, S

(* Rows are rewritten one by one.                                           *)
LEMMA FinishedIs ==
  ASSUME NEW x \in Run, NEW st \in {"failed", "succeeded", "interrupted", "timed_out"}
  PROVE  /\ Finished(x, st) \in Run
         /\ Finished(x, st).status = IF x.status = "running" THEN st ELSE x.status
         /\ Finished(x, st).job = x.job /\ Finished(x, st).kind = x.kind
         /\ Finished(x, st).dep = x.dep /\ Finished(x, st).started = x.started
         /\ Finished(x, st).cont = x.cont /\ Finished(x, st).watch = x.watch
         /\ Finished(x, st).draining = x.draining /\ Finished(x, st).stuck = x.stuck
         /\ Finished(x, st).code = x.code
  BY DEF Finished, Run

(* pruneRuns changes nothing of a row but that it may be gone, and only of  *)
(* rows of that job.                                                        *)
LEMMA PrunedIs ==
  ASSUME NEW rs \in Seq(Run), NEW j
  PROVE  /\ Pruned(rs, j) \in Seq(Run) /\ DOMAIN Pruned(rs, j) = DOMAIN rs
         /\ \A i \in DOMAIN rs : \/ Pruned(rs, j)[i] = rs[i]
                                 \/ rs[i].job = j /\ Pruned(rs, j)[i] = [rs[i] EXCEPT !.status = "gone"]
<1> DEFINE Newer(i) == {k \in DOMAIN rs : k > i /\ rs[k].job = j /\ rs[k].status # "gone"}
           P(i) == rs[i].job = j /\ Cardinality(Newer(i)) >= Kept
           f == [i \in DOMAIN rs |-> IF P(i) THEN [rs[i] EXCEPT !.status = "gone"] ELSE rs[i]]
<1>1. Pruned(rs, j) = f
  BY DEF Pruned
<1>2. \A i \in DOMAIN rs : P(i) => rs[i].job = j
  OBVIOUS
<1> HIDE DEF P
<1>3. \A i \in DOMAIN rs : f[i] \in Run
  <2> TAKE i \in DOMAIN rs
  <2>1. rs[i] \in Run
    OBVIOUS
  <2>2. [rs[i] EXCEPT !.status = "gone"] \in Run
    BY <2>1 DEF Run
  <2> QED
    BY <2>1, <2>2
<1> DEFINE S == Run
<1>4. rs \in Seq(S) /\ \A i \in DOMAIN rs : f[i] \in S
  BY <1>3
<1>5. \A i \in DOMAIN rs : \/ f[i] = rs[i]
                           \/ rs[i].job = j /\ f[i] = [rs[i] EXCEPT !.status = "gone"]
  BY <1>2
<1> HIDE DEF S
<1>6. f \in Seq(S) /\ DOMAIN f = DOMAIN rs
  BY <1>4
<1> QED
  BY <1>1, <1>5, <1>6 DEF S

(* A run is recorded.                                                       *)
NewRow(n, j, kind, d) ==
  /\ n \in DOMAIN runs' /\ n \notin DOMAIN runs
  /\ \A k \in DOMAIN runs : k \in DOMAIN runs' /\ runs'[k] = runs[k]
  /\ \A k \in DOMAIN runs' : k # n => k \in DOMAIN runs
  /\ runs'[n].job = j /\ runs'[n].kind = kind /\ runs'[n].dep = d
  /\ runs'[n].status = "running" /\ runs'[n].started = minute
  /\ runs'[n].cont = "none" /\ runs'[n].watch = "launch"
  /\ runs'[n].draining = FALSE /\ runs'[n].stuck = "no"

(* RecordRun appends one row, of a run that is to be launched, and prunes   *)
(* rows of its job.                                                         *)
LEMMA RecordedIs ==
  ASSUME JobsTypeOK, NEW j \in Names, NEW kind \in {"hook", "scheduled", "manual"}, NEW d \in 0..MaxDeploys,
         runs' = Recorded(j, kind, d)
  PROVE  /\ runs' \in Seq(Run)
         /\ \E n \in Nat : NewRow(n, j, kind, d)
<1> DEFINE y == [job |-> j, kind |-> kind, dep |-> d, status |-> "running",
                started |-> minute, cont |-> "none", code |-> 0,
                watch |-> "launch", draining |-> FALSE, stuck |-> "no"]
           S == Run
<1>1. y \in S
  BY DEF Run, JobsTypeOK
<1>2. /\ y.job = j /\ y.kind = kind /\ y.dep = d /\ y.status = "running" /\ y.started = minute
      /\ y.cont = "none" /\ y.watch = "launch" /\ y.draining = FALSE /\ y.stuck = "no"
  OBVIOUS
<1>3. runs' = Append(runs, y) /\ runs \in Seq(S)
  BY DEF Recorded, JobsTypeOK
<1> HIDE DEF y, S
<1>4. PICK n \in Nat : n = Len(runs) + 1
  BY <1>3
<1>5. /\ runs' \in Seq(S) /\ n \in DOMAIN runs' /\ n \notin DOMAIN runs /\ runs'[n] = y
      /\ \A k \in DOMAIN runs : k \in DOMAIN runs' /\ runs'[k] = runs[k]
      /\ \A k \in DOMAIN runs' : k # n => k \in DOMAIN runs
  BY <1>1, <1>3, <1>4
<1> QED
  BY <1>2, <1>5 DEF S, NewRow

(* A call of Docker costs a fault at most.                                  *)
LEMMA DockerIs ==
  ASSUME UsedOK, NEW ok, NEW dead, Docker(ok, dead)
  PROVE  UsedOK' /\ used'.deploys = used.deploys
  BY DEF Docker, UsedOK

-----------------------------------------------------------------------------
(* What leaves parts of the invariant alone.                                *)

(* A row keeps what identifies its run, and a hook's row its outcome.       *)
Evolves(r) ==
  /\ runs'[r].job = runs[r].job /\ runs'[r].kind = runs[r].kind
  /\ runs'[r].dep = runs[r].dep /\ runs'[r].started = runs[r].started
  /\ runs[r].kind = "hook" =>
       /\ runs[r].status = "succeeded" => runs'[r].status = "succeeded"
       /\ runs[r].status # "gone" => runs'[r].status # "gone"

(* While no hook loses its outcome or its row, what is known of the hooks   *)
(* stays so.                                                                *)
LEMMA HooksKept ==
  ASSUME Hooks, DOMAIN runs' = DOMAIN runs, \A r \in DOMAIN runs : Evolves(r),
         UNCHANGED <<dep, app>>, used'.deploys = used.deploys
  PROVE  Hooks'
<1>1. \A r \in DOMAIN runs' : HookRow(r)'
  BY DEF Hooks, HookRow, Evolves
<1>2. \A d : Passed(d) => \E r \in DOMAIN runs' : runs'[r].kind = "hook" /\ runs'[r].dep = d /\ runs'[r].status = "succeeded"
  BY DEF Passed, Evolves
<1>3. (dep'.phase = "after" => Passed(dep.id)')
  BY <1>2 DEF Hooks, Passed
<1>4. HookOnce'
  <2>1. \A r, k \in DOMAIN runs' :
          runs'[r].kind = "hook" /\ runs'[k].kind = "hook" /\ runs'[r].dep = runs'[k].dep => r = k
    BY DEF Hooks, HookOnce, Evolves
  <2>2. app.active # 0 => Passed(app.active)
    BY DEF Hooks, HookOnce, Passed
  <2> QED
    BY <1>2, <2>1, <2>2 DEF HookOnce
<1> QED
  BY <1>1, <1>3, <1>4 DEF Hooks

(* A run keeps its start, so a scheduled one that was due stays one.        *)
LEMMA DueKept ==
  ASSUME StartedWhenDue, DOMAIN runs' = DOMAIN runs, \A r \in DOMAIN runs : Evolves(r)
  PROVE  StartedWhenDue'
  BY DEF StartedWhenDue, Evolves

(* Nothing but the rows, the claims and the counters of calls changes.      *)
Others == UNCHANGED <<agent, app, dep, lastTick, tick, minute>> /\ UsedOK' /\ used'.deploys = used.deploys

(* Types, for a step that changes rows, claims and the lock only.           *)
LEMMA TypeKept ==
  ASSUME JobsTypeOK, Others, lock' \in {"free", "start", "tick", "deploy", "delete"},
         runs' \in Seq(Run), claims' \subseteq Jobs
  PROVE  JobsTypeOK'
  BY DEF JobsTypeOK, Others

(* A tick that is not touched stays as due as it was.                       *)
LEMMA TickKept == ASSUME TickIsDue, UNCHANGED <<tick, minute>> PROVE TickIsDue'
  BY DEF TickIsDue, Fired

(* What the type invariant says of each row.                                *)
LEMMA TypedRuns ==
  ASSUME JobsTypeOK
  PROVE  runs \in Seq(Run) /\ \A r \in DOMAIN runs : runs[r] \in Run
<1> DEFINE S == Run
<1>1. runs \in Seq(S)
  BY DEF JobsTypeOK
<1> HIDE DEF S
<1>2. \A r \in DOMAIN runs : runs[r] \in S
  BY <1>1
<1> QED
  BY <1>1, <1>2 DEF S

(* launch: the container is started and waited for, or the run has failed   *)
(* and its claim is given back.                                             *)
LEMMA LaunchKeeps ==
  ASSUME JobsAssumption, JobsInv, NEW r \in DOMAIN runs, Launch(r)
  PROVE  JobsInv'
<1> USE DEF JobsInv
<1>0. runs[r] \in Run /\ runs[r].watch = "launch" /\ runs \in Seq(Run)
  BY TypedRuns DEF Launch
<1>1. /\ runs[r].cont = "none" /\ lock \in {"start", "tick", "deploy"} /\ agent # "down" /\ app.exists
      /\ lock = "deploy" => dep.phase = "hook"
  BY <1>0 DEF Watchers, Watcher, Holders
<1>2. /\ DOMAIN runs' = DOMAIN runs /\ runs' \in Seq(Run) /\ Others
      /\ \A k \in DOMAIN runs : k # r => runs'[k] = runs[k]
      /\ runs'[r].job = runs[r].job /\ runs'[r].kind = runs[r].kind
      /\ runs'[r].dep = runs[r].dep /\ runs'[r].started = runs[r].started
      /\ runs'[r].draining = runs[r].draining
      /\ runs[r].status # "running" => runs'[r].status = runs[r].status
      /\ \/ /\ runs'[r].watch = "wait" /\ claims' = claims
            /\ runs'[r].stuck = runs[r].stuck /\ runs'[r].status = runs[r].status
         \/ /\ runs'[r].watch = "no" /\ claims' = claims \ {runs[r].job}
            /\ runs'[r].cont = "none" \/ runs'[r].stuck = "docker"
            /\ runs'[r].stuck # "late" /\ runs'[r].status # "running"
            /\ runs[r].status = "running" => runs'[r].status = "failed"
  <2>1. PICK started \in BOOLEAN, dead \in Cancelled :
          /\ Docker(started, dead)
          /\ IF started
             THEN /\ runs' = WithRun(r, [runs[r] EXCEPT !.cont = "running", !.watch = "wait"])
                  /\ claims' = claims
             ELSE /\ \E left \in IF dead THEN {"none"} ELSE {"none", "exited"} :
                       runs' = WithRun(r, [Finished(runs[r], "failed") EXCEPT !.cont = left, !.watch = "no",
                                             !.stuck = IF left = "none" THEN "no" ELSE "docker"])
                  /\ claims' = ClaimsAfter(r)
    BY DEF Launch
  <2>2. Others
    BY <2>1, DockerIs DEF Launch, Others
  <2>3. CASE started
    <3> DEFINE x == [runs[r] EXCEPT !.cont = "running", !.watch = "wait"]
    <3>1. /\ x \in Run /\ x.job = runs[r].job /\ x.kind = runs[r].kind /\ x.dep = runs[r].dep
          /\ x.started = runs[r].started /\ x.draining = runs[r].draining /\ x.status = runs[r].status
          /\ x.watch = "wait" /\ x.stuck = runs[r].stuck
      BY <1>0 DEF Run
    <3>2. runs' = WithRun(r, x) /\ claims' = claims
      BY <2>1, <2>3
    <3> HIDE DEF x
    <3> QED
      BY <1>0, <2>2, <3>1, <3>2, WithRunIs
  <2>4. CASE ~started
    <3>1. PICK left \in {"none", "exited"} :
            runs' = WithRun(r, [Finished(runs[r], "failed") EXCEPT !.cont = left, !.watch = "no",
                                  !.stuck = IF left = "none" THEN "no" ELSE "docker"])
      BY <2>1, <2>4
    <3> DEFINE y == Finished(runs[r], "failed")
               x == [y EXCEPT !.cont = left, !.watch = "no", !.stuck = IF left = "none" THEN "no" ELSE "docker"]
    <3>2. /\ y \in Run /\ y.status = IF runs[r].status = "running" THEN "failed" ELSE runs[r].status
          /\ y.job = runs[r].job /\ y.kind = runs[r].kind /\ y.dep = runs[r].dep
          /\ y.started = runs[r].started /\ y.draining = runs[r].draining
      BY <1>0, FinishedIs
    <3>3. runs' = WithRun(r, x) /\ claims' = claims \ {runs[r].job}
      BY <2>1, <2>4, <3>1 DEF ClaimsAfter
    <3> HIDE DEF y
    <3>4. /\ x \in Run /\ x.job = y.job /\ x.kind = y.kind /\ x.dep = y.dep
          /\ x.started = y.started /\ x.draining = y.draining /\ x.status = y.status
          /\ x.watch = "no" /\ x.cont = left /\ x.stuck = IF left = "none" THEN "no" ELSE "docker"
      BY <3>2 DEF Run
    <3> HIDE DEF x
    <3> QED
      BY <1>0, <2>2, <3>2, <3>3, <3>4, WithRunIs
  <2> QED
    BY <2>3, <2>4
<1>3. lock' = IF lock = "start" THEN "free" ELSE lock
  BY DEF Launch, LockAfterLaunch
<1>4. \A k \in DOMAIN runs : Evolves(k)
  BY <1>2 DEF Evolves
<1>5. JobsTypeOK' /\ UsedOK' /\ TickIsDue'
  BY <1>2, <1>3, TypeKept, TickKept DEF Others, JobsTypeOK
<1>6. Holders'
  BY <1>1, <1>2, <1>3 DEF Holders, Others
<1>7. Hooks' /\ StartedWhenDue'
  BY <1>2, <1>4, HooksKept, DueKept DEF Others
<1>8. Watchers'
  <2>1. \A k \in DOMAIN runs : k # r => runs[k].watch # "launch"
                 /\ (runs[k].watch # "no" /\ Exclusive(runs[k].job) => runs[k].job \in claims')
    BY <1>0, <1>2 DEF Alone, Watchers, Watcher, Exclusive
  <2>2. \A k \in DOMAIN runs : k # r => Watcher(k)'
    BY <1>2, <2>1 DEF Watchers, Watcher, Others
  <2>3. Watcher(r)'
    BY <1>0, <1>1, <1>2 DEF Watchers, Watcher, Others, Exclusive
  <2> QED
    BY <1>2, <2>2, <2>3 DEF Watchers
<1>9. Alone'
  <2>1. \A k \in DOMAIN runs :
          /\ runs'[k].job = runs[k].job
          /\ runs'[k].watch = "launch" => runs[k].watch = "launch"
          /\ runs'[k].watch # "no" => runs[k].watch # "no"
    BY <1>0, <1>2
  <2> QED
    BY <1>2, <2>1 DEF Alone, Exclusive
<1>10. Containers'
  <2>1. agent' = agent /\ lock' # "delete"
    BY <1>1, <1>2, <1>3 DEF Others
  <2>2. \A k \in DOMAIN runs : k # r => Container(k)'
    BY <1>2, <2>1 DEF Containers, Container, Left
  <2>3. Container(r)'
    BY <1>0, <1>2, <2>1 DEF Containers, Container, Left
  <2> QED
    BY <1>2, <2>2, <2>3 DEF Containers
<1>11. NoOrphans' /\ RunningIsWatched'
  <2>1. NoOrphans'
    BY <1>1, <1>2 DEF NoOrphans, Others
  <2>2. RunningIsWatched'
    BY <1>0, <1>1, <1>2 DEF RunningIsWatched, Others
  <2> QED
    BY <2>1, <2>2
<1> QED
  BY <1>5, <1>6, <1>7, <1>8, <1>9, <1>10, <1>11

(* Another row is the same, or pruned.                                      *)
Faded(k) ==
  /\ Evolves(k)
  /\ runs'[k].cont = runs[k].cont /\ runs'[k].watch = runs[k].watch
  /\ runs'[k].draining = runs[k].draining /\ runs'[k].stuck = runs[k].stuck
  /\ runs'[k].status \in {runs[k].status, "gone"}

(* What a step does to a run that is waited for, removed or drained: of the *)
(* others rows are pruned, and nothing is left that nobody answers for.     *)
RowStep(r) ==
  /\ Others /\ UNCHANGED lock
  /\ runs' \in Seq(Run) /\ DOMAIN runs' = DOMAIN runs
  /\ \A k \in DOMAIN runs : k # r => Faded(k)
  /\ Evolves(r)
  /\ runs[r].watch # "launch" /\ runs'[r].watch # "launch"
  /\ runs'[r].watch # "no" => runs[r].watch # "no"
  /\ \/ claims' = claims
     \/ claims' = claims \ {runs[r].job} /\ runs[r].watch # "no" /\ runs'[r].watch = "no"
  /\ runs'[r].draining => runs[r].draining
  /\ runs'[r].status = "running" => runs[r].status = "running" /\ runs'[r].watch = runs[r].watch
  /\ Left(r)' => Left(r) /\ (runs[r].watch # "no" => runs'[r].watch # "no")
  /\ runs'[r].cont # "none" /\ runs'[r].stuck = "no" => runs[r].cont # "none" /\ runs[r].stuck = "no"
  /\ runs'[r].stuck = "late" => runs[r].stuck = "late" \/ Timeout[runs[r].job] >= CleanupTimeout

(* A step on one row of that kind keeps the invariant.                      *)
LEMMA RowStepKeeps ==
  ASSUME JobsAssumption, JobsInv, NEW r \in DOMAIN runs, RowStep(r)
  PROVE  JobsInv'
<1> USE DEF JobsInv
<1>1. \A k \in DOMAIN runs : Evolves(k)
  BY DEF Evolves, RowStep, Faded
<1>2. JobsTypeOK' /\ UsedOK' /\ TickIsDue'
  BY TypeKept, TickKept DEF Others, JobsTypeOK, RowStep
<1>3. Holders'
  BY DEF Holders, Others, RowStep
<1>4. Hooks' /\ StartedWhenDue'
  BY <1>1, HooksKept, DueKept DEF Others, RowStep
<1>5. Watchers'
  <2>1. \A k \in DOMAIN runs : k # r /\ runs[k].watch # "no" /\ Exclusive(runs[k].job) => runs[k].job \in claims'
    BY DEF Alone, Watchers, Watcher, Exclusive, RowStep, Faded, Evolves
  <2>2. \A k \in DOMAIN runs : k # r => Watcher(k)'
    <3> TAKE k \in DOMAIN runs
    <3> HAVE k # r
    <3>1. Faded(k) /\ UNCHANGED <<agent, lock, dep, minute>> /\ Watcher(k)
      BY DEF RowStep, Others, Watchers
    <3> QED
      BY <2>1, <3>1 DEF Watcher, Exclusive, Faded, Evolves
  <2>3. Watcher(r)'
    <3>1. runs'[r].watch # "no" /\ Exclusive(runs'[r].job) => runs'[r].job \in claims'
      BY DEF Watchers, Watcher, Exclusive, RowStep, Evolves
    <3> QED
      BY <3>1 DEF Watchers, Watcher, Others, Exclusive, RowStep, Evolves
  <2> QED
    BY <2>2, <2>3 DEF Watchers, RowStep
<1>6. Alone'
  <2>1. \A k \in DOMAIN runs :
          /\ runs'[k].job = runs[k].job
          /\ runs'[k].watch = "launch" => runs[k].watch = "launch"
          /\ runs'[k].watch # "no" => runs[k].watch # "no"
    BY DEF RowStep, Evolves, Faded
  <2>2. DOMAIN runs' = DOMAIN runs
    BY DEF RowStep
  <2> QED
    BY <2>1, <2>2 DEF Alone, Exclusive
<1>7. Containers'
  <2>1. \A k \in DOMAIN runs : k # r => Container(k)'
    BY DEF Containers, Container, Left, Others, RowStep, Faded, Evolves
  <2>2. Container(r)'
    BY DEF Containers, Container, Others, RowStep, Evolves
  <2> QED
    BY <2>1, <2>2 DEF Containers, RowStep
<1>8. NoOrphans'
  BY DEF NoOrphans, Others, RowStep, Faded
<1>9. RunningIsWatched'
  <2>1. \A k \in DOMAIN runs : k # r /\ runs'[k].status = "running" =>
          runs[k].status = "running" /\ runs'[k].watch = runs[k].watch
    BY DEF RowStep, Faded
  <2> QED
    BY <2>1 DEF RunningIsWatched, Others, RowStep
<1> QED
  BY <1>2, <1>3, <1>4, <1>5, <1>6, <1>7, <1>8, <1>9

(* An untouched row is one of those.                                        *)
LEMMA OthersFade ==
  \A k \in DOMAIN runs : runs'[k] = runs[k] => Faded(k)
  BY DEF Faded, Evolves

(* The wait for a run ends with its exit: it is finished, and its container *)
(* is to be removed.                                                        *)
LEMMA CollectExitKeeps ==
  ASSUME JobsAssumption, JobsInv, NEW r \in DOMAIN runs, CollectExit(r)
  PROVE  JobsInv'
<1>1. runs \in Seq(Run) /\ runs[r] \in Run /\ runs[r].watch = "wait" /\ UsedOK
  BY TypedRuns DEF JobsInv, CollectExit
<1>2. PICK st \in {"failed", "succeeded"} : runs' = WithRun(r, [Finished(runs[r], st) EXCEPT !.watch = "remove"])
  BY DEF CollectExit
<1> DEFINE y == Finished(runs[r], st)
           x == [y EXCEPT !.watch = "remove"]
<1>3. /\ y \in Run /\ y.status = IF runs[r].status = "running" THEN st ELSE runs[r].status
      /\ y.job = runs[r].job /\ y.kind = runs[r].kind /\ y.dep = runs[r].dep /\ y.started = runs[r].started
      /\ y.cont = runs[r].cont /\ y.draining = runs[r].draining /\ y.stuck = runs[r].stuck
  BY <1>1, FinishedIs
<1>4. runs' = WithRun(r, x)
  BY <1>2
<1> HIDE DEF y
<1>5. /\ x \in Run /\ x.watch = "remove" /\ x.status = y.status
      /\ x.job = y.job /\ x.kind = y.kind /\ x.dep = y.dep /\ x.started = y.started
      /\ x.cont = y.cont /\ x.draining = y.draining /\ x.stuck = y.stuck
  BY <1>3 DEF Run
<1> HIDE DEF x
<1>6. /\ runs' \in Seq(Run) /\ DOMAIN runs' = DOMAIN runs /\ runs'[r] = x
      /\ \A k \in DOMAIN runs : k # r => runs'[k] = runs[k]
  BY <1>1, <1>4, <1>5, WithRunIs
<1>7. Others /\ UNCHANGED <<lock, claims>>
  BY <1>1 DEF CollectExit, Others, UsedOK
<1>8. RowStep(r)
  BY <1>1, <1>3, <1>5, <1>6, <1>7, OthersFade DEF RowStep, Evolves, Left
<1> QED
  BY <1>8, RowStepKeeps

(* The wait ends with the timeout, the end of the agent or a failing call:  *)
(* the container is stopped, and is to be removed.                          *)
LEMMA CutOffKeeps ==
  ASSUME JobsAssumption, JobsInv, NEW r \in DOMAIN runs,
         NEW st \in {"interrupted", "timed_out", "failed"}, CutOff(r, st)
  PROVE  JobsInv'
<1>1. runs \in Seq(Run) /\ runs[r] \in Run /\ runs[r].watch = "wait" /\ runs[r].cont = "running" /\ UsedOK
  BY TypedRuns DEF JobsInv, CutOff
<1>2. PICK c \in {"running", "exited"}, ok \in BOOLEAN :
        /\ Docker(ok, Expired(r))
        /\ runs' = WithRun(r, [Finished(runs[r], st) EXCEPT !.watch = "remove", !.code = 1, !.cont = c])
  <2>1. PICK stopped \in BOOLEAN :
          /\ Docker(stopped, Expired(r))
          /\ runs' = WithRun(r, [Finished(runs[r], st)
                               EXCEPT !.watch = "remove", !.code = 1,
                                      !.cont = IF stopped THEN "exited" ELSE @])
    BY DEF CutOff
  <2> DEFINE y == Finished(runs[r], st)
             c == IF stopped THEN "exited" ELSE y.cont
  <2>2. y.cont = "running"
    BY <1>1, FinishedIs
  <2>3. runs' = WithRun(r, [y EXCEPT !.watch = "remove", !.code = 1, !.cont = c])
    <3>1. [y EXCEPT !.watch = "remove", !.code = 1, !.cont = IF stopped THEN "exited" ELSE @] 
           = [y EXCEPT !.watch = "remove", !.code = 1, !.cont = c]
      <4>1. y \in Run
        BY <1>1, FinishedIs
      <4> HIDE DEF y
      <4> QED
        BY <4>1 DEF Run
    <3> QED
      BY <2>1, <3>1
  <2>4. c \in {"running", "exited"}
    BY <2>2
  <2> HIDE DEF c
  <2> QED
    BY <2>1, <2>3, <2>4
<1> DEFINE y == Finished(runs[r], st)
           x == [y EXCEPT !.watch = "remove", !.code = 1, !.cont = c]
<1>3. /\ y \in Run /\ y.status = IF runs[r].status = "running" THEN st ELSE runs[r].status
      /\ y.job = runs[r].job /\ y.kind = runs[r].kind /\ y.dep = runs[r].dep /\ y.started = runs[r].started
      /\ y.draining = runs[r].draining /\ y.stuck = runs[r].stuck
  BY <1>1, FinishedIs
<1>4. runs' = WithRun(r, x)
  BY <1>2
<1> HIDE DEF y
<1>5. /\ x \in Run /\ x.watch = "remove" /\ x.status = y.status
      /\ x.job = y.job /\ x.kind = y.kind /\ x.dep = y.dep /\ x.started = y.started
      /\ x.cont = c /\ x.draining = y.draining /\ x.stuck = y.stuck
  BY <1>3 DEF Run
<1> HIDE DEF x
<1>6. /\ runs' \in Seq(Run) /\ DOMAIN runs' = DOMAIN runs /\ runs'[r] = x
      /\ \A k \in DOMAIN runs : k # r => runs'[k] = runs[k]
  BY <1>1, <1>4, <1>5, WithRunIs
<1>7. Others /\ UNCHANGED <<lock, claims>>
  BY <1>1, <1>2, DockerIs DEF CutOff, Others
<1>8. RowStep(r)
  BY <1>1, <1>3, <1>5, <1>6, <1>7, OthersFade DEF RowStep, Evolves, Left
<1> QED
  BY <1>8, RowStepKeeps

(* The container of a finished run is removed, or is left because Docker    *)
(* failed or the time is over.                                              *)
LEMMA CollectRemoveKeeps ==
  ASSUME JobsAssumption, JobsInv, NEW r \in DOMAIN runs, CollectRemove(r)
  PROVE  JobsInv'
<1>1. runs \in Seq(Run) /\ runs[r] \in Run /\ runs[r].watch = "remove" /\ UsedOK
  BY TypedRuns DEF JobsInv, CollectRemove
<1>2. /\ runs[r].started \in Nat /\ minute \in Nat /\ runs[r].status # "running"
      /\ Timeout[runs[r].job] \in Nat
      /\ Expired(r) => Timeout[runs[r].job] >= CleanupTimeout
  <2>1. /\ runs[r].started \in Nat /\ minute \in Nat /\ agent # "down" /\ runs[r].job \in Names
        /\ minute - runs[r].started <= Timeout[runs[r].job]
    BY <1>1, RunFields DEF JobsInv, JobsTypeOK, Watchers, Watcher
  <2>2. Timeout[runs[r].job] \in Nat
    BY <2>1 DEF JobsAssumption, Names
  <2>3. runs[r].status # "running"
    BY <1>1, <2>1 DEF JobsInv, RunningIsWatched
  <2> QED
    BY <2>1, <2>2, <2>3 DEF Expired, CleanupTimeout
<1>3. PICK ok \in BOOLEAN, c \in {"none", "running", "exited"}, stk \in {"no", "docker", "late"} :
        /\ Docker(ok, Expired(r))
        /\ stk = "no" => c = "none"
        /\ c # "none" => c = runs[r].cont
        /\ stk = "late" => Expired(r)
        /\ LET gone == WithRun(r, [runs[r] EXCEPT !.watch = "no", !.cont = c, !.stuck = stk, !.code = 0])
           IN runs' = IF runs[r].kind = "hook" THEN gone ELSE Pruned(gone, runs[r].job)
  <2>1. PICK removed \in BOOLEAN :
          /\ Docker(removed, Expired(r))
          /\ LET gone == WithRun(r, [runs[r] EXCEPT !.watch = "no", !.cont = IF removed THEN "none" ELSE @,
                            !.stuck = IF removed THEN "no" ELSE IF Expired(r) THEN "late" ELSE "docker",
                            !.code = 0])
             IN runs' = IF runs[r].kind = "hook" THEN gone ELSE Pruned(gone, runs[r].job)
    BY DEF CollectRemove
  <2> DEFINE c == IF removed THEN "none" ELSE runs[r].cont
             stk == IF removed THEN "no" ELSE IF Expired(r) THEN "late" ELSE "docker"
  <2>2. [runs[r] EXCEPT !.watch = "no", !.cont = IF removed THEN "none" ELSE @,
                        !.stuck = IF removed THEN "no" ELSE IF Expired(r) THEN "late" ELSE "docker",
                        !.code = 0]
        = [runs[r] EXCEPT !.watch = "no", !.cont = c, !.stuck = stk, !.code = 0]
    BY <1>1 DEF Run
  <2>3. /\ c \in {"none", "running", "exited"} /\ stk \in {"no", "docker", "late"}
        /\ stk = "no" => c = "none"
        /\ c # "none" => c = runs[r].cont
        /\ stk = "late" => Expired(r)
    BY <1>1, RunFields
  <2> HIDE DEF c, stk
  <2> QED
    BY <2>1, <2>2, <2>3
<1> DEFINE x == [runs[r] EXCEPT !.watch = "no", !.cont = c, !.stuck = stk, !.code = 0]
           g == WithRun(r, x)
<1>4. /\ x \in Run /\ x.watch = "no" /\ x.status = runs[r].status
      /\ x.job = runs[r].job /\ x.kind = runs[r].kind /\ x.dep = runs[r].dep /\ x.started = runs[r].started
      /\ x.cont = c /\ x.draining = runs[r].draining /\ x.stuck = stk
  BY <1>1 DEF Run
<1>5. runs' = IF runs[r].kind = "hook" THEN g ELSE Pruned(g, runs[r].job)
  BY <1>3
<1> HIDE DEF x
<1>6. /\ g \in Seq(Run) /\ DOMAIN g = DOMAIN runs /\ g[r] = x
      /\ \A k \in DOMAIN runs : k # r => g[k] = runs[k]
  BY <1>1, <1>4, WithRunIs
<1> HIDE DEF g
<1>7. /\ runs' \in Seq(Run) /\ DOMAIN runs' = DOMAIN runs
      /\ \A k \in DOMAIN runs :
           \/ runs'[k] = g[k]
           \/ runs[r].kind # "hook" /\ g[k].job = runs[r].job /\ runs'[k] = [g[k] EXCEPT !.status = "gone"]
  BY <1>5, <1>6, PrunedIs
<1>8. \A k \in DOMAIN runs :
        /\ runs'[k].job = g[k].job /\ runs'[k].kind = g[k].kind /\ runs'[k].dep = g[k].dep
        /\ runs'[k].started = g[k].started /\ runs'[k].cont = g[k].cont /\ runs'[k].watch = g[k].watch
        /\ runs'[k].draining = g[k].draining /\ runs'[k].stuck = g[k].stuck
        /\ \/ runs'[k].status = g[k].status
           \/ runs'[k].status = "gone" /\ runs[k].kind # "hook"
  <2> TAKE k \in DOMAIN runs
  <2>1. g[k] \in Run /\ g[k].job = runs[k].job
    BY <1>1, <1>4, <1>6, TypedRuns DEF JobsInv
  <2>2. runs[r].kind # "hook" /\ runs[k].job = runs[r].job => runs[k].kind # "hook"
    BY DEF JobsInv, Hooks, HookRow
  <2>3. CASE runs'[k] = g[k]
    BY <2>3
  <2>4. CASE runs[r].kind # "hook" /\ g[k].job = runs[r].job /\ runs'[k] = [g[k] EXCEPT !.status = "gone"]
    <3>1. runs[k].kind # "hook"
      BY <2>1, <2>2, <2>4
    <3> QED
      BY <2>1, <2>4, <3>1 DEF Run
  <2> QED
    BY <1>7, <2>3, <2>4
<1>9. \A k \in DOMAIN runs : k # r => Faded(k)
  BY <1>6, <1>8 DEF Faded, Evolves
<1>10. Others /\ UNCHANGED lock /\ claims' = claims \ {runs[r].job}
  BY <1>1, <1>3, DockerIs DEF CollectRemove, Others, ClaimsAfter
<1>11. /\ runs'[r].watch = "no" /\ runs'[r].cont = c /\ runs'[r].stuck = stk
       /\ runs'[r].draining = runs[r].draining /\ runs'[r].status # "running"
       /\ Evolves(r)
  <2>1. g[r] = x
    BY <1>6
  <2>2. /\ runs'[r].job = x.job /\ runs'[r].kind = x.kind /\ runs'[r].dep = x.dep
        /\ runs'[r].started = x.started /\ runs'[r].cont = x.cont /\ runs'[r].watch = x.watch
        /\ runs'[r].draining = x.draining /\ runs'[r].stuck = x.stuck
        /\ \/ runs'[r].status = x.status
           \/ runs'[r].status = "gone" /\ runs[r].kind # "hook"
    BY <1>8, <2>1
  <2> QED
    BY <1>2, <1>4, <2>2 DEF Evolves
<1>12. RowStep(r)
  BY <1>1, <1>2, <1>3, <1>7, <1>9, <1>10, <1>11 DEF RowStep, Left
<1> QED
  BY <1>12, RowStepKeeps

(* The background removal of a container that an earlier process left.      *)
LEMMA DrainEndsKeeps ==
  ASSUME JobsAssumption, JobsInv, NEW r \in DOMAIN runs, DrainEnds(r)
  PROVE  JobsInv'
<1>1. runs \in Seq(Run) /\ runs[r] \in Run /\ runs[r].draining /\ UsedOK /\ runs[r].watch = "no"
  BY TypedRuns DEF JobsInv, DrainEnds, Watchers, Watcher
<1>2. runs[r].status # "running"
  BY <1>1 DEF JobsInv, RunningIsWatched, Watchers, Watcher
<1>3. PICK ok \in BOOLEAN, dead \in Cancelled :
        /\ Docker(ok, dead)
        /\ runs' = WithRun(r, [runs[r] EXCEPT !.draining = FALSE, !.cont = IF ok THEN "none" ELSE @,
                                 !.stuck = IF ok THEN "no" ELSE "docker"])
  BY DEF DrainEnds
<1> DEFINE c == IF ok THEN "none" ELSE runs[r].cont
           stk == IF ok THEN "no" ELSE "docker"
           x == [runs[r] EXCEPT !.draining = FALSE, !.cont = IF ok THEN "none" ELSE @, !.stuck = stk]
<1>4. /\ x \in Run /\ x.watch = "no" /\ x.status = runs[r].status
      /\ x.job = runs[r].job /\ x.kind = runs[r].kind /\ x.dep = runs[r].dep /\ x.started = runs[r].started
      /\ x.cont = c /\ x.draining = FALSE /\ x.stuck = stk
  BY <1>1 DEF Run
<1>5. runs' = WithRun(r, x)
  BY <1>3
<1> HIDE DEF x
<1>6. /\ runs' \in Seq(Run) /\ DOMAIN runs' = DOMAIN runs /\ runs'[r] = x
      /\ \A k \in DOMAIN runs : k # r => runs'[k] = runs[k]
  BY <1>1, <1>4, <1>5, WithRunIs
<1>7. Others /\ UNCHANGED <<lock, claims>>
  BY <1>1, <1>3, DockerIs DEF DrainEnds, Others
<1>8. RowStep(r)
  BY <1>1, <1>2, <1>4, <1>6, <1>7, OthersFade DEF RowStep, Evolves, Left
<1> QED
  BY <1>8, RowStepKeeps

(* A process ends by itself; nobody has taken notice yet.                   *)
LEMMA ProcessExitsKeeps ==
  ASSUME JobsAssumption, JobsInv, NEW r \in DOMAIN runs, ProcessExits(r)
  PROVE  JobsInv'
<1>1. runs \in Seq(Run) /\ runs[r] \in Run /\ runs[r].cont = "running" /\ UsedOK /\ runs[r].watch # "launch"
  BY TypedRuns DEF JobsInv, ProcessExits, Watchers, Watcher
<1>2. PICK code \in {0, 1} : runs' = WithRun(r, [runs[r] EXCEPT !.cont = "exited", !.code = code])
  BY DEF ProcessExits
<1> DEFINE x == [runs[r] EXCEPT !.cont = "exited", !.code = code]
<1>3. /\ x \in Run /\ x.watch = runs[r].watch /\ x.status = runs[r].status
      /\ x.job = runs[r].job /\ x.kind = runs[r].kind /\ x.dep = runs[r].dep /\ x.started = runs[r].started
      /\ x.cont = "exited" /\ x.draining = runs[r].draining /\ x.stuck = runs[r].stuck
  BY <1>1 DEF Run
<1>4. runs' = WithRun(r, x)
  BY <1>2
<1> HIDE DEF x
<1>5. /\ runs' \in Seq(Run) /\ DOMAIN runs' = DOMAIN runs /\ runs'[r] = x
      /\ \A k \in DOMAIN runs : k # r => runs'[k] = runs[k]
  BY <1>1, <1>3, <1>4, WithRunIs
<1>6. Others /\ UNCHANGED <<lock, claims>>
  BY <1>1 DEF ProcessExits, Others, UsedOK
<1>7. RowStep(r)
  BY <1>1, <1>3, <1>5, <1>6, OthersFade DEF RowStep, Evolves, Left
<1> QED
  BY <1>7, RowStepKeeps

(* A run is recorded by whoever holds the lock and launches no other.       *)
LEMMA RecordKeeps ==
  ASSUME JobsAssumption, JobsInv, NEW j \in Names, NEW kind \in {"hook", "scheduled", "manual"},
         NEW d \in 0..MaxDeploys, runs' = Recorded(j, kind, d),
         ~Launching, agent = "up", UNCHANGED <<agent, minute>>, app'.exists,
         lock' \in {"start", "tick", "deploy"},
         lock' = "deploy" => dep'.phase = "hook" /\ kind = "hook" /\ d = dep'.id,
         Exclusive(j) => j \notin claims /\ j \in claims', claims \subseteq claims',
         kind = "scheduled" => Fired(j, minute)
  PROVE  /\ runs' \in Seq(Run)
         /\ Watchers' /\ Alone' /\ Containers' /\ NoOrphans' /\ RunningIsWatched' /\ StartedWhenDue'
<1> USE DEF JobsInv
<1>a. runs' \in Seq(Run)
  BY RecordedIs
<1>b. PICK n \in Nat : NewRow(n, j, kind, d)
  BY RecordedIs
<1>1. /\ n \in DOMAIN runs' /\ n \notin DOMAIN runs
      /\ \A k \in DOMAIN runs : k \in DOMAIN runs' /\ runs'[k] = runs[k]
      /\ \A k \in DOMAIN runs' : k # n => k \in DOMAIN runs
      /\ runs'[n].job = j /\ runs'[n].kind = kind /\ runs'[n].dep = d
      /\ runs'[n].status = "running" /\ runs'[n].started = minute
      /\ runs'[n].cont = "none" /\ runs'[n].watch = "launch"
      /\ runs'[n].draining = FALSE /\ runs'[n].stuck = "no"
  BY <1>b DEF NewRow
<1>2. \A k \in DOMAIN runs : runs[k].watch # "launch"
  BY DEF Launching
<1>3. minute \in Nat /\ Timeout[j] \in Nat
  BY DEF JobsTypeOK, JobsAssumption, Names
<1>4. \A k \in DOMAIN runs : runs[k].watch # "no" /\ Exclusive(runs[k].job) => runs[k].job \in claims /\ runs[k].job # j
  BY DEF Watchers, Watcher
<1>5. Watchers'
  <2>1. \A k \in DOMAIN runs : Watcher(k)'
    BY <1>1, <1>2 DEF Watchers, Watcher, Exclusive
  <2>2. Watcher(n)'
    BY <1>1, <1>3 DEF Watcher, Exclusive
  <2> QED
    BY <1>1, <2>1, <2>2 DEF Watchers
<1>6. Alone'
  <2> SUFFICES ASSUME NEW r \in DOMAIN runs', NEW k \in DOMAIN runs'
               PROVE  /\ runs'[r].watch = "launch" /\ runs'[k].watch = "launch" => r = k
                      /\ /\ runs'[r].watch # "no" /\ runs'[k].watch # "no"
                         /\ runs'[r].job = runs'[k].job /\ Exclusive(runs'[r].job)
                         => r = k
    BY DEF Alone, Exclusive
  <2>1. CASE r = n \/ k = n
    BY <1>1, <1>2, <1>4, <2>1
  <2>2. CASE r # n /\ k # n
    BY <1>1, <2>2 DEF Alone
  <2> QED
    BY <2>1, <2>2
<1>7. Containers'
  <2>1. \A k \in DOMAIN runs : Container(k)'
    BY <1>1 DEF Containers, Container, Left
  <2>2. Container(n)'
    BY <1>1 DEF Container, Left
  <2> QED
    BY <1>1, <2>1, <2>2 DEF Containers
<1>8. NoOrphans'
  BY DEF NoOrphans
<1>9. RunningIsWatched'
  BY <1>1 DEF RunningIsWatched
<1>10. StartedWhenDue'
  BY <1>1 DEF StartedWhenDue, Fired, Fires
<1> QED
  BY <1>a, <1>5, <1>6, <1>7, <1>8, <1>9, <1>10

(* The record of a run that is no hook.                                     *)
LEMMA RecordKeepsHooks ==
  ASSUME JobsAssumption, JobsInv, NEW j \in Names, NEW kind \in {"scheduled", "manual"}, j # "pre-deploy",
         NEW d \in 0..MaxDeploys, runs' = Recorded(j, kind, d),
         UNCHANGED <<dep, app>>, used'.deploys = used.deploys
  PROVE  Hooks'
<1> USE DEF JobsInv
<1>b. PICK n \in Nat : NewRow(n, j, kind, d)
  BY RecordedIs
<1>1. /\ n \notin DOMAIN runs
      /\ \A k \in DOMAIN runs : k \in DOMAIN runs' /\ runs'[k] = runs[k]
      /\ \A k \in DOMAIN runs' : k # n => k \in DOMAIN runs
      /\ runs'[n].job = j /\ runs'[n].kind = kind
  BY <1>b DEF NewRow
<1>2. \A k \in DOMAIN runs' : HookRow(k)'
  BY <1>1 DEF Hooks, HookRow
<1>3. \A e : Passed(e) => \E r \in DOMAIN runs' : runs'[r].kind = "hook" /\ runs'[r].dep = e /\ runs'[r].status = "succeeded"
  BY <1>1 DEF Passed
<1>4. dep'.phase = "after" => Passed(dep.id)'
  BY <1>3 DEF Hooks, Passed
<1>5. HookOnce'
  <2>1. \A r, k \in DOMAIN runs' :
          runs'[r].kind = "hook" /\ runs'[k].kind = "hook" /\ runs'[r].dep = runs'[k].dep => r = k
    BY <1>1 DEF Hooks, HookOnce
  <2>2. app.active # 0 => Passed(app.active)
    BY DEF Hooks, HookOnce, Passed
  <2> QED
    BY <1>3, <2>1, <2>2 DEF HookOnce
<1> QED
  BY <1>2, <1>4, <1>5 DEF Hooks

(* Run and RunCommand: a request records a run, once the job is not         *)
(* running.                                                                 *)
LEMMA StartRunKeeps ==
  ASSUME JobsAssumption, JobsInv, NEW j \in Jobs \cup {"run"}, StartRun(j)
  PROVE  JobsInv'
<1> USE DEF JobsInv
<1>1. j \in Names /\ j # "pre-deploy" /\ agent = "up" /\ lock = "free" /\ app.exists /\ app.active \in 0..MaxDeploys
  BY DEF StartRun, Names, JobsAssumption, JobsTypeOK
<1>2. ~Launching
  BY <1>1 DEF Launching, Watchers, Watcher
<1>3. /\ runs' = Recorded(j, "manual", app.active) /\ lock' = "start"
      /\ UNCHANGED <<agent, app, dep, lastTick, tick, minute>>
      /\ Exclusive(j) => j \notin claims /\ j \in claims'
      /\ claims \subseteq claims' /\ claims' \subseteq Jobs
  BY DEF StartRun, Claimable, Exclusive, JobsTypeOK
<1>4. UsedOK' /\ used'.deploys = used.deploys
  BY DEF StartRun, UsedOK
<1>5. /\ runs' \in Seq(Run)
      /\ Watchers' /\ Alone' /\ Containers' /\ NoOrphans' /\ RunningIsWatched' /\ StartedWhenDue'
  <2> DEFINE kind == "manual"
  <2>1. kind \in {"hook", "scheduled", "manual"} /\ kind # "scheduled" /\ runs' = Recorded(j, kind, app.active)
    BY <1>3
  <2> HIDE DEF kind
  <2> QED
    BY <1>1, <1>2, <1>3, <2>1, RecordKeeps
<1>6. Hooks'
  <2> DEFINE kind == "manual"
  <2>1. kind \in {"scheduled", "manual"} /\ runs' = Recorded(j, kind, app.active)
    BY <1>3
  <2> HIDE DEF kind
  <2> QED
    BY <1>1, <1>3, <1>4, <2>1, RecordKeepsHooks
<1>7. JobsTypeOK' /\ TickIsDue'
  BY <1>3, <1>4, <1>5, TypeKept, TickKept DEF Others
<1>8. Holders'
  BY <1>1, <1>3 DEF Holders
<1> QED
  BY <1>4, <1>5, <1>6, <1>7, <1>8

-----------------------------------------------------------------------------
(* The schedule.                                                            *)

(* A job that fires every e minutes fires at each multiple of e.            *)
LEMMA MultiplesFire ==
  ASSUME NEW q \in Nat, NEW e \in Nat, e > 0
  PROVE  (q * e) % e = 0
  OBVIOUS

(* What scheduleApp finds due in (last, minute] has fired by that minute,   *)
(* or never fires at all.                                                   *)
LEMMA DueIsFired ==
  ASSUME JobsAssumption, NEW j \in Jobs, NEW last \in Nat, NEW m \in Nat, ~(NextFiring(j, last) > m)
  PROVE  Fired(j, m)
<1>1. Every[j] \in Nat
  BY DEF JobsAssumption
<1>2. CASE Every[j] = 0
  BY <1>2 DEF Fired
<1>3. CASE Every[j] > 0
  <2> DEFINE e == Every[j]
             q == last \div e + 1
             n == q * e
  <2>1. e \in Nat /\ e > 0 /\ q \in Nat /\ q > 0
    BY <1>1, <1>3
  <2>2. n = NextFiring(j, last)
    BY <1>3 DEF NextFiring
  <2> HIDE DEF e, q
  <2>3. n \in Nat /\ n >= e /\ n % e = 0
    BY <2>1, MultiplesFire
  <2> HIDE DEF n
  <2>4. n \in 1..m
    BY <2>1, <2>2, <2>3
  <2> QED
    BY <2>1, <2>3, <2>4 DEF Fired, Fires, e
<1> QED
  BY <1>1, <1>2, <1>3

(* The rows and their watchers do not change.                               *)
LEMMA SameRows ==
  ASSUME JobsInv, UNCHANGED runs
  PROVE  \A r \in DOMAIN runs : Evolves(r)
  BY DEF Evolves

(* A tick of the scheduler takes the lock and notes what is due.            *)
LEMMA ScheduleTickKeeps ==
  ASSUME JobsAssumption, JobsInv, ScheduleTick
  PROVE  JobsInv'
<1> USE DEF JobsInv
<1>1. /\ agent = "up" /\ lock = "free" /\ app.exists /\ lock' = "tick"
      /\ UNCHANGED <<agent, app, dep, runs, claims, lastTick, minute, used>>
  BY DEF ScheduleTick
<1>2. PICK last \in Nat : tick' = [minute |-> minute, due |-> {j \in Jobs : ~(NextFiring(j, last) > minute)}]
  <2>1. minute \in Nat /\ minute >= 1 /\ lastTick \in Nat
    BY DEF JobsTypeOK
  <2> DEFINE last == IF lastTick = 0 THEN minute - 1 ELSE lastTick
  <2>2. last \in Nat
    BY <2>1
  <2>3. tick' = [minute |-> minute, due |-> {j \in Jobs : ~(NextFiring(j, last) > minute)}]
    BY DEF ScheduleTick
  <2> HIDE DEF last
  <2> QED
    BY <2>2, <2>3
<1>3. minute \in Nat /\ minute \in 0..MaxMinute
  BY DEF JobsTypeOK, JobsAssumption
<1>4. tick' \in [minute : 0..MaxMinute, due : SUBSET Jobs] /\ \A j \in tick'.due : j \in Jobs /\ Fired(j, minute)
  BY <1>2, <1>3, DueIsFired
<1>5. JobsTypeOK' /\ UsedOK' /\ TickIsDue'
  BY <1>1, <1>4 DEF JobsTypeOK, UsedOK, TickIsDue, Fired
<1>6. Holders'
  BY <1>1 DEF Holders
<1>7. \A r \in DOMAIN runs : runs[r].watch # "launch"
  BY <1>1 DEF Watchers, Watcher
<1>8. Watchers' /\ Alone' /\ Containers' /\ NoOrphans' /\ RunningIsWatched'
  BY <1>1, <1>7 DEF Watchers, Watcher, Alone, Containers, Container, Left, NoOrphans, RunningIsWatched, Exclusive
<1>9. Hooks' /\ StartedWhenDue'
  BY <1>1, SameRows, HooksKept, DueKept
<1> QED
  BY <1>5, <1>6, <1>8, <1>9

(* The tick starts a job that is due, unless a run of it is active.         *)
LEMMA ScheduleStartKeeps ==
  ASSUME JobsAssumption, JobsInv, NEW j \in Jobs, ScheduleStart(j)
  PROVE  JobsInv'
<1> USE DEF JobsInv
<1>1. /\ lock = "tick" /\ j \in tick.due /\ ~Launching /\ tick' = [tick EXCEPT !.due = @ \ {j}]
      /\ UNCHANGED <<agent, lock, app, dep, lastTick, minute, used>> /\ app.exists /\ lock' = "tick"
      /\ Fired(j, minute) /\ dep.phase = "none"
  BY DEF ScheduleStart, TickIsDue, Holders
<1>2. tick' \in [minute : 0..MaxMinute, due : SUBSET Jobs] /\ tick'.due \subseteq tick.due
  BY <1>1 DEF JobsTypeOK
<1>3. TickIsDue' /\ UsedOK'
  BY <1>1, <1>2 DEF TickIsDue, Fired, UsedOK
<1>4. CASE Claimable(j) /\ agent = "up"
  <2>1. /\ runs' = Recorded(j, "scheduled", app.active) /\ claims' = claims \cup {j}
        /\ j \notin claims /\ j \in Names /\ j # "pre-deploy" /\ app.active \in 0..MaxDeploys
    BY <1>4 DEF ScheduleStart, Claimable, Exclusive, Names, JobsTypeOK, JobsAssumption
  <2> DEFINE kind == "scheduled"
  <2>2. kind \in {"hook", "scheduled", "manual"} /\ kind \in {"scheduled", "manual"}
        /\ runs' = Recorded(j, kind, app.active)
    BY <2>1
  <2> HIDE DEF kind
  <2>3. /\ runs' \in Seq(Run)
        /\ Watchers' /\ Alone' /\ Containers' /\ NoOrphans' /\ RunningIsWatched' /\ StartedWhenDue'
    BY <1>1, <1>4, <2>1, <2>2, RecordKeeps
  <2>4. Hooks'
    BY <1>1, <2>1, <2>2, RecordKeepsHooks
  <2>5. JobsTypeOK'
    BY <1>1, <1>2, <2>1, <2>3 DEF JobsTypeOK
  <2>6. Holders'
    BY <1>1, <1>4 DEF Holders
  <2> QED
    BY <1>3, <2>3, <2>4, <2>5, <2>6
<1>5. CASE ~(Claimable(j) /\ agent = "up")
  <2>1. UNCHANGED <<claims, runs>>
    BY <1>5 DEF ScheduleStart
  <2>2. JobsTypeOK'
    BY <1>1, <1>2, <2>1 DEF JobsTypeOK
  <2>3. Holders'
    BY <1>1, <2>1 DEF Holders
  <2>4. Watchers' /\ Alone' /\ Containers' /\ NoOrphans' /\ RunningIsWatched'
    BY <1>1, <2>1 DEF Watchers, Watcher, Alone, Containers, Container, Left, NoOrphans, RunningIsWatched, Exclusive
  <2>5. Hooks' /\ StartedWhenDue'
    BY <1>1, <2>1, SameRows, HooksKept, DueKept
  <2> QED
    BY <1>3, <2>2, <2>3, <2>4, <2>5
<1> QED
  BY <1>4, <1>5

(* The tick is over and the lock free again.                                *)
LEMMA ScheduleDoneKeeps ==
  ASSUME JobsAssumption, JobsInv, ScheduleDone
  PROVE  JobsInv'
<1> USE DEF JobsInv
<1>1. /\ lock = "tick" /\ lock' = "free" /\ tick' = NoTick /\ lastTick' = tick.minute /\ dep.phase = "none"
      /\ UNCHANGED <<agent, app, dep, runs, claims, minute, used>>
      /\ \A r \in DOMAIN runs : runs[r].watch # "launch"
  BY DEF ScheduleDone, Launching, Holders
<1>2. JobsTypeOK' /\ UsedOK' /\ TickIsDue'
  BY <1>1 DEF JobsTypeOK, UsedOK, TickIsDue, NoTick, JobsAssumption
<1>3. Holders'
  BY <1>1 DEF Holders
<1>4. Watchers' /\ Alone' /\ Containers' /\ NoOrphans' /\ RunningIsWatched'
  BY <1>1 DEF Watchers, Watcher, Alone, Containers, Container, Left, NoOrphans, RunningIsWatched, Exclusive
<1>5. Hooks' /\ StartedWhenDue'
  BY <1>1, SameRows, HooksKept, DueKept
<1> QED
  BY <1>2, <1>3, <1>4, <1>5

(* A stopped application's last tick is forgotten.                          *)
LEMMA ScheduleForgetKeeps ==
  ASSUME JobsAssumption, JobsInv, ScheduleForget
  PROVE  JobsInv'
<1> USE DEF JobsInv
<1>1. lastTick' = 0 /\ UNCHANGED <<agent, lock, app, dep, runs, claims, tick, minute, used>>
  BY DEF ScheduleForget
<1>2. JobsTypeOK' /\ UsedOK' /\ TickIsDue'
  <2>1. JobsTypeOK'
    BY <1>1 DEF JobsTypeOK
  <2>2. UsedOK'
    BY <1>1 DEF UsedOK
  <2>3. TickIsDue'
    BY <1>1, TickKept
  <2> QED
    BY <2>1, <2>2, <2>3
<1>3. Holders'
  BY <1>1 DEF Holders
<1>4. Watchers' /\ Alone' /\ Containers' /\ NoOrphans' /\ RunningIsWatched'
  BY <1>1 DEF Watchers, Watcher, Alone, Containers, Container, Left, NoOrphans, RunningIsWatched, Exclusive
<1>5. Hooks' /\ StartedWhenDue'
  BY <1>1, SameRows, HooksKept, DueKept
<1> QED
  BY <1>2, <1>3, <1>4, <1>5

-----------------------------------------------------------------------------
(* A deployment, the desired state, the shutdown and the clock: the rows    *)
(* stay as they are.                                                        *)

(* A step that leaves the rows and the claims alone.                        *)
LEMMA RowsKept ==
  ASSUME JobsInv, UNCHANGED <<runs, claims, minute>>, agent # "down", agent' # "down",
         app.exists => app'.exists, lock' # "delete" \/ lock = "delete",
         Launching => UNCHANGED <<lock, dep>>
  PROVE  Watchers' /\ Alone' /\ Containers' /\ NoOrphans' /\ RunningIsWatched' /\ StartedWhenDue'
<1> USE DEF JobsInv
<1>1. Watchers'
  <2>1. \A r \in DOMAIN runs : runs[r].watch = "launch" => UNCHANGED <<lock, dep>>
    BY DEF Launching
  <2> QED
    BY <2>1 DEF Watchers, Watcher, Exclusive
<1>2. Alone' /\ Containers'
  BY DEF Alone, Containers, Container, Left, Exclusive
<1>3. NoOrphans' /\ RunningIsWatched'
  BY DEF NoOrphans, RunningIsWatched
<1>4. StartedWhenDue'
  BY SameRows, DueKept
<1> QED
  BY <1>1, <1>2, <1>3, <1>4

(* A run is launched by the holder of the lock, so none is while it is      *)
(* free.                                                                    *)
LEMMA NoLaunch ==
  ASSUME JobsInv, lock \notin {"start", "tick", "deploy"} \/ (lock = "deploy" /\ dep.phase # "hook")
  PROVE  ~Launching
  BY DEF JobsInv, Launching, Watchers, Watcher

(* A deployment takes the lock under a new number.                          *)
LEMMA DeployKeeps ==
  ASSUME JobsAssumption, JobsInv, Deploy
  PROVE  JobsInv'
<1> USE DEF JobsInv
<1>1. /\ agent = "up" /\ lock = "free" /\ used.deploys < MaxDeploys /\ lock' = "deploy"
      /\ UNCHANGED <<agent, runs, claims, lastTick, tick, minute>> /\ app'.exists /\ app'.active = app.active
      /\ used' = [used EXCEPT !.deploys = @ + 1]
      /\ dep' = [id |-> used.deploys + 1, phase |-> "begun", resumed |-> FALSE]
      /\ app' \in [exists : BOOLEAN, running : BOOLEAN, active : 0..MaxDeploys]
  BY DEF Deploy, JobsTypeOK
<1>2. ~Launching
  BY <1>1, NoLaunch
<1>3. used.deploys \in Nat /\ MaxDeploys \in Nat /\ used'.deploys = used.deploys + 1 /\ UsedOK'
  BY <1>1 DEF UsedOK, JobsAssumption
<1>4. /\ dep'.id = used.deploys + 1 /\ dep'.phase = "begun" /\ dep'.resumed = FALSE
      /\ dep' \in [id : 0..MaxDeploys, phase : {"none", "begun", "hook", "after", "failed"}, resumed : BOOLEAN]
  BY <1>1, <1>3
<1>5. JobsTypeOK' /\ TickIsDue'
  BY <1>1, <1>4 DEF JobsTypeOK, TickIsDue, Fired
<1>6. Holders'
  BY <1>1, <1>4 DEF Holders
<1>7. Watchers' /\ Alone' /\ Containers' /\ NoOrphans' /\ RunningIsWatched' /\ StartedWhenDue'
  BY <1>1, <1>2, RowsKept
<1>8. Hooks'
  <2>1. \A r \in DOMAIN runs : runs[r].kind = "hook" => runs[r].dep <= used.deploys
    BY DEF Hooks, HookRow
  <2>2. \A r \in DOMAIN runs : runs[r].dep \in Nat
    BY TypedRuns, RunFields
  <2>3. \A r \in DOMAIN runs' : HookRow(r)'
    BY <1>1, <1>3, <1>4, <2>1, <2>2 DEF Hooks, HookRow
  <2>4. HookOnce'
    BY <1>1 DEF Hooks, HookOnce
  <2> QED
    BY <1>3, <1>4, <2>3, <2>4 DEF Hooks
<1> QED
  BY <1>3, <1>5, <1>6, <1>7, <1>8

(* The deployment records its pre-deploy run.                               *)
LEMMA RunHookKeeps ==
  ASSUME JobsAssumption, JobsInv, RunHook
  PROVE  JobsInv'
<1> USE DEF JobsInv
<1>1. /\ lock = "deploy" /\ dep.phase = "begun" /\ agent = "up" /\ app.exists
      /\ dep.resumed => HookRuns = {}
      /\ dep' = [dep EXCEPT !.phase = "hook"]
      /\ UNCHANGED <<agent, lock, app, claims, lastTick, tick, minute, used>>
      /\ dep.id = used.deploys
  BY DEF RunHook, Holders, Hooks
<1>2. /\ dep.id \in 0..MaxDeploys /\ dep'.id = dep.id /\ dep'.phase = "hook" /\ dep'.resumed = dep.resumed
      /\ dep' \in [id : 0..MaxDeploys, phase : {"none", "begun", "hook", "after", "failed"}, resumed : BOOLEAN]
  BY <1>1 DEF JobsTypeOK
<1>3. ~Launching
  BY <1>1, NoLaunch
<1> DEFINE kind == "hook"
           j == "pre-deploy"
<1>4. kind \in {"hook", "scheduled", "manual"} /\ kind = "hook" /\ j \in Names /\ ~Exclusive(j) /\ j = "pre-deploy"
      /\ runs' = Recorded(j, kind, dep.id)
  BY DEF RunHook, Names, Exclusive, JobsAssumption
<1> HIDE DEF kind, j
<1>5. /\ runs' \in Seq(Run)
      /\ Watchers' /\ Alone' /\ Containers' /\ NoOrphans' /\ RunningIsWatched' /\ StartedWhenDue'
  <2>1. UNCHANGED <<agent, minute>> /\ app'.exists /\ lock' \in {"start", "tick", "deploy"} /\ claims \subseteq claims'
        /\ (lock' = "deploy" => dep'.phase = "hook" /\ kind = "hook" /\ dep.id = dep'.id)
        /\ (Exclusive(j) => j \notin claims /\ j \in claims') /\ (kind = "scheduled" => Fired(j, minute))
    BY <1>1, <1>2, <1>4
  <2> QED
    BY <1>1, <1>2, <1>3, <1>4, <2>1, RecordKeeps
<1>6. JobsTypeOK' /\ UsedOK' /\ TickIsDue'
  BY <1>1, <1>2, <1>5 DEF JobsTypeOK, UsedOK, TickIsDue, Fired
<1>7. Holders'
  BY <1>1, <1>2 DEF Holders
<1>8. Hooks'
  <2>1. PICK n \in Nat : NewRow(n, j, kind, dep.id)
    BY <1>2, <1>4, RecordedIs
  <2>2. /\ n \notin DOMAIN runs /\ n \in DOMAIN runs'
        /\ \A k \in DOMAIN runs : k \in DOMAIN runs' /\ runs'[k] = runs[k]
        /\ \A k \in DOMAIN runs' : k # n => k \in DOMAIN runs
        /\ runs'[n].job = j /\ runs'[n].kind = "hook" /\ runs'[n].dep = dep.id /\ runs'[n].status = "running"
    BY <1>4, <2>1 DEF NewRow
  <2>3. \A k \in DOMAIN runs : ~(runs[k].kind = "hook" /\ runs[k].dep = dep.id)
    BY <1>1 DEF Hooks, HookRow, HookRuns
  <2>4. \A k \in DOMAIN runs : HookRow(k)'
    BY <1>1, <1>2, <2>2, <2>3 DEF Hooks, HookRow
  <2>5. HookRow(n)'
    <3>1. used.deploys \in Nat
      BY DEF UsedOK
    <3> QED
      BY <1>1, <1>2, <1>4, <2>2, <3>1 DEF HookRow
  <2>6. HookOnce'
    <3>1. \A r, k \in DOMAIN runs' :
            runs'[r].kind = "hook" /\ runs'[k].kind = "hook" /\ runs'[r].dep = runs'[k].dep => r = k
      BY <2>2, <2>3 DEF Hooks, HookOnce
    <3>2. app.active # 0 => \E r \in DOMAIN runs : runs[r].kind = "hook" /\ runs[r].dep = app.active /\ runs[r].status = "succeeded"
      BY DEF Hooks, HookOnce
    <3> QED
      BY <1>1, <2>2, <3>1, <3>2 DEF HookOnce
  <2>7. \A k \in DOMAIN runs' : HookRow(k)'
    BY <2>2, <2>4, <2>5
  <2> QED
    BY <1>1, <1>2, <2>6, <2>7 DEF Hooks
<1> QED
  BY <1>5, <1>6, <1>7, <1>8

(* The phase of the deployment changes, to "after" only on a hook's success.*)
LEMMA PhaseKeeps ==
  ASSUME JobsAssumption, JobsInv, NEW next \in {"after", "failed"}, dep' = [dep EXCEPT !.phase = next],
         lock = "deploy", agent = "up", ~Launching, next = "after" => Passed(dep.id), dep.phase # "none",
         UNCHANGED <<agent, lock, app, runs, claims, lastTick, tick, minute, used>>
  PROVE  JobsInv'
<1> USE DEF JobsInv
<1>1. /\ dep'.id = dep.id /\ dep'.phase = next /\ dep'.resumed = dep.resumed
      /\ dep' \in [id : 0..MaxDeploys, phase : {"none", "begun", "hook", "after", "failed"}, resumed : BOOLEAN]
  BY DEF JobsTypeOK
<1>2. JobsTypeOK' /\ UsedOK' /\ TickIsDue'
  BY <1>1 DEF JobsTypeOK, UsedOK, TickIsDue, Fired
<1>3. Holders'
  BY <1>1 DEF Holders
<1>4. Watchers' /\ Alone' /\ Containers' /\ NoOrphans' /\ RunningIsWatched' /\ StartedWhenDue'
  BY RowsKept
<1>5. Hooks'
  <2>1. HookOnce' /\ \A r \in DOMAIN runs' : HookRow(r)'
    BY <1>1 DEF Hooks, HookOnce, HookRow
  <2>2. dep'.phase = "after" => Passed(dep.id)'
    BY <1>1 DEF Passed
  <2> QED
    BY <1>1, <2>1, <2>2 DEF Hooks
<1> QED
  BY <1>2, <1>3, <1>4, <1>5

(* There is one run of the hook, so the last one is that.                   *)
LEMMA HookIsOne ==
  ASSUME JobsInv, NEW r \in HookRuns
  PROVE  \A k \in HookRuns : k = r
  BY DEF JobsInv, Hooks, HookOnce, HookRuns

(* A resumed deployment finds the hook it had run, and goes by its outcome. *)
LEMMA HookWasRunKeeps ==
  ASSUME JobsAssumption, JobsInv, HookWasRun
  PROVE  JobsInv'
<1>1. /\ lock = "deploy" /\ dep.phase = "begun" /\ agent = "up" /\ HookRuns # {}
      /\ UNCHANGED <<agent, lock, app, runs, claims, lastTick, tick, minute, used>>
  BY DEF HookWasRun
<1>2. ~Launching
  BY <1>1, NoLaunch
<1> DEFINE last == CHOOSE r \in HookRuns : \A k \in HookRuns : k <= r
           next == IF runs[last].status = "succeeded" THEN "after" ELSE "failed"
<1>3. last \in HookRuns
  <2>1. PICK r \in HookRuns : TRUE
    BY <1>1
  <2>2. \A k \in HookRuns : k = r
    BY HookIsOne
  <2>3. r \in Nat
    BY DEF JobsInv, JobsTypeOK, HookRuns
  <2>4. \A k \in HookRuns : k <= r
    BY <2>2, <2>3
  <2> QED
    BY <2>1, <2>4
<1>4. next \in {"after", "failed"} /\ dep' = [dep EXCEPT !.phase = next]
  BY DEF HookWasRun
<1>5. next = "after" => Passed(dep.id)
  <2> HIDE DEF last
  <2> QED
    BY <1>3 DEF Passed, HookRuns
<1> HIDE DEF next
<1> QED
  BY <1>1, <1>2, <1>4, <1>5, PhaseKeeps

(* The hook is collected, and the deployment goes by its outcome.           *)
LEMMA HookDoneKeeps ==
  ASSUME JobsAssumption, JobsInv, HookDone
  PROVE  JobsInv'
<1>1. /\ lock = "deploy" /\ dep.phase = "hook" /\ agent = "up"
      /\ UNCHANGED <<agent, lock, app, runs, claims, lastTick, tick, minute, used>>
  BY DEF HookDone
<1>2. PICK r \in HookRuns :
        /\ runs[r].watch = "no"
        /\ dep' = [dep EXCEPT !.phase = IF runs[r].status = "succeeded" THEN "after" ELSE "failed"]
  BY DEF HookDone
<1>3. ~Launching
  <2> SUFFICES ASSUME NEW k \in DOMAIN runs, runs[k].watch = "launch" PROVE FALSE
    BY DEF Launching
  <2>1. runs[k].kind = "hook" /\ runs[k].dep = dep.id
    BY <1>1 DEF JobsInv, Watchers, Watcher
  <2>2. runs[r].kind = "hook" /\ runs[r].dep = dep.id /\ r \in DOMAIN runs
    BY <1>2 DEF HookRuns
  <2>3. k = r
    BY <2>1, <2>2 DEF JobsInv, Hooks, HookOnce
  <2> QED
    BY <1>2, <2>3
<1> DEFINE next == IF runs[r].status = "succeeded" THEN "after" ELSE "failed"
<1>4. next \in {"after", "failed"} /\ dep' = [dep EXCEPT !.phase = next]
  BY <1>2
<1>5. next = "after" => Passed(dep.id)
  BY DEF Passed, HookRuns
<1> HIDE DEF next
<1> QED
  BY <1>1, <1>3, <1>4, <1>5, PhaseKeeps

(* The deployment is settled: active if it has passed its hook, or failed.  *)
LEMMA DeployEndsKeeps ==
  ASSUME JobsAssumption, JobsInv, DeployEnds
  PROVE  JobsInv'
<1> USE DEF JobsInv
<1>1. /\ lock = "deploy" /\ dep.phase \in {"after", "failed"} /\ agent # "down"
      /\ dep' = NoDep /\ lock' = "free" /\ app.exists
      /\ UNCHANGED <<agent, runs, claims, lastTick, tick, minute, used>>
  BY DEF DeployEnds, Holders
<1>2. PICK ok \in {dep.phase = "after", FALSE} :
        app' = IF ok THEN [app EXCEPT !.active = dep.id, !.running = TRUE] ELSE app
  BY DEF DeployEnds
<1>3. /\ app'.exists /\ (app'.active = app.active \/ (app'.active = dep.id /\ dep.phase = "after"))
      /\ app' \in [exists : BOOLEAN, running : BOOLEAN, active : 0..MaxDeploys]
  <2>1. CASE ok
    BY <1>1, <1>2, <2>1 DEF JobsTypeOK
  <2>2. CASE ~ok
    BY <1>1, <1>2, <2>2 DEF JobsTypeOK
  <2> QED
    BY <2>1, <2>2
<1>4. ~Launching
  BY <1>1, NoLaunch
<1>5. dep' \in [id : 0..MaxDeploys, phase : {"none", "begun", "hook", "after", "failed"}, resumed : BOOLEAN]
      /\ dep'.phase = "none"
  BY <1>1 DEF NoDep, JobsAssumption
<1>6. JobsTypeOK' /\ UsedOK' /\ TickIsDue'
  BY <1>1, <1>3, <1>5 DEF JobsTypeOK, UsedOK, TickIsDue, Fired
<1>7. Holders'
  BY <1>1, <1>5 DEF Holders
<1>8. Watchers' /\ Alone' /\ Containers' /\ NoOrphans' /\ RunningIsWatched' /\ StartedWhenDue'
  BY <1>1, <1>3, <1>4, RowsKept
<1>9. Hooks'
  <2>1. \A r \in DOMAIN runs' : HookRow(r)'
    BY <1>1, <1>5 DEF Hooks, HookRow
  <2>2. app'.active # 0 => Passed(app'.active)
    BY <1>3 DEF Hooks, HookOnce, Passed
  <2>3. HookOnce'
    BY <1>1, <2>2 DEF Hooks, HookOnce, Passed
  <2> QED
    BY <1>5, <2>1, <2>3 DEF Hooks
<1> QED
  BY <1>6, <1>7, <1>8, <1>9

(* Only the lock, the desired state or the agent's state changes.           *)
LEMMA SmallStepKeeps ==
  ASSUME JobsAssumption, JobsInv, agent # "down", agent' \in {"up", "closing"},
         UNCHANGED <<dep, runs, claims, lastTick, tick, minute>>, UsedOK', used'.deploys = used.deploys,
         app' \in [exists : BOOLEAN, running : BOOLEAN, active : 0..MaxDeploys],
         app'.exists = app.exists, app'.active = app.active,
         lock' = lock \/ (lock' = "free" /\ ~Launching /\ agent' # "up"), agent' = "up" => agent = "up"
  PROVE  JobsInv'
<1> USE DEF JobsInv
<1>1. JobsTypeOK' /\ TickIsDue'
  BY DEF JobsTypeOK, TickIsDue, Fired
<1>2. Holders'
  BY DEF Holders
<1>3. Watchers' /\ Alone' /\ Containers' /\ NoOrphans' /\ RunningIsWatched' /\ StartedWhenDue'
  BY RowsKept
<1>4. Hooks'
  <2>1. \A r \in DOMAIN runs' : HookRow(r)'
    BY DEF Hooks, HookRow
  <2>2. HookOnce'
    BY DEF Hooks, HookOnce
  <2> QED
    BY <2>1, <2>2 DEF Hooks, Passed
<1> QED
  BY <1>1, <1>2, <1>3, <1>4

(* Shutdown interrupts a deployment before it is settled.                   *)
LEMMA DeployInterruptedKeeps ==
  ASSUME JobsAssumption, JobsInv, DeployInterrupted
  PROVE  JobsInv'
<1>1. /\ agent = "closing" /\ ~Launching /\ lock' = "free"
      /\ UNCHANGED <<agent, app, dep, runs, claims, lastTick, tick, minute, used>>
  BY DEF DeployInterrupted
<1>2. UsedOK' /\ app' \in [exists : BOOLEAN, running : BOOLEAN, active : 0..MaxDeploys]
  BY <1>1 DEF JobsInv, UsedOK, JobsTypeOK
<1> QED
  BY <1>1, <1>2, SmallStepKeeps

(* The desired state changes under the lock.                                *)
LEMMA StopOrStartKeeps ==
  ASSUME JobsAssumption, JobsInv, StopOrStart
  PROVE  JobsInv'
<1>1. /\ agent = "up" /\ UNCHANGED <<agent, lock, dep, runs, claims, lastTick, tick, minute>>
      /\ app' = [app EXCEPT !.running = ~@]
  BY DEF StopOrStart
<1>2. UsedOK' /\ used'.deploys = used.deploys
  BY DEF StopOrStart, UsedOK, JobsInv
<1>3. /\ app' \in [exists : BOOLEAN, running : BOOLEAN, active : 0..MaxDeploys]
      /\ app'.exists = app.exists /\ app'.active = app.active
  BY <1>1 DEF JobsInv, JobsTypeOK
<1> QED
  BY <1>1, <1>2, <1>3, SmallStepKeeps

(* Shutdown: nothing new starts.                                            *)
LEMMA ShutdownKeeps ==
  ASSUME JobsAssumption, JobsInv, Shutdown
  PROVE  JobsInv'
<1>1. /\ agent = "up" /\ agent' = "closing" /\ UNCHANGED <<lock, app, dep, runs, claims, lastTick, tick, minute>>
  BY DEF Shutdown
<1>2. UsedOK' /\ used'.deploys = used.deploys
  BY DEF Shutdown, UsedOK, JobsInv
<1>3. app' \in [exists : BOOLEAN, running : BOOLEAN, active : 0..MaxDeploys]
  BY <1>1 DEF JobsInv, JobsTypeOK
<1> QED
  BY <1>1, <1>2, <1>3, SmallStepKeeps

(* A minute passes; no run is overdue, so each that is waited for stays     *)
(* within its time.                                                         *)
LEMMA MinuteKeeps ==
  ASSUME JobsAssumption, JobsInv, Minute
  PROVE  JobsInv'
<1> USE DEF JobsInv
<1>1. /\ minute < MaxMinute /\ minute' = minute + 1 /\ \A r \in DOMAIN runs : ~Overdue(r)
      /\ UNCHANGED <<agent, lock, app, dep, runs, claims, lastTick, tick, used>>
  BY DEF Minute
<1>2. minute \in Nat /\ minute' \in 1..MaxMinute /\ MaxMinute \in Nat
  BY <1>1 DEF JobsTypeOK, JobsAssumption
<1>3. JobsTypeOK' /\ UsedOK'
  BY <1>1, <1>2 DEF JobsTypeOK, UsedOK
<1>4. TickIsDue'
  BY <1>1, <1>2 DEF TickIsDue, Fired, Fires
<1>5. Holders'
  BY <1>1 DEF Holders
<1>6. Watchers'
  <2> SUFFICES ASSUME NEW r \in DOMAIN runs PROVE Watcher(r)'
    BY <1>1 DEF Watchers
  <2>1. /\ runs[r].started \in Nat /\ Timeout[runs[r].job] \in Nat /\ Watcher(r)
        /\ runs[r].watch \in {"no", "launch", "wait", "remove"}
    BY TypedRuns, RunFields DEF JobsAssumption, Names, Watchers
  <2>2. runs[r].watch # "no" => runs[r].watch = "wait" /\ ~(minute - runs[r].started >= Timeout[runs[r].job])
    BY <1>1, <2>1 DEF Overdue
  <2>3. runs[r].watch # "no" => /\ runs[r].started <= minute /\ minute - runs[r].started <= Timeout[runs[r].job]
                                /\ (Exclusive(runs[r].job) => runs[r].job \in claims)
    BY <2>1 DEF Watcher
  <2>4. runs[r].watch # "no" => runs[r].started <= minute + 1 /\ minute + 1 - runs[r].started <= Timeout[runs[r].job]
    BY <1>2, <2>1, <2>2, <2>3
  <2>5. (runs[r].draining => runs[r].watch = "no") /\ (agent = "down" => runs[r].watch = "no" /\ ~runs[r].draining)
    BY <2>1 DEF Watcher
  <2>6. runs[r].watch # "launch"
    BY <2>2
  <2>7. runs'[r].watch # "no" => /\ runs'[r].started <= minute' /\ minute' - runs'[r].started <= Timeout[runs'[r].job]
                                /\ (Exclusive(runs'[r].job) => runs'[r].job \in claims')
    <3>1. runs'[r] = runs[r] /\ claims' = claims /\ minute' = minute + 1
      BY <1>1
    <3> QED
      BY <1>2, <2>1, <2>3, <2>4, <3>1 DEF Exclusive
  <2>8. runs'[r].watch # "launch" /\ (runs'[r].draining => runs'[r].watch = "no")
        /\ (agent' = "down" => runs'[r].watch = "no" /\ ~runs'[r].draining)
    BY <1>1, <2>5, <2>6
  <2> QED
    BY <2>7, <2>8 DEF Watcher, Exclusive
<1>7. Alone' /\ Containers' /\ NoOrphans' /\ RunningIsWatched'
  BY <1>1 DEF Alone, Containers, Container, Left, NoOrphans, RunningIsWatched, Exclusive
<1>8. Hooks' /\ StartedWhenDue'
  BY <1>1, SameRows, HooksKept, DueKept
<1> QED
  BY <1>3, <1>4, <1>5, <1>6, <1>7, <1>8

-----------------------------------------------------------------------------
(* All rows change: a deletion, the end of the process, the next start.     *)

(* Rows that are rewritten one by one stay rows.                            *)
LEMMA RowsMapped ==
  ASSUME runs \in Seq(Run), runs' = [r \in DOMAIN runs |-> runs'[r]], \A r \in DOMAIN runs : runs'[r] \in Run
  PROVE  runs' \in Seq(Run) /\ DOMAIN runs' = DOMAIN runs
<1> DEFINE S == Run
<1>1. runs \in Seq(S) /\ \A r \in DOMAIN runs : runs'[r] \in S
  OBVIOUS
<1> HIDE DEF S
<1>2. runs' \in Seq(S) /\ DOMAIN runs' = DOMAIN runs
  BY <1>1
<1> QED
  BY <1>2 DEF S

(* A hook stays the only one of its deployment while the runs keep theirs.  *)
LEMMA OneHookKept ==
  ASSUME HookOnce, DOMAIN runs' = DOMAIN runs,
         \A r \in DOMAIN runs : runs'[r].kind = runs[r].kind /\ runs'[r].dep = runs[r].dep
  PROVE  \A r, k \in DOMAIN runs' :
           runs'[r].kind = "hook" /\ runs'[k].kind = "hook" /\ runs'[r].dep = runs'[k].dep => r = k
  BY DEF HookOnce

(* Nobody launches, and a goroutine goes on as it was or is gone.           *)
LEMMA WatchKept ==
  ASSUME Watchers, Alone, DOMAIN runs' = DOMAIN runs, UNCHANGED minute,
         \A r \in DOMAIN runs : runs[r].watch # "launch",
         \A r \in DOMAIN runs :
           /\ runs'[r].job = runs[r].job /\ runs'[r].started = runs[r].started
           /\ runs'[r].watch # "no" => runs'[r].watch = runs[r].watch /\ claims' = claims /\ ~runs'[r].draining /\ agent' # "down"
           /\ agent' = "down" => ~runs'[r].draining
  PROVE  Watchers' /\ Alone'
<1>1. Watchers'
  <2> SUFFICES ASSUME NEW r \in DOMAIN runs PROVE Watcher(r)'
    BY DEF Watchers
  <2>1. Watcher(r) /\ runs[r].watch # "launch" /\ minute' = minute
    BY DEF Watchers
  <2>2. /\ runs'[r].job = runs[r].job /\ runs'[r].started = runs[r].started
        /\ runs'[r].watch # "no" => runs'[r].watch = runs[r].watch /\ claims' = claims /\ ~runs'[r].draining /\ agent' # "down"
        /\ agent' = "down" => ~runs'[r].draining
    OBVIOUS
  <2> QED
    BY <2>1, <2>2 DEF Watcher, Exclusive
<1>2. Alone'
  <2> SUFFICES ASSUME NEW r \in DOMAIN runs, NEW k \in DOMAIN runs
               PROVE  /\ runs'[r].watch = "launch" /\ runs'[k].watch = "launch" => r = k
                      /\ /\ runs'[r].watch # "no" /\ runs'[k].watch # "no"
                         /\ runs'[r].job = runs'[k].job /\ Exclusive(runs'[r].job)
                         => r = k
    BY DEF Alone
  <2> QED
    BY DEF Alone, Exclusive
<1> QED
  BY <1>1, <1>2

(* DeleteApp retires the containers: all of them, or it is given up.        *)
LEMMA DeleteRetireKeeps ==
  ASSUME JobsAssumption, JobsInv, DeleteRetire
  PROVE  JobsInv'
<1> USE DEF JobsInv
<1> DEFINE listed == {r \in DOMAIN runs : runs[r].cont # "none" /\ ~runs[r].draining}
<1>1. /\ agent = "up" /\ lock = "free" /\ app.exists /\ dep.phase = "none"
      /\ UNCHANGED <<agent, app, dep, claims, lastTick, tick, minute>>
  BY DEF DeleteRetire, Holders
<1>2. PICK ok \in BOOLEAN, gone \in SUBSET listed :
        /\ ok => gone = listed
        /\ used' = [used EXCEPT !.requests = @ + 1, !.faults = IF ok THEN @ ELSE @ + 1]
        /\ runs' = [r \in DOMAIN runs |-> IF r \in gone THEN [runs[r] EXCEPT !.cont = "none"] ELSE runs[r]]
        /\ lock' = IF ok THEN "delete" ELSE "free"
  <2> HIDE DEF listed
  <2>1. PICK ok \in BOOLEAN : \E gone \in IF ok THEN {listed} ELSE SUBSET listed :
        /\ used' = [used EXCEPT !.requests = @ + 1, !.faults = IF ok THEN @ ELSE @ + 1]
        /\ runs' = [r \in DOMAIN runs |-> IF r \in gone THEN [runs[r] EXCEPT !.cont = "none"] ELSE runs[r]]
        /\ lock' = IF ok THEN "delete" ELSE "free"
    BY DEF DeleteRetire, listed
  <2>2. PICK gone \in IF ok THEN {listed} ELSE SUBSET listed :
        /\ used' = [used EXCEPT !.requests = @ + 1, !.faults = IF ok THEN @ ELSE @ + 1]
        /\ runs' = [r \in DOMAIN runs |-> IF r \in gone THEN [runs[r] EXCEPT !.cont = "none"] ELSE runs[r]]
        /\ lock' = IF ok THEN "delete" ELSE "free"
    BY <2>1
  <2>3. gone \in SUBSET listed /\ (ok => gone = listed)
    OBVIOUS
  <2> QED
    BY <2>2, <2>3
<1>3. \A r \in DOMAIN runs :
        /\ runs'[r] \in Run
        /\ runs'[r].job = runs[r].job /\ runs'[r].kind = runs[r].kind /\ runs'[r].dep = runs[r].dep
        /\ runs'[r].status = runs[r].status /\ runs'[r].started = runs[r].started
        /\ runs'[r].watch = runs[r].watch /\ runs'[r].draining = runs[r].draining /\ runs'[r].stuck = runs[r].stuck
        /\ runs'[r].cont = IF r \in gone THEN "none" ELSE runs[r].cont
  <2> TAKE r \in DOMAIN runs
  <2>1. runs[r] \in Run /\ runs'[r] = IF r \in gone THEN [runs[r] EXCEPT !.cont = "none"] ELSE runs[r]
    BY <1>2, TypedRuns
  <2> QED
    BY <2>1 DEF Run
<1>4. runs' \in Seq(Run) /\ DOMAIN runs' = DOMAIN runs
  <2>1. runs' = [r \in DOMAIN runs |-> runs'[r]]
    BY <1>2
  <2>2. \A r \in DOMAIN runs : runs'[r] \in Run
    BY <1>3
  <2> QED
    BY <2>1, <2>2, TypedRuns, RowsMapped
<1>5. UsedOK' /\ used'.deploys = used.deploys
  <2>1. used' = [used EXCEPT !.requests = @ + 1, !.faults = IF ok THEN @ ELSE @ + 1]
    BY <1>2
  <2>2. /\ used \in [deploys : Nat, requests : Nat, stops : Nat, faults : Nat]
        /\ used.deploys <= MaxDeploys
    BY DEF UsedOK
  <2>3. used.requests + 1 \in Nat /\ (IF ok THEN used.faults ELSE used.faults + 1) \in Nat
    BY <2>2
  <2>4. /\ used' \in [deploys : Nat, requests : Nat, stops : Nat, faults : Nat]
        /\ used'.deploys = used.deploys
    BY <2>1, <2>2, <2>3
  <2> QED
    BY <2>2, <2>4 DEF UsedOK
<1>6. JobsTypeOK' /\ TickIsDue'
  BY <1>1, <1>2, <1>4 DEF JobsTypeOK, TickIsDue, Fired
<1>7. Holders'
  BY <1>1, <1>2 DEF Holders
<1>8. \A r \in DOMAIN runs : runs[r].watch # "launch"
  BY <1>1 DEF Watchers, Watcher
<1>14. \A r \in DOMAIN runs : runs[r].watch # "no" => ~runs[r].draining
  BY DEF Watchers, Watcher
<1>9. Watchers' /\ Alone'
  BY <1>1, <1>3, <1>4, <1>8, <1>14, WatchKept
<1>10. Containers'
  <2> SUFFICES ASSUME NEW r \in DOMAIN runs PROVE Container(r)'
    BY <1>4 DEF Containers
  <2>1. ok => ~(Left(r)')
    BY <1>2, <1>3 DEF Left
  <2> QED
    BY <1>1, <1>2, <1>3, <2>1 DEF Containers, Container, Left
<1>11. NoOrphans' /\ RunningIsWatched'
  BY <1>1, <1>3, <1>4 DEF NoOrphans, RunningIsWatched
<1>12. \A r \in DOMAIN runs : Evolves(r)
  BY <1>3 DEF Evolves
<1>13. Hooks' /\ StartedWhenDue'
  BY <1>1, <1>4, <1>5, <1>12, HooksKept, DueKept
<1> QED
  BY <1>5, <1>6, <1>7, <1>9, <1>10, <1>11, <1>13

(* DeleteApp removes the records, once no container is listed any more.     *)
LEMMA DeleteRecordsKeeps ==
  ASSUME JobsAssumption, JobsInv, DeleteRecords
  PROVE  JobsInv'
<1> USE DEF JobsInv
<1>1. /\ lock = "delete" /\ dep.phase = "none" /\ lock' = "free" /\ agent # "down"
      /\ app' = [exists |-> FALSE, running |-> FALSE, active |-> 0]
      /\ runs' = [r \in DOMAIN runs |-> [runs[r] EXCEPT !.status = "gone"]]
      /\ \A r \in DOMAIN runs : ~runs[r].draining
      /\ UNCHANGED <<agent, dep, claims, lastTick, tick, minute, used>>
  BY DEF DeleteRecords, Holders
<1>2. \A r \in DOMAIN runs :
        /\ runs'[r] \in Run /\ runs'[r].status = "gone"
        /\ runs'[r].job = runs[r].job /\ runs'[r].kind = runs[r].kind /\ runs'[r].dep = runs[r].dep
        /\ runs'[r].started = runs[r].started /\ runs'[r].cont = runs[r].cont
        /\ runs'[r].watch = runs[r].watch /\ runs'[r].draining = runs[r].draining /\ runs'[r].stuck = runs[r].stuck
  <2> TAKE r \in DOMAIN runs
  <2>1. runs[r] \in Run /\ runs'[r] = [runs[r] EXCEPT !.status = "gone"]
    BY <1>1, TypedRuns
  <2> QED
    BY <2>1 DEF Run
<1>3. runs' \in Seq(Run) /\ DOMAIN runs' = DOMAIN runs
  <2>1. runs' = [r \in DOMAIN runs |-> runs'[r]]
    BY <1>1
  <2>2. \A r \in DOMAIN runs : runs'[r] \in Run
    BY <1>2
  <2> QED
    BY <2>1, <2>2, TypedRuns, RowsMapped
<1>4. JobsTypeOK' /\ UsedOK' /\ TickIsDue'
  <2>1. JobsTypeOK'
    <3>1. /\ lock' = "free" /\ app' = [exists |-> FALSE, running |-> FALSE, active |-> 0] /\ 0 \in 0..MaxDeploys
          /\ UNCHANGED <<agent, dep, claims, lastTick, tick, minute>>
      BY <1>1 DEF JobsAssumption
    <3> QED
      BY <1>3, <3>1 DEF JobsTypeOK
  <2>2. UNCHANGED <<used, tick, minute>>
    BY <1>1
  <2>3. UsedOK'
    BY <2>2 DEF UsedOK
  <2>4. TickIsDue'
    BY <2>2, TickKept
  <2> QED
    BY <2>1, <2>3, <2>4
<1>5. Holders'
  BY <1>1 DEF Holders
<1>6. \A r \in DOMAIN runs : runs[r].watch # "launch"
  BY <1>1 DEF Watchers, Watcher
<1>16. \A r \in DOMAIN runs : runs[r].watch # "no" => ~runs[r].draining
  BY DEF Watchers, Watcher
<1>17. agent' # "down" /\ UNCHANGED <<claims, minute>>
  BY <1>1
<1>7. Watchers' /\ Alone'
  BY <1>2, <1>3, <1>6, <1>16, <1>17, WatchKept
<1>14. app'.exists = FALSE /\ app'.active = 0
  BY <1>1
<1>15. Containers'
  <2> SUFFICES ASSUME NEW r \in DOMAIN runs PROVE Container(r)'
    BY <1>3 DEF Containers
  <2>1. Container(r)
    BY DEF Containers
  <2> QED
    BY <1>1, <1>2, <1>14, <2>1 DEF Container, Left
<1>18. \A r \in DOMAIN runs : runs[r].cont = "none" \/ runs[r].stuck # "no"
  BY <1>1 DEF Containers, Container, Left
<1>8. NoOrphans' /\ RunningIsWatched' /\ StartedWhenDue'
  <2>1. NoOrphans'
    BY <1>2, <1>3, <1>18 DEF NoOrphans
  <2>2. RunningIsWatched'
    BY <1>2, <1>3 DEF RunningIsWatched
  <2>3. StartedWhenDue'
    BY <1>2, <1>3 DEF StartedWhenDue, Fires
  <2> QED
    BY <2>1, <2>2, <2>3
<1>19. \A r, k \in DOMAIN runs' :
         runs'[r].kind = "hook" /\ runs'[k].kind = "hook" /\ runs'[r].dep = runs'[k].dep => r = k
  BY <1>2, <1>3, OneHookKept DEF Hooks
<1>9. Hooks'
  <2>1. \A r \in DOMAIN runs' : HookRow(r)'
    BY <1>1, <1>2, <1>3 DEF Hooks, HookRow
  <2>2. HookOnce'
    BY <1>14, <1>19 DEF HookOnce
  <2> QED
    BY <1>1, <2>1, <2>2 DEF Hooks
<1> QED
  BY <1>4, <1>5, <1>7, <1>8, <1>9, <1>15

(* The process ends: whatever it held in memory is gone, the containers are *)
(* not.                                                                     *)
LEMMA DeadKeeps ==
  ASSUME JobsAssumption, JobsInv, Dead, UsedOK', used'.deploys = used.deploys
  PROVE  JobsInv'
<1> USE DEF JobsInv
<1>1. /\ agent' = "down" /\ lock' = "free" /\ claims' = {} /\ lastTick' = 0 /\ tick' = NoTick
      /\ runs' = [r \in DOMAIN runs |-> [runs[r] EXCEPT !.watch = "no", !.draining = FALSE]]
      /\ UNCHANGED <<app, dep, minute>>
  BY DEF Dead
<1>2. \A r \in DOMAIN runs :
        /\ runs'[r] \in Run /\ runs'[r].status = runs[r].status
        /\ runs'[r].job = runs[r].job /\ runs'[r].kind = runs[r].kind /\ runs'[r].dep = runs[r].dep
        /\ runs'[r].started = runs[r].started /\ runs'[r].cont = runs[r].cont
        /\ runs'[r].watch = "no" /\ runs'[r].draining = FALSE /\ runs'[r].stuck = runs[r].stuck
  <2> TAKE r \in DOMAIN runs
  <2>1. runs[r] \in Run /\ runs'[r] = [runs[r] EXCEPT !.watch = "no", !.draining = FALSE]
    BY <1>1, TypedRuns
  <2> QED
    BY <2>1 DEF Run
<1>3. runs' \in Seq(Run) /\ DOMAIN runs' = DOMAIN runs
  <2>1. runs' = [r \in DOMAIN runs |-> runs'[r]]
    BY <1>1
  <2>2. \A r \in DOMAIN runs : runs'[r] \in Run
    BY <1>2
  <2> QED
    BY <2>1, <2>2, TypedRuns, RowsMapped
<1>11. /\ agent' = "down" /\ lock' = "free" /\ claims' = {} /\ lastTick' = 0 /\ tick' = NoTick
       /\ UNCHANGED <<app, dep, minute>>
  BY <1>1
<1>12. 0 \in 0..MaxMinute
  BY DEF JobsTypeOK
<1>4. JobsTypeOK' /\ TickIsDue'
  <2>1. JobsTypeOK'
    BY <1>3, <1>11, <1>12 DEF JobsTypeOK, NoTick
  <2>2. TickIsDue'
    BY <1>11 DEF TickIsDue, NoTick
  <2> QED
    BY <2>1, <2>2
<1>5. Holders'
  BY <1>1 DEF Holders
<1>10. agent' = "down" /\ lock' = "free" /\ app' = app
  BY <1>1
<1>6. Watchers' /\ Alone' /\ Containers'
  <2>1. Watchers'
    BY <1>2, <1>3, <1>10 DEF Watchers, Watcher
  <2>2. Alone'
    BY <1>2, <1>3 DEF Alone
  <2>3. Containers'
    <3> SUFFICES ASSUME NEW r \in DOMAIN runs PROVE Container(r)'
      BY <1>3 DEF Containers
    <3>1. agent' = "down" /\ lock' = "free"
      BY <1>10
    <3>2. runs'[r].stuck = runs[r].stuck /\ runs'[r].job = runs[r].job
      BY <1>2
    <3>3. runs[r].stuck = "late" => Timeout[runs[r].job] >= CleanupTimeout
      BY DEF JobsInv, Containers, Container
    <3> QED
      BY <3>1, <3>2, <3>3 DEF Container
  <2> QED
    BY <2>1, <2>2, <2>3
<1>7. NoOrphans' /\ RunningIsWatched'
  BY <1>2, <1>3, <1>10 DEF NoOrphans, RunningIsWatched
<1>8. \A r \in DOMAIN runs : Evolves(r)
  BY <1>2 DEF Evolves
<1>9. Hooks' /\ StartedWhenDue'
  BY <1>1, <1>3, <1>8, HooksKept, DueKept
<1> QED
  BY <1>4, <1>5, <1>6, <1>7, <1>9

(* The next start: runs that were running are interrupted, what is left of  *)
(* them is drained, and an open deployment is resumed.                      *)
LEMMA RecoverKeeps ==
  ASSUME JobsAssumption, JobsInv, Recover
  PROVE  JobsInv'
<1> USE DEF JobsInv
<1>1. /\ agent = "down" /\ agent' = "up" /\ lock = "free" /\ claims = {}
      /\ runs' = [r \in DOMAIN runs |-> [Finished(runs[r], "interrupted") EXCEPT
                    !.draining = runs[r].cont # "none" /\ app.exists]]
      /\ IF dep.phase = "none"
         THEN UNCHANGED <<dep, lock>>
         ELSE dep' = [dep EXCEPT !.phase = "begun", !.resumed = TRUE] /\ lock' = "deploy"
      /\ UNCHANGED <<app, claims, lastTick, tick, minute, used>>
  BY DEF Recover, Holders
<1>2. \A r \in DOMAIN runs :
        /\ runs'[r] \in Run
        /\ runs'[r].status = IF runs[r].status = "running" THEN "interrupted" ELSE runs[r].status
        /\ runs'[r].job = runs[r].job /\ runs'[r].kind = runs[r].kind /\ runs'[r].dep = runs[r].dep
        /\ runs'[r].started = runs[r].started /\ runs'[r].cont = runs[r].cont /\ runs'[r].watch = "no"
        /\ runs'[r].draining = (runs[r].cont # "none" /\ app.exists) /\ runs'[r].stuck = runs[r].stuck
  <2> TAKE r \in DOMAIN runs
  <2> DEFINE y == Finished(runs[r], "interrupted")
             b == runs[r].cont # "none" /\ app.exists
  <2>1. /\ y \in Run /\ y.status = IF runs[r].status = "running" THEN "interrupted" ELSE runs[r].status
        /\ y.job = runs[r].job /\ y.kind = runs[r].kind /\ y.dep = runs[r].dep /\ y.started = runs[r].started
        /\ y.cont = runs[r].cont /\ y.watch = runs[r].watch /\ y.stuck = runs[r].stuck
    BY TypedRuns, FinishedIs
  <2>2. runs'[r] = [y EXCEPT !.draining = b]
    BY <1>1
  <2>3. runs[r].watch = "no"
    BY <1>1 DEF Watchers, Watcher
  <2>4. b \in BOOLEAN
    BY DEF JobsTypeOK
  <2> HIDE DEF y, b
  <2>5. /\ runs'[r] \in Run /\ runs'[r].status = y.status
        /\ runs'[r].job = y.job /\ runs'[r].kind = y.kind /\ runs'[r].dep = y.dep /\ runs'[r].started = y.started
        /\ runs'[r].cont = y.cont /\ runs'[r].watch = y.watch /\ runs'[r].stuck = y.stuck
        /\ runs'[r].draining = b
    BY <2>1, <2>2, <2>4 DEF Run
  <2> QED
    BY <2>1, <2>3, <2>5 DEF b
<1>3. runs' \in Seq(Run) /\ DOMAIN runs' = DOMAIN runs
  <2>1. runs' = [r \in DOMAIN runs |-> runs'[r]]
    BY <1>1
  <2>2. \A r \in DOMAIN runs : runs'[r] \in Run
    BY <1>2
  <2> QED
    BY <2>1, <2>2, TypedRuns, RowsMapped
<1>4. /\ dep' \in [id : 0..MaxDeploys, phase : {"none", "begun", "hook", "after", "failed"}, resumed : BOOLEAN]
      /\ dep'.id = dep.id /\ lock' \in {"free", "deploy"}
      /\ dep.phase = "none" => dep' = dep /\ lock' = "free"
      /\ dep.phase # "none" => dep'.phase = "begun" /\ dep'.resumed = TRUE /\ lock' = "deploy"
  <2>1. dep \in [id : 0..MaxDeploys, phase : {"none", "begun", "hook", "after", "failed"}, resumed : BOOLEAN]
    BY DEF JobsTypeOK
  <2>2. CASE dep.phase = "none"
    BY <1>1, <2>1, <2>2
  <2>3. CASE dep.phase # "none"
    <3>1. dep' = [dep EXCEPT !.phase = "begun", !.resumed = TRUE] /\ lock' = "deploy"
      BY <1>1, <2>3
    <3> QED
      BY <2>1, <2>3, <3>1
  <2> QED
    BY <2>2, <2>3
<1>5. JobsTypeOK' /\ UsedOK' /\ TickIsDue'
  BY <1>1, <1>3, <1>4 DEF JobsTypeOK, UsedOK, TickIsDue, Fired
<1>6. Holders'
  BY <1>1, <1>4 DEF Holders
<1>13. agent' = "up" /\ app' = app
  BY <1>1
<1>7. Watchers' /\ Alone'
  <2>1. Watchers'
    BY <1>2, <1>3, <1>13 DEF Watchers, Watcher
  <2>2. Alone'
    BY <1>2, <1>3 DEF Alone
  <2> QED
    BY <2>1, <2>2
<1>8. Containers'
  <2> SUFFICES ASSUME NEW r \in DOMAIN runs PROVE Container(r)'
    BY <1>3 DEF Containers
  <2>1. Container(r)
    BY DEF Containers
  <2>2. ~app.exists => runs[r].cont = "none" \/ runs[r].stuck # "no"
    BY DEF NoOrphans
  <2>3. app.exists \in BOOLEAN
    BY DEF JobsTypeOK
  <2>4. ~(Left(r)')
    BY <1>2, <2>2, <2>3 DEF Left
  <2> QED
    BY <1>2, <2>1, <2>4 DEF Container
<1>9. NoOrphans' /\ RunningIsWatched'
  <2>1. NoOrphans'
    BY <1>2, <1>3, <1>13 DEF NoOrphans
  <2>2. RunningIsWatched'
    BY <1>2, <1>3, <1>13 DEF RunningIsWatched
  <2> QED
    BY <2>1, <2>2
<1>10. \A r \in DOMAIN runs : Evolves(r)
  BY <1>2 DEF Evolves
<1>11. StartedWhenDue'
  BY <1>3, <1>10, DueKept
<1>12. Hooks'
  <2>1. \A r \in DOMAIN runs' : HookRow(r)'
    <3> SUFFICES ASSUME NEW r \in DOMAIN runs PROVE HookRow(r)'
      BY <1>3
    <3>1. HookRow(r) /\ Evolves(r)
      BY <1>10 DEF Hooks
    <3> QED
      BY <1>1, <1>4, <3>1 DEF HookRow, Evolves
  <2>2. app.active # 0 => \E r \in DOMAIN runs : runs[r].kind = "hook" /\ runs[r].dep = app.active /\ runs[r].status = "succeeded"
    BY DEF Hooks, HookOnce
  <2>3. \A r, k \in DOMAIN runs' :
          runs'[r].kind = "hook" /\ runs'[k].kind = "hook" /\ runs'[r].dep = runs'[k].dep => r = k
    BY <1>2, <1>3, OneHookKept DEF Hooks
  <2>4. HookOnce'
    <3>1. app'.active # 0 => \E r \in DOMAIN runs' : runs'[r].kind = "hook" /\ runs'[r].dep = app'.active /\ runs'[r].status = "succeeded"
      BY <1>2, <1>3, <1>13, <2>2
    <3> QED
      BY <2>3, <3>1 DEF HookOnce
  <2>5. dep'.phase # "none" => dep'.id = used'.deploys
    BY <1>1, <1>4 DEF Hooks
  <2>6. dep'.phase # "after"
    <3>1. dep.phase = "none" => dep'.phase # "after"
      BY <1>4
    <3> QED
      BY <1>4, <3>1
  <2> QED
    BY <2>1, <2>4, <2>5, <2>6 DEF Hooks
<1> QED
  BY <1>1, <1>5, <1>6, <1>7, <1>8, <1>9, <1>11, <1>12

-----------------------------------------------------------------------------
(* The invariant holds before the first job.                                *)
LEMMA InitHolds ==
  ASSUME JobsAssumption, JobsInit
  PROVE  JobsInv
<1> USE DEF JobsInit, JobsAssumption
<1>1. DOMAIN runs = {} /\ runs \in Seq(Run) /\ app.active = 0
  OBVIOUS
<1>2. JobsTypeOK /\ UsedOK /\ TickIsDue
  BY <1>1 DEF JobsTypeOK, UsedOK, TickIsDue, NoDep, NoTick
<1>3. Holders
  BY DEF Holders, NoDep
<1>4. Watchers /\ Alone /\ Containers /\ NoOrphans /\ RunningIsWatched /\ StartedWhenDue
  BY <1>1 DEF Watchers, Alone, Containers, NoOrphans, RunningIsWatched, StartedWhenDue
<1>5. Hooks
  BY <1>1 DEF Hooks, HookOnce, NoDep
<1> QED
  BY <1>2, <1>3, <1>4, <1>5 DEF JobsInv

(* Every step of the jobs keeps the invariant.                              *)
LEMMA StepKeeps ==
  ASSUME JobsAssumption, JobsInv, [JobsNext]_jobVars
  PROVE  JobsInv'
<1>1. CASE UNCHANGED jobVars
  <2>1. UNCHANGED <<agent, lock, app, dep, runs, claims, lastTick, tick, minute, used>>
    BY <1>1 DEF jobVars
  <2>2. JobsTypeOK' /\ UsedOK' /\ TickIsDue' /\ Holders'
    BY <2>1 DEF JobsInv, JobsTypeOK, UsedOK, TickIsDue, Fired, Holders
  <2>3. Watchers' /\ Alone' /\ Containers' /\ NoOrphans' /\ RunningIsWatched'
    BY <2>1 DEF JobsInv, Watchers, Watcher, Alone, Containers, Container, Left, NoOrphans, RunningIsWatched, Exclusive
  <2>4. Hooks' /\ StartedWhenDue'
    BY <2>1, SameRows, HooksKept, DueKept DEF JobsInv
  <2> QED
    BY <2>2, <2>3, <2>4 DEF JobsInv
<1>2. ASSUME NEW r \in DOMAIN runs, RunStep(r) PROVE JobsInv'
  BY <1>2, LaunchKeeps, CollectExitKeeps, CutOffKeeps, CollectRemoveKeeps, DrainEndsKeeps DEF RunStep, CollectCutOff
<1>3. CASE AgentStep
  <2>1. ASSUME Exit PROVE JobsInv'
    BY <2>1, DeadKeeps DEF Exit, JobsInv, UsedOK
  <2> QED
    BY <1>2, <1>3, <2>1, ScheduleTickKeeps, ScheduleStartKeeps, ScheduleDoneKeeps, ScheduleForgetKeeps,
       RunHookKeeps, HookWasRunKeeps, HookDoneKeeps, DeployEndsKeeps, DeployInterruptedKeeps,
       DeleteRecordsKeeps, RecoverKeeps DEF AgentStep
<1>4. CASE RunJob \/ RunCommand
  BY <1>4, StartRunKeeps DEF RunJob, RunCommand
<1>5. CASE Crash
  <2>1. UsedOK' /\ used'.deploys = used.deploys /\ Dead
    BY <1>5 DEF Crash, JobsInv, UsedOK
  <2> QED
    BY <2>1, DeadKeeps
<1>6. CASE \E r \in DOMAIN runs : WaitFails(r) \/ ProcessExits(r)
  BY <1>6, CutOffKeeps, ProcessExitsKeeps DEF WaitFails
<1> QED
  BY <1>1, <1>3, <1>4, <1>5, <1>6, DeployKeeps, DeleteRetireKeeps, StopOrStartKeeps, ShutdownKeeps, MinuteKeeps
     DEF JobsNext

(* What the invariant says of the containers of one job, and of a run that  *)
(* timed out.                                                               *)
LEMMA InvImpliesSafe ==
  ASSUME JobsInv
  PROVE  JobsSafe
<1> USE DEF JobsInv
<1>1. OneRunPerJob
  <2> SUFFICES ASSUME agent # "down", NEW r \in DOMAIN runs, NEW k \in DOMAIN runs,
                      r # k, runs[r].job = runs[k].job, Exclusive(runs[r].job),
                      {runs[r].cont, runs[k].cont} = {"running"},
                      ~(runs[r].draining \/ runs[r].stuck # "no"), ~(runs[k].draining \/ runs[k].stuck # "no")
               PROVE  FALSE
    BY DEF OneRunPerJob
  <2>1. runs[r].cont = "running" /\ runs[k].cont = "running"
    OBVIOUS
  <2>2. runs[r].watch # "no" /\ runs[k].watch # "no"
    BY <2>1 DEF Containers, Container, Left
  <2> QED
    BY <2>2 DEF Alone
<1>2. TimeoutEndsCommand
  BY DEF TimeoutEndsCommand, Containers, Container, Left
<1>3. HookOnce
  BY DEF Hooks
<1> QED
  BY <1>1, <1>2, <1>3 DEF JobsSafe

(* The safety of the jobs, for any jobs, schedules, timeouts, deployments,  *)
(* failures of Docker, stops and starts of the agent: no two runs of a job  *)
(* that runs alone, a pre-deploy command once, every run watched, a timeout *)
(* that ends the command, and nothing left of a deleted application         *)
(* (collectJob, launchJob, tick, runHook, DeleteApp, recoverJobs).          *)
THEOREM JobsAreSafe == JobsSpec => []JobsSafe
<1>1. JobsInit => JobsInv
  BY InitHolds, JobsAssumption
<1>2. JobsInv /\ [JobsNext]_jobVars => JobsInv'
  BY StepKeeps, JobsAssumption
<1>3. JobsInv => JobsSafe
  BY InvImpliesSafe
<1> QED
  BY <1>1, <1>2, <1>3, PTL DEF JobsSpec

-----------------------------------------------------------------------------
(* The agent's process.                                                     *)

(* What the start has opened by each of its steps.                          *)
AllOpen == <<"store", "docker", "webhook">>
OpenBy(n) == IF n = 1 THEN <<>> ELSE IF n = 2 THEN <<"store">>
             ELSE IF n \in {3, 4} THEN <<"store", "docker">> ELSE AllOpen

(* Nobody of this process lives.                                            *)
Quiet == Working = {} /\ Running = {} /\ loops = {} /\ probing = 0

(* Who can live at each phase, and what is open then.                       *)
PhaseOK ==
    /\ phase \in {"down", "starting", "serving", "closing", "settling", "leaving"}
    /\ phase = "down" => Quiet /\ open = <<>>
    /\ phase = "starting" =>
        /\ step \in 1..12 /\ open = OpenBy(step) /\ Working = {} /\ ~ending.engine
        /\ step <= 5 => Running = {}
        /\ step <= 7 => loops = {} /\ probing = 0
        /\ "updates" \in loops => step > 10
    /\ phase \in {"serving", "closing", "settling"} => open = AllOpen
    /\ phase = "settling" /\ ~ending.time => Working = {}
    /\ phase = "leaving" /\ ~ending.time /\ ~ending.gaveUp => Quiet

(* The tables of what lives.                                                *)
TablesOK ==
    /\ DOMAIN handler = Handlers /\ DOMAIN operation = Operations
    /\ probing \in Nat /\ loops \subseteq Loops
    /\ ending \in [streams : BOOLEAN, requests : BOOLEAN, engine : BOOLEAN, time : BOOLEAN, gaveUp : BOOLEAN]

(* The last question is the one that the process, or else the file, knows.  *)
LastAsked == asked[Len(asked)]
QuestionOK ==
    /\ clock \in Nat /\ asking \in BOOLEAN
    /\ asking => "updates" \in loops
    /\ \/ asked = <<>>
       \/ /\ asked \in Seq(Nat) /\ Len(asked) \in 1..2
          /\ LastAsked <= clock
          /\ "updates" \in loops => update = LastAsked
          /\ ~asking => stateFile = LastAsked

ProcessInv == PhaseOK /\ TablesOK /\ QuestionOK /\ AskedOncePerDay

(* The steps of the start in their order, and the phases that are up.       *)
LEMMA StepsAre ==
  /\ Steps[1] = "store" /\ Steps[2] = "docker" /\ Steps[3] = "listeners" /\ Steps[4] = "webhook"
  /\ Steps[5] = "recover" /\ Steps[6] = "proxy" /\ Steps[7] = "supervisor" /\ Steps[8] = "backups"
  /\ Steps[9] = "transfers" /\ Steps[10] = "updates" /\ Steps[11] = "cloudflare" /\ Steps[12] = "serve"
  BY DEF Steps

(* What the start does at each of its steps, by their number.              *)
LEMMA StepOf ==
  ASSUME NEW n \in 1..12
  PROVE  /\ Steps[n] = "serve" <=> n = 12
         /\ Steps[n] = "updates" <=> n = 10
         /\ Steps[n] = "recover" <=> n = 5
         /\ Steps[n] \in Opens <=> n \in {1, 2, 4}
         /\ Steps[n] \in Loops <=> n \in 7..11
<1>1. \/ n = 1 \/ n = 2 \/ n = 3 \/ n = 4 \/ n = 5 \/ n = 6 \/ n = 7 \/ n = 8 \/ n = 9 \/ n = 10 \/ n = 11 \/ n = 12
  OBVIOUS
<1>2. CASE n \in {1, 2, 3, 4}
  BY <1>2, StepsAre DEF Opens, Loops
<1>3. CASE n \in {5, 6, 7, 8}
  BY <1>3, StepsAre DEF Opens, Loops
<1>4. CASE n \in {9, 10, 11, 12}
  BY <1>4, StepsAre DEF Opens, Loops
<1> QED
  BY <1>1, <1>2, <1>3, <1>4

(* Everything is open once the webhook is.                                  *)
LEMMA AllIsOpen ==
  {AllOpen[i] : i \in DOMAIN AllOpen} = Opens
  BY DEF AllOpen, Opens

(* Each step of the start opens what its number says.                       *)
LEMMA OpenedBy ==
  ASSUME NEW n \in 1..12, NEW s, s = Steps[n]
  PROVE  /\ OpenBy(n + 1) = IF s \in Opens THEN Append(OpenBy(n), s) ELSE OpenBy(n)
         /\ OpenBy(12) = AllOpen /\ OpenBy(1) = <<>>
<1>1. n \in {1, 2, 3, 4} \/ n \in 5..12
  OBVIOUS
<1>2. CASE n = 1
  BY <1>2, StepsAre DEF OpenBy, Opens, AllOpen
<1>3. CASE n = 2
  BY <1>3, StepsAre DEF OpenBy, Opens, AllOpen
<1>4. CASE n = 3
  BY <1>4, StepsAre DEF OpenBy, Opens, AllOpen
<1>5. CASE n = 4
  BY <1>5, StepsAre DEF OpenBy, Opens, AllOpen
<1>6. CASE n \in 5..12
  <2>1. s \notin Opens
    BY <1>6, StepsAre DEF Opens
  <2>2. OpenBy(n) = AllOpen /\ OpenBy(n + 1) = AllOpen
    BY <1>6 DEF OpenBy
  <2> QED
    BY <2>1, <2>2 DEF OpenBy
<1> QED
  BY <1>1, <1>2, <1>3, <1>4, <1>5, <1>6

(* A step of the start.                                                     *)
LEMMA StartStepPhase ==
  ASSUME PhaseOK, TablesOK, StartStep
  PROVE  PhaseOK'
<1>0. PICK s : s = Steps[step]
  OBVIOUS
<1>1. /\ phase = "starting" /\ step \in 1..12 /\ open = OpenBy(step) /\ Working = {} /\ ~ending.engine
      /\ step <= 5 => Running = {}
      /\ step <= 7 => loops = {} /\ probing = 0
      /\ "updates" \in loops => step > 10
  BY DEF StartStep, PhaseOK
<1>2. /\ open' = IF s \in Opens THEN Append(open, s) ELSE open
      /\ loops' = IF s \in Loops THEN loops \cup {s} ELSE loops
      /\ IF s = "serve" THEN phase' = "serving" /\ UNCHANGED step ELSE step' = step + 1 /\ UNCHANGED phase
      /\ UNCHANGED operation \/ s = "recover"
      /\ UNCHANGED <<handler, probing, ending>>
  BY <1>0 DEF StartStep
<1>3. open' = OpenBy(step + 1) /\ Working' = {} /\ OpenBy(12) = AllOpen
  BY <1>0, <1>1, <1>2, OpenedBy DEF Working
<1>4. CASE s = "serve"
  <2>1. step = 12
    BY <1>0, <1>1, <1>4, StepOf
  <2>3. s \notin Opens
    BY <1>4 DEF Opens
  <2>2. open' = open
    BY <1>2, <2>3
  <2> QED
    BY <1>1, <1>2, <1>3, <1>4, <2>1, <2>2 DEF PhaseOK
<1>5. CASE s # "serve"
  <2>1. step' = step + 1 /\ phase' = "starting" /\ step \in 1..11
    BY <1>0, <1>1, <1>2, <1>5, StepOf
  <2>2. step' <= 5 => Running' = {}
    <3>1. step # 5 => UNCHANGED operation
      BY <1>0, <1>1, <1>2, StepOf
    <3> QED
      BY <1>1, <2>1, <3>1 DEF Running
  <2>3. step' <= 7 => loops' = {} /\ probing' = 0
    <3>1. step \in 1..6 => s \notin Loops
      BY <1>0, StepOf
    <3> QED
      BY <1>1, <1>2, <2>1, <3>1
  <2>4. "updates" \in loops' => step' > 10
    <3>1. s = "updates" => step = 10
      BY <1>0, <1>1, StepOf
    <3> QED
      BY <1>1, <1>2, <2>1, <3>1
  <2>5. step' \in 1..12 /\ ~ending'.engine
    BY <1>1, <1>2, <2>1
  <2>6. open' = OpenBy(step')
    BY <1>3, <2>1
  <2> QED
    BY <1>3, <2>1, <2>2, <2>3, <2>4, <2>5, <2>6 DEF PhaseOK
<1> QED
  BY <1>4, <1>5

(* The process is gone, and everything with it.                             *)
LEMMA GonePhase ==
  ASSUME Gone
  PROVE  PhaseOK' /\ Quiet' /\ asking' = FALSE
  BY DEF Gone, PhaseOK, Quiet, Working, Running, NoOperation

(* Every step keeps the phases in order.                                    *)
LEMMA PhaseKept ==
  ASSUME PhaseOK, TablesOK, [ProcessNext]_processVars
  PROVE  PhaseOK'
<1>1. CASE Begin
  <2>1. OpenBy(1) = <<>> /\ ~NothingEnds.engine
    BY DEF OpenBy, NothingEnds
  <2>2. /\ phase = "down" /\ phase' = "starting" /\ step' = 1 /\ ending' = NothingEnds
        /\ UNCHANGED <<open, handler, operation, loops, probing>>
    BY <1>1 DEF Begin
  <2>3. Working' = Working /\ Running' = Running
    BY <2>2 DEF Working, Running
  <2> QED
    BY <2>1, <2>2, <2>3 DEF PhaseOK, Quiet
<1>2. CASE StartStep
  BY <1>2, StartStepPhase
<1>3. CASE StartFails
  <2>1. /\ phase = "starting" /\ phase' = "leaving" /\ Steps[step] \in {"store", "docker", "listeners", "webhook"}
        /\ UNCHANGED <<step, open, handler, operation, loops, probing, ending>>
    BY <1>3 DEF StartFails, Fatal
  <2>2. step \in 1..12 /\ step <= 5
    BY <2>1, StepsAre DEF PhaseOK
  <2> QED
    BY <2>1, <2>2 DEF PhaseOK, Quiet, Working, Running, TablesOK
<1>15. CASE GivesUp
  BY <1>15 DEF GivesUp, PhaseOK, TablesOK
<1>4. CASE \E h \in Handlers : Respond(h)
  <2>1. /\ Working' \subseteq Working /\ Running' = Running
        /\ UNCHANGED <<phase, step, open, loops, probing, ending>> /\ Working # {}
    BY <1>4 DEF Respond, Working, Running, TablesOK
  <2> QED
    BY <2>1 DEF PhaseOK, Quiet
<1>5. CASE \E h \in Handlers : \E kind \in {"short", "long", "stream"} : Accept(h, kind)
  <2>1. Running' = Running /\ UNCHANGED <<phase, step, open, loops, probing, ending>> /\ phase \in {"serving", "closing"}
    BY <1>5 DEF Accept, Running
  <2> QED
    BY <2>1 DEF PhaseOK, Quiet
<1>6. CASE \E h \in Handlers, o \in Operations : LaunchDeploy(h, o)
  <2>1. /\ Working' = Working /\ Working # {} /\ Up
        /\ UNCHANGED <<phase, step, open, loops, probing, ending>>
    BY <1>6 DEF LaunchDeploy, Working
  <2> QED
    BY <2>1 DEF PhaseOK, Quiet, Up
<1>7. CASE \E o \in Operations : OperationEnds(o) \/ AskHostname(o)
  <2>1. /\ Working' = Working /\ Running # {} /\ UNCHANGED <<phase, step, open, loops, probing, ending>>
    BY <1>7 DEF OperationEnds, AskHostname, Working, Running, NoOperation, TablesOK
  <2> QED
    BY <2>1 DEF PhaseOK, Quiet
<1>8. CASE Probe
  <2>1. /\ Working' = Working /\ Running' = Running /\ loops # {}
        /\ UNCHANGED <<phase, step, open, loops, ending>>
    BY <1>8 DEF Probe, Working, Running
  <2> QED
    BY <2>1 DEF PhaseOK, Quiet
<1>9. CASE ProbeAnswers
  <2>1. /\ Working' = Working /\ Running' = Running /\ probing > 0
        /\ UNCHANGED <<phase, step, open, loops, ending>>
    BY <1>9 DEF ProbeAnswers, Working, Running
  <2> QED
    BY <2>1 DEF PhaseOK, Quiet
<1>10. CASE \E l \in Loops : LoopEnds(l)
  <2>1. /\ Working' = Working /\ Running' = Running /\ loops' \subseteq loops /\ loops # {} /\ ending.engine
        /\ UNCHANGED <<phase, step, open, probing, ending>>
    BY <1>10 DEF LoopEnds, Working, Running
  <2> QED
    BY <2>1 DEF PhaseOK, Quiet
<1>11. CASE Signal \/ StopAccepting \/ HandlersDone \/ EngineDone \/ TimeOut
  <2>1. /\ Working' = Working /\ Running' = Running /\ UNCHANGED <<open, loops, probing, step>>
    BY <1>11 DEF Signal, StopAccepting, HandlersDone, EngineDone, TimeOut, Working, Running
  <2>2. CASE Signal \/ StopAccepting
    BY <2>1, <2>2 DEF Signal, StopAccepting, PhaseOK, TablesOK
  <2>3. CASE HandlersDone
    BY <2>1, <2>3 DEF HandlersDone, PhaseOK, TablesOK
  <2>4. CASE EngineDone
    BY <2>1, <2>4 DEF EngineDone, PhaseOK, Quiet, Settled
  <2>5. CASE TimeOut
    BY <2>1, <2>5 DEF TimeOut, PhaseOK, TablesOK
  <2> QED
    BY <1>11, <2>2, <2>3, <2>4, <2>5
<1>12. CASE Leave
  <2>1. CASE Gone
    BY <2>1, GonePhase
  <2>2. CASE /\ phase = "leaving"
             /\ UNCHANGED <<phase, step, handler, operation, loops, probing, ending>>
    BY <2>2 DEF PhaseOK, Quiet, Working, Running
  <2> QED
    BY <1>12, <2>1, <2>2 DEF Leave
<1>13. CASE Killed
  BY <1>13, GonePhase DEF Killed
<1>14. CASE Ask \/ Answered \/ Pass \/ SetBack \/ UNCHANGED processVars
  <2>1. UNCHANGED <<phase, step, open, handler, operation, loops, probing, ending>>
    BY <1>14 DEF Ask, Answered, Pass, SetBack, processVars
  <2> QED
    BY <2>1 DEF PhaseOK, Quiet, Working, Running
<1> QED
  BY <1>1, <1>2, <1>3, <1>4, <1>5, <1>6, <1>7, <1>8, <1>9, <1>10, <1>11, <1>12, <1>13, <1>14, <1>15 DEF ProcessNext

(* Every step keeps the tables.                                             *)
LEMMA TablesKept ==
  ASSUME PhaseOK, TablesOK, [ProcessNext]_processVars
  PROVE  TablesOK'
<1>1. DOMAIN handler' = Handlers /\ DOMAIN operation' = Operations
  BY DEF TablesOK, ProcessNext, processVars, Begin, StartStep, StartFails, GivesUp, Respond, Accept, LaunchDeploy, OperationEnds,
         AskHostname, Probe, ProbeAnswers, LoopEnds, Ask, Answered, Signal, StopAccepting, HandlersDone, EngineDone,
         TimeOut, Leave, Killed, Gone, Pass, SetBack
<1>2. probing' \in Nat
  <2>1. \/ probing' = probing \/ probing' = 0 \/ probing' = probing + 1
        \/ probing > 0 /\ probing' = probing - 1
    <3>1. CASE Probe \/ ProbeAnswers
      BY <3>1 DEF Probe, ProbeAnswers
    <3>2. CASE Leave \/ Killed
      BY <3>2 DEF Leave, Killed, Gone
    <3>3. CASE UNCHANGED probing
      BY <3>3
    <3> QED
      BY <3>1, <3>2, <3>3
      DEF ProcessNext, processVars, Begin, StartStep, StartFails, GivesUp, Respond, Accept, LaunchDeploy, OperationEnds,
          AskHostname, LoopEnds, Ask, Answered, Signal, StopAccepting, HandlersDone, EngineDone, TimeOut, Pass, SetBack
  <2>2. probing \in Nat
    BY DEF TablesOK
  <2> QED
    BY <2>1, <2>2
<1>3. loops' \subseteq Loops
  BY DEF TablesOK, ProcessNext, processVars, Begin, StartStep, StartFails, GivesUp, Respond, Accept, LaunchDeploy, OperationEnds,
         AskHostname, Probe, ProbeAnswers, LoopEnds, Ask, Answered, Signal, StopAccepting, HandlersDone, EngineDone,
         TimeOut, Leave, Killed, Gone, Pass, SetBack
<1>4. ending' \in [streams : BOOLEAN, requests : BOOLEAN, engine : BOOLEAN, time : BOOLEAN, gaveUp : BOOLEAN]
  <2>1. ending \in [streams : BOOLEAN, requests : BOOLEAN, engine : BOOLEAN, time : BOOLEAN, gaveUp : BOOLEAN]
    BY DEF TablesOK
  <2>4. NothingEnds \in [streams : BOOLEAN, requests : BOOLEAN, engine : BOOLEAN, time : BOOLEAN, gaveUp : BOOLEAN]
    BY DEF NothingEnds
  <2>2. CASE ending' = ending \/ ending' = NothingEnds
    BY <2>1, <2>2, <2>4
  <2>3. CASE \/ ending' = [ending EXCEPT !.streams = TRUE] \/ ending' = [ending EXCEPT !.requests = TRUE]
             \/ ending' = [ending EXCEPT !.engine = TRUE] \/ ending' = [ending EXCEPT !.time = TRUE]
             \/ ending' = [ending EXCEPT !.gaveUp = TRUE]
    BY <2>1, <2>3
  <2> QED
    BY <2>2, <2>3
    DEF ProcessNext, processVars, Begin, StartStep, StartFails, GivesUp, Respond, Accept, LaunchDeploy, OperationEnds,
        AskHostname, Probe, ProbeAnswers, LoopEnds, Ask, Answered, Signal, StopAccepting, HandlersDone, EngineDone,
        TimeOut, Leave, Killed, Gone, Pass, SetBack
<1> QED
  BY <1>1, <1>2, <1>3, <1>4 DEF TablesOK

(* Nothing is asked, and nothing forgotten of what was.                     *)
LEMMA QuestionStays ==
  ASSUME QuestionOK, AskedOncePerDay, UNCHANGED <<asking, stateFile, asked>>, clock' \in Nat, clock <= clock',
         asking => "updates" \in loops', "updates" \in loops' => "updates" \in loops /\ update' = update
  PROVE  QuestionOK' /\ AskedOncePerDay'
<1>1. clock \in Nat /\ (asked # <<>> => LastAsked \in Nat)
  BY DEF QuestionOK, LastAsked
<1>2. QuestionOK'
  BY <1>1 DEF QuestionOK, LastAsked
<1> QED
  BY <1>2 DEF AskedOncePerDay

(* The agent asks: a day after the last question that it knows of.          *)
LEMMA AskKept ==
  ASSUME QuestionOK, Ask
  PROVE  QuestionOK' /\ AskedOncePerDay'
<1>1. /\ "updates" \in loops /\ ~asking /\ Due /\ update' = clock /\ asking' = TRUE
      /\ asked' = IF asked = <<>> THEN <<clock>> ELSE <<LastAsked, clock>>
      /\ UNCHANGED <<loops, clock, stateFile>> /\ clock \in Nat
  BY DEF Ask, QuestionOK, LastAsked
<1>2. CASE asked = <<>>
  <2>1. asked' = <<clock>>
    BY <1>1, <1>2
  <2>2. asked' \in Seq(Nat) /\ Len(asked') = 1 /\ LastAsked' = clock
    BY <1>1, <2>1 DEF LastAsked
  <2> QED
    BY <1>1, <2>2 DEF QuestionOK, AskedOncePerDay
<1>3. CASE asked # <<>>
  <2>1. LastAsked \in Nat /\ LastAsked <= clock /\ update = LastAsked
    BY <1>1, <1>3 DEF QuestionOK, LastAsked
  <2>2. PICK l : l = LastAsked
    OBVIOUS
  <2>3. asked' = <<l, clock>> /\ l \in Nat /\ clock >= l + Day
    BY <1>1, <1>3, <2>1, <2>2 DEF Due, Never
  <2>4. asked' \in Seq(Nat) /\ Len(asked') = 2 /\ LastAsked' = clock /\ asked'[1] = l /\ asked'[2] = clock
    BY <1>1, <2>3 DEF LastAsked
  <2> QED
    BY <1>1, <2>3, <2>4 DEF QuestionOK, AskedOncePerDay
<1> QED
  BY <1>2, <1>3

(* Every step keeps what is known of the last question.                     *)
LEMMA QuestionKept ==
  ASSUME ProcessInv, [ProcessNext]_processVars
  PROVE  QuestionOK' /\ AskedOncePerDay'
<1>1. QuestionOK /\ PhaseOK /\ AskedOncePerDay /\ clock \in Nat
  BY DEF ProcessInv, QuestionOK
<1>2. CASE Ask
  BY <1>1, <1>2, AskKept
<1>3. CASE Answered
  <2>1. asking /\ asking' = FALSE /\ stateFile' = update /\ UNCHANGED <<loops, clock, update, asked>>
    BY <1>3 DEF Answered
  <2>2. asked # <<>> => LastAsked = update
    BY <1>1, <2>1 DEF QuestionOK
  <2>3. LastAsked' = LastAsked
    BY <2>1 DEF LastAsked
  <2>4. QuestionOK'
    BY <1>1, <2>1, <2>2, <2>3 DEF QuestionOK
  <2> QED
    BY <1>1, <2>1, <2>4 DEF AskedOncePerDay
<1>4. CASE StartStep
  <2>1. UNCHANGED <<clock, asking, stateFile, asked>> /\ phase = "starting"
    BY <1>4 DEF StartStep
  <2>2. /\ Steps[step] = "updates" => loops' = loops \cup {"updates"} /\ update' = stateFile
        /\ Steps[step] # "updates" => ("updates" \in loops' => "updates" \in loops) /\ update' = update
        /\ loops \subseteq loops'
    BY <1>4 DEF StartStep, LoadUpdateState, Loops
  <2>3. CASE Steps[step] # "updates"
    BY <1>1, <2>1, <2>2, <2>3, QuestionStays DEF QuestionOK
  <2>4. CASE Steps[step] = "updates"
    <3>1. step = 10
      BY <1>1, <2>1, <2>4, StepsAre DEF PhaseOK
    <3>2. ~asking
      BY <1>1, <2>1, <3>1 DEF PhaseOK, QuestionOK
    <3> QED
      BY <1>1, <2>1, <2>2, <2>4, <3>2 DEF QuestionOK, LastAsked, AskedOncePerDay
  <2> QED
    BY <2>3, <2>4
<1>5. CASE \E l \in Loops : LoopEnds(l)
  <2>1. UNCHANGED <<clock, asking, stateFile, asked, update>> /\ loops' \subseteq loops
    BY <1>5 DEF LoopEnds
  <2>2. asking => "updates" \in loops'
    BY <1>1, <1>5 DEF LoopEnds, QuestionOK
  <2> QED
    BY <1>1, <2>1, <2>2, QuestionStays
<1>6. CASE Gone
  <2>1. /\ loops' = {} /\ asking' = FALSE /\ asked' = IF asking THEN <<>> ELSE asked
        /\ UNCHANGED <<clock, stateFile>>
    BY <1>6 DEF Gone
  <2>4. asking' \in BOOLEAN /\ ~asking'
    BY <2>1
  <2>2. CASE asked' = <<>>
    BY <1>1, <2>1, <2>2, <2>4 DEF QuestionOK, AskedOncePerDay
  <2>3. CASE asked' = asked /\ ~asking
    <3>1. LastAsked' = LastAsked
      BY <2>3 DEF LastAsked
    <3> QED
      BY <1>1, <2>1, <2>3, <3>1 DEF QuestionOK, AskedOncePerDay
  <2> QED
    BY <2>1, <2>2, <2>3
<1>7. CASE SetBack
  <2>1. clock' = 0 /\ asked' = <<>> /\ UNCHANGED <<loops, asking>>
    BY <1>7 DEF SetBack
  <2> QED
    BY <1>1, <2>1 DEF QuestionOK, AskedOncePerDay
<1>8. CASE Pass
  <2>1. clock' = clock + 1 /\ UNCHANGED <<loops, asking, asked, stateFile, update>>
    BY <1>8 DEF Pass
  <2> QED
    BY <1>1, <2>1, QuestionStays DEF QuestionOK
<1>9. CASE UNCHANGED <<loops, update, clock, asking, stateFile, asked>>
  BY <1>1, <1>9, QuestionStays DEF QuestionOK
<1> QED
  BY <1>2, <1>3, <1>4, <1>5, <1>6, <1>7, <1>8, <1>9
  DEF ProcessNext, processVars, Begin, StartFails, GivesUp, Respond, Accept, LaunchDeploy, OperationEnds, AskHostname, Probe,
      ProbeAnswers, Signal, StopAccepting, HandlersDone, EngineDone, TimeOut, Leave, Killed

(* The process before it ever ran.                                          *)
LEMMA ProcessInitInv ==
  ASSUME ProcessInit
  PROVE  ProcessInv
<1>1. PhaseOK /\ TablesOK
  BY DEF ProcessInit, PhaseOK, TablesOK, Quiet, Working, Running, NothingEnds, NoOperation, Loops
<1>2. QuestionOK /\ AskedOncePerDay
  <2>1. clock = 0 /\ asking = FALSE /\ asked = <<>> /\ loops = {}
    BY DEF ProcessInit
  <2>2. asking \in BOOLEAN /\ ~asking
    BY <2>1
  <2> QED
    BY <2>1, <2>2 DEF QuestionOK, AskedOncePerDay
<1> QED
  BY <1>1, <1>2 DEF ProcessInv

(* The order of a process's life, whatever fails, is killed or runs on      *)
(* beside the end: what is used is open, unless the shutdown ran out of     *)
(* time or the process gave up without one, and what was asked today is not *)
(* asked again (run, checkForUpdate).                                       *)
THEOREM ProcessIsOrdered == ProcessSpec => []ProcessOrder
<1>1. ProcessInit => ProcessInv
  BY ProcessInitInv
<1>2. ProcessInv /\ [ProcessNext]_processVars => ProcessInv'
  BY PhaseKept, TablesKept, QuestionKept DEF ProcessInv
<1>3. ProcessInv => ProcessOrder
  <2> SUFFICES ASSUME ProcessInv, Up, ~ending.time, ~ending.gaveUp, ~Quiet PROVE {open[i] : i \in DOMAIN open} = Opens
    BY DEF ProcessInv, ProcessOrder, ClosedLast, Quiet
  <2>1. phase \in {"starting", "serving", "closing", "settling"}
    BY DEF ProcessInv, PhaseOK, Up
  <2>2. open = AllOpen
    <3>1. CASE phase = "starting"
      <4>1. step \in 1..12 /\ open = OpenBy(step) /\ ~(step <= 5)
        BY <3>1 DEF ProcessInv, PhaseOK, Quiet, TablesOK
      <4> QED
        BY <4>1 DEF OpenBy
    <3> QED
      BY <2>1, <3>1 DEF ProcessInv, PhaseOK
  <2> QED
    BY <2>2, AllIsOpen
<1> QED
  BY <1>1, <1>2, <1>3, PTL DEF ProcessSpec

-----------------------------------------------------------------------------
(* The versions.                                                            *)

Refs == Digests \cup Registry \cup Local
Record == [source : {"folder", "image"}, ref : Refs, status : {"running", "active", "superseded", "failed"}]
Targets == [to : {"folder", "image"}, ref : Refs]
InDeploy == {"building", "starting", "importing", "checking", "healthy", "commit"}
Ops == [pc : InDeploy \cup {"idle", "note", "prune", "sweep", "delete"},
        kind : {"", "deploy", "redeploy", "rollback"}, ref : Refs \cup {""}, present : BOOLEAN]

VersionTyped ==
    /\ records \in Seq(Record)
    /\ \A i \in DOMAIN records : records[i].source = "folder" => records[i].ref \in Digests
    /\ route \in Targets \cup {Nowhere} /\ override \in Targets \cup {Off}
    /\ op \in Ops /\ (op.pc \in {"note", "prune"} => op.ref \in Digests)
    /\ notes \subseteq Digests /\ uploads \subseteq Digests

(* One deployment is active, the superseded ones are older, and there is a  *)
(* newest among them.                                                       *)
History ==
    /\ \A i, j \in ById("active") : i = j
    /\ \A i \in ById("active"), j \in ById("superseded") : j < i
    /\ HasRecord("superseded") => HasRecord("active")
    /\ HasRecord("superseded") => \E i \in ById("superseded") : \A j \in ById("superseded") : j <= i

(* A folder that has its name was extracted to its end and checked.         *)
FoldersWhole == folders \subseteq complete \ NoIndex

(* The deployment under way is the last record.                             *)
Rolling ==
    /\ op.pc \in InDeploy \cup {"sweep"} => records # <<>> /\ op.ref = records[Mine].ref /\ op.kind # ""
    /\ op.pc \in InDeploy => records[Mine].status = "running"
    /\ op.pc = "sweep" => records[Mine].status = "active"
    /\ op.pc \notin InDeploy \cup {"sweep"} => op.kind = ""
    /\ op.pc \in {"importing", "checking"} => IsFolder

(* What it has done so far.                                                 *)
SoFar ==
    /\ op.pc \in {"starting", "importing"} /\ IsFolder => op.ref \notin folders
    /\ op.pc = "checking" => op.ref \in complete
    /\ op.pc \in {"healthy", "commit"} /\ IsFolder => op.ref \in folders
    /\ op.pc \in {"starting", "healthy", "commit"} /\ ~IsFolder => op.ref \in images
    /\ op.pc = "commit" => route = Serves(records[Mine]) /\ override = route
    /\ op.pc = "sweep" => route = Serves(records[Mine])

(* What the rollout says is served can be.                                  *)
Overrides ==
    /\ override # Off => op.pc \in {"healthy", "commit"}
    /\ override # Off /\ op.pc = "healthy" => HasRecord("active") /\ override = Serves(ActiveRecord)

RouteThere == route.to = "folder" /\ ~halfGone /\ HasRecord("active") => route.ref \in folders

VersionInv == VersionTyped /\ History /\ FoldersWhole /\ Rolling /\ SoFar /\ Overrides /\ RouteThere /\ RollbackReady

Former == records[Newest(ById("superseded"))]

(* The newest of some deployments, where there is one.                      *)
LEMMA NewestIs ==
  ASSUME NEW ids \in SUBSET Nat, NEW i \in ids, \A j \in ids : j <= i
  PROVE  Newest(ids) = i
<1>1. \A k \in ids : (\A j \in ids : j <= k) => k = i
  OBVIOUS
<1> QED
  BY <1>1 DEF Newest

(* The records of a status are among the records.                           *)
LEMMA IdsAre ==
  ASSUME records \in Seq(Record)
  PROVE  /\ Len(records) \in Nat /\ DOMAIN records = 1..Len(records)
         /\ \A status : ById(status) \subseteq 1..Len(records) /\ ById(status) \in SUBSET Nat
         /\ \A status : \A i \in ById(status) : records[i] \in Record /\ records[i].status = status
<1>1. Len(records) \in Nat /\ DOMAIN records = 1..Len(records) /\ \A i \in 1..Len(records) : records[i] \in Record
  BY LenProperties, ElementOfSeq
<1> QED
  BY <1>1 DEF ById

(* What is active and what a rollback goes back to.                         *)
LEMMA ActiveAndFormer ==
  ASSUME VersionTyped, History
  PROVE  /\ HasRecord("active") => \E a \in ById("active") : ById("active") = {a} /\ ActiveRecord = records[a]
         /\ HasRecord("superseded") => \E f \in ById("superseded") :
                /\ Newest(ById("superseded")) = f /\ Former = records[f]
                /\ \A j \in ById("superseded") : j <= f
<1>1. records \in Seq(Record)
  BY DEF VersionTyped
<1>2. \A status : ById(status) \in SUBSET Nat
  BY <1>1, IdsAre
<1>3. ASSUME HasRecord("active") PROVE \E a \in ById("active") : ById("active") = {a} /\ ActiveRecord = records[a]
  <2>1. PICK a : a \in ById("active")
    BY <1>3 DEF HasRecord
  <2>2. ById("active") = {a}
    BY <2>1 DEF History
  <2>3. \A j \in ById("active") : j <= a
    BY <1>2, <2>1, <2>2
  <2>4. Newest(ById("active")) = a
    BY <1>2, <2>1, <2>3, NewestIs
  <2> QED
    BY <2>1, <2>2, <2>4 DEF ActiveRecord
<1>4. ASSUME HasRecord("superseded")
      PROVE  \E f \in ById("superseded") :
                /\ Newest(ById("superseded")) = f /\ Former = records[f]
                /\ \A j \in ById("superseded") : j <= f
  <2>1. PICK f \in ById("superseded") : \A j \in ById("superseded") : j <= f
    BY <1>4 DEF History
  <2>2. Newest(ById("superseded")) = f
    BY <1>2, <2>1, NewestIs
  <2> QED
    BY <2>1, <2>2 DEF Former
<1> QED
  BY <1>3, <1>4

(* Neither the active deployment nor one before it is touched.              *)
SameHistory ==
    /\ records' \in Seq(Record)
    /\ ById("active")' = ById("active") /\ ById("superseded")' = ById("superseded")
    /\ \A i \in ById("active") \cup ById("superseded") : records'[i] = records[i]

(* Then what there is to serve stays what it is.                            *)
LEMMA HistoryStays ==
  ASSUME VersionTyped, History, SameHistory
  PROVE  /\ History'
         /\ HasRecord("active")' <=> HasRecord("active")
         /\ HasRecord("superseded")' <=> HasRecord("superseded")
         /\ HasRecord("active") => ActiveRecord' = ActiveRecord
         /\ HasRecord("superseded") => Former' = Former
<1>1. History'
  BY DEF History, SameHistory, HasRecord
<1>2. /\ HasRecord("active")' <=> HasRecord("active")
      /\ HasRecord("superseded")' <=> HasRecord("superseded")
  BY DEF SameHistory, HasRecord
<1>3. ASSUME HasRecord("active") PROVE ActiveRecord' = ActiveRecord
  <2>1. PICK a \in ById("active") : ById("active") = {a} /\ ActiveRecord = records[a]
    BY <1>3, ActiveAndFormer
  <2>2. a \in Nat
    BY IdsAre DEF VersionTyped
  <2>3. Newest({a}) = a
    BY <2>2, NewestIs
  <2>4. ActiveRecord' = records'[a]
    BY <2>1, <2>3 DEF SameHistory, ActiveRecord
  <2> QED
    BY <2>1, <2>4 DEF SameHistory
<1>4. ASSUME HasRecord("superseded") PROVE Former' = Former
  <2>1. PICK f \in ById("superseded") : Newest(ById("superseded")) = f /\ Former = records[f]
    BY <1>4, ActiveAndFormer
  <2>2. Former' = records'[f]
    BY <2>1 DEF SameHistory, Former
  <2> QED
    BY <2>1, <2>2 DEF SameHistory
<1> QED
  BY <1>1, <1>2, <1>3, <1>4

(* What is served, what a rollback would serve, and what a step leaves.     *)
Needed(r) == (HasRecord("active") /\ r = ActiveRecord) \/ (HasRecord("superseded") /\ r = Former)
StillThere(r) == r.ref \in IF r.source = "folder" THEN folders' ELSE images'

(* And what is there stays there, unless it is removed.                     *)
LEMMA ReadyKept ==
  ASSUME VersionTyped, History, SameHistory, RollbackReady, halfGone => halfGone',
         \A r : Needed(r) /\ IsThere(r) => StillThere(r)
  PROVE  RollbackReady'
<1> SUFFICES ASSUME ~halfGone' PROVE /\ HasRecord("active")' => IsThere(ActiveRecord)'
                                     /\ HasRecord("superseded")' => IsThere(Former)'
  BY DEF RollbackReady, Former
<1>1. /\ HasRecord("active") => IsThere(ActiveRecord)
      /\ HasRecord("superseded") => IsThere(Former)
  BY DEF RollbackReady, Former
<1>2. ASSUME HasRecord("active") PROVE IsThere(ActiveRecord)'
  <2>1. PICK r : r = ActiveRecord
    OBVIOUS
  <2>2. IsThere(r)'
    BY <1>1, <1>2, <2>1 DEF IsThere, Needed, StillThere
  <2> QED
    BY <1>2, <2>1, <2>2, HistoryStays
<1>3. ASSUME HasRecord("superseded") PROVE IsThere(Former)'
  <2>1. PICK r : r = Former
    OBVIOUS
  <2>2. IsThere(r)'
    BY <1>1, <1>3, <2>1 DEF IsThere, Needed, StillThere
  <2> QED
    BY <1>3, <2>1, <2>2, HistoryStays
<1> QED
  BY <1>2, <1>3, HistoryStays

(* So it does where nothing is.                                             *)
LEMMA ReadyStays ==
  ASSUME VersionTyped, History, SameHistory, RollbackReady, halfGone => halfGone',
         folders \subseteq folders', images \subseteq images'
  PROVE  RollbackReady'
<1>1. \A r : IsThere(r) => StillThere(r)
  BY DEF IsThere, StillThere
<1> QED
  BY <1>1, ReadyKept

(* A step that records nothing.                                             *)
LEMMA NothingRecorded ==
  ASSUME VersionTyped, History, UNCHANGED records
  PROVE  /\ SameHistory /\ Mine' = Mine /\ records'[Mine'] = records[Mine] /\ (IsFolder' <=> IsFolder)
         /\ HasRecord("active")' <=> HasRecord("active")
         /\ HasRecord("active") => ActiveRecord' = ActiveRecord
<1>1. SameHistory
  BY DEF SameHistory, ById, VersionTyped
<1>2. Mine' = Mine /\ records'[Mine'] = records[Mine] /\ (IsFolder' <=> IsFolder)
  BY DEF Mine, IsFolder
<1> QED
  BY <1>1, <1>2, HistoryStays

(* A step that neither records nor removes what is kept.                    *)
LEMMA NothingRemoved ==
  ASSUME VersionInv, UNCHANGED <<records, halfGone>>, images \subseteq images', folders \subseteq folders',
         route' \in Targets \cup {Nowhere}, override' \in Targets \cup {Off},
         op' \in Ops, op'.pc \in {"note", "prune"} => op'.ref \in Digests,
         notes' \subseteq Digests, uploads' \subseteq Digests,
         FoldersWhole', Rolling', SoFar', Overrides', RouteThere'
  PROVE  VersionInv'
<1>1. VersionTyped /\ History /\ RollbackReady
  BY DEF VersionInv
<1>2. VersionTyped'
  BY <1>1 DEF VersionTyped
<1>3. History'
  BY <1>1, NothingRecorded, HistoryStays
<1>4. RollbackReady'
  BY <1>1, NothingRecorded, ReadyStays
<1> QED
  BY <1>2, <1>3, <1>4 DEF VersionInv

(* A step of an operation that neither records, serves nor removes.         *)
LEMMA OnlyTheOperation ==
  ASSUME VersionInv, UNCHANGED <<records, folders, complete, halfGone, route, override>>, images \subseteq images',
         op' \in Ops, op'.pc \in {"note", "prune"} => op'.ref \in Digests,
         notes' \subseteq Digests, uploads' \subseteq Digests, Rolling', SoFar', Overrides'
  PROVE  VersionInv'
<1>1. VersionTyped /\ History /\ FoldersWhole /\ RouteThere
  BY DEF VersionInv
<1>2. FoldersWhole'
  BY <1>1 DEF FoldersWhole
<1>3. RouteThere'
  BY <1>1, NothingRecorded DEF RouteThere
<1>4. route' \in Targets \cup {Nowhere} /\ override' \in Targets \cup {Off}
  BY <1>1 DEF VersionTyped
<1> QED
  BY <1>2, <1>3, <1>4, NothingRemoved

(* Images arrive and grow old without the lock.                             *)
LEMMA ImagesArrive ==
  ASSUME VersionInv, (\E l \in Local : SenderGone(l) \/ \E slow \in BOOLEAN : LoadImage(l, slow)) \/ UNCHANGED versionVars
  PROVE  VersionInv'
<1>1. /\ UNCHANGED <<records, folders, complete, uploads, notes, halfGone, route, override, op>>
      /\ images \subseteq images'
  BY DEF SenderGone, LoadImage, versionVars
<1>2. VersionTyped /\ History /\ Rolling /\ SoFar /\ Overrides
  BY DEF VersionInv
<1>3. /\ Mine' = Mine /\ records'[Mine'] = records[Mine] /\ (IsFolder' <=> IsFolder)
      /\ HasRecord("active")' <=> HasRecord("active")
      /\ HasRecord("active") => ActiveRecord' = ActiveRecord
  BY <1>1, <1>2, NothingRecorded
<1>4. Rolling' /\ Overrides'
  BY <1>1, <1>2, <1>3 DEF Rolling, Overrides, Serves
<1>5. SoFar'
  BY <1>1, <1>2, <1>3 DEF SoFar, Serves
<1>6. op' \in Ops /\ (op'.pc \in {"note", "prune"} => op'.ref \in Digests) /\ notes' \subseteq Digests /\ uploads' \subseteq Digests
  BY <1>1, <1>2 DEF VersionTyped
<1> QED
  BY <1>1, <1>4, <1>5, <1>6, OnlyTheOperation

(* Uploads are kept outside of any rollout.                                 *)
LEMMA UploadsAreKept ==
  ASSUME VersionInv, (\E d \in Digests : StoreArchive(d)) \/ StoreNote \/ pruneUploads
  PROVE  VersionInv'
<1>1. /\ UNCHANGED <<records, folders, complete, images, halfGone, route, override>>
      /\ op.pc \in {"idle", "note", "prune"}
      /\ op' \in Ops /\ op'.pc \in {"idle", "note", "prune"} /\ op'.kind = ""
      /\ op'.pc \in {"note", "prune"} => op'.ref \in Digests
  <2>1. op \in Ops /\ (op.pc \in {"note", "prune"} => op.kind = "" /\ op.ref \in Digests)
    BY DEF VersionInv, VersionTyped, Rolling, InDeploy
  <2>2. ASSUME NEW d \in Digests, StoreArchive(d)
        PROVE  op.pc = "idle" /\ op' \in Ops /\ op'.pc = "note" /\ op'.kind = "" /\ op'.ref \in Digests
    <3>1. op = Idle /\ op' = [Idle EXCEPT !.pc = "note", !.ref = d]
      BY <2>2 DEF StoreArchive
    <3> QED
      BY <2>1, <3>1 DEF Idle, Ops, Refs
  <2>3. ASSUME StoreNote PROVE op.pc = "note" /\ op' \in Ops /\ op'.pc = "prune" /\ op'.kind = "" /\ op'.ref \in Digests
    BY <2>1, <2>3 DEF StoreNote, Ops
  <2>4. ASSUME pruneUploads PROVE op.pc = "prune" /\ op' \in Ops /\ op'.pc = "idle" /\ op'.kind = ""
    BY <2>1, <2>4 DEF pruneUploads, Ops, Idle
  <2> QED
    BY <2>2, <2>3, <2>4 DEF StoreArchive, StoreNote, pruneUploads
<1>2. notes' \subseteq Digests /\ uploads' \subseteq Digests
  <2>1. notes \subseteq Digests /\ uploads \subseteq Digests /\ (op.pc \in {"note", "prune"} => op.ref \in Digests)
    BY DEF VersionInv, VersionTyped
  <2> QED
    BY <2>1 DEF StoreArchive, StoreNote, pruneUploads
<1>3. Rolling' /\ SoFar' /\ Overrides'
  <2>1. override = Off
    BY <1>1 DEF VersionInv, Overrides
  <2> QED
    BY <1>1, <2>1 DEF Rolling, SoFar, Overrides, InDeploy
<1> QED
  BY <1>1, <1>2, <1>3, OnlyTheOperation

(* A deployment is recorded.                                                *)
LEMMA DeploymentBegins ==
  ASSUME VersionInv, NEW source \in {"folder", "image"}, NEW ref \in Refs, source = "folder" => ref \in Digests,
         NEW kind \in {"deploy", "redeploy", "rollback"}, Begins(source, ref, kind)
  PROVE  VersionInv'
<1>1. PICK new : new = [source |-> source, ref |-> ref, status |-> "running"]
  OBVIOUS
<1>2. new \in Record /\ new.source = source /\ new.ref = ref /\ new.status = "running"
  BY <1>1 DEF Record
<1>3. /\ records \in Seq(Record) /\ \A i \in DOMAIN records : records[i].source = "folder" => records[i].ref \in Digests
      /\ VersionTyped /\ History
  BY DEF VersionInv, VersionTyped
<1>4. /\ Len(records) \in Nat /\ DOMAIN records = 1..Len(records)
      /\ \A status : ById(status) \subseteq 1..Len(records)
  BY <1>3, IdsAre
<1>5. records' = Append(records, new)
  BY <1>1 DEF Begins
<1>6. /\ records' \in Seq(Record) /\ Len(records') = Len(records) + 1 /\ records' # <<>>
      /\ \A i \in 1..Len(records) : records'[i] = records[i]
      /\ records'[Len(records) + 1] = new
  BY <1>2, <1>3, <1>5, AppendProperties
<1>7. DOMAIN records' = 1..(Len(records) + 1) /\ Mine' = Len(records) + 1 /\ records'[Mine'] = new
  BY <1>4, <1>6, LenProperties DEF Mine
<1>8. SameHistory
  <2>1. \A i \in DOMAIN records' : i \in DOMAIN records \/ i = Len(records) + 1
    BY <1>4, <1>7
  <2>2. ById("active")' = ById("active") /\ ById("superseded")' = ById("superseded")
    BY <1>2, <1>4, <1>6, <1>7, <2>1 DEF ById
  <2> QED
    BY <1>4, <1>6, <2>2 DEF SameHistory
<1>9. \A i \in DOMAIN records' : records'[i].source = "folder" => records'[i].ref \in Digests
  BY <1>2, <1>3, <1>4, <1>6, <1>7
<1>10. /\ op = Idle /\ op' \in Ops /\ op'.pc = "building" /\ op'.kind = kind /\ op'.ref = ref
       /\ UNCHANGED <<complete, folders, uploads, notes, route, override, halfGone, images>>
  <2>1. op = Idle /\ op' = [Idle EXCEPT !.pc = "building", !.kind = kind, !.ref = ref]
    BY DEF Begins
  <2>2. op'.pc = "building" /\ op'.kind = kind /\ op'.ref = ref /\ op' \in Ops
    BY <2>1 DEF Idle, Ops, InDeploy
  <2> QED
    BY <2>1, <2>2 DEF Begins
<1>11. override = Off
  BY <1>10 DEF VersionInv, Overrides, Idle
<1>12. VersionTyped'
  BY <1>3, <1>6, <1>9, <1>10 DEF VersionTyped
<1>13. History' /\ RollbackReady'
  BY <1>3, <1>8, <1>10, HistoryStays, ReadyStays DEF VersionInv
<1>14. FoldersWhole' /\ RouteThere'
  BY <1>3, <1>8, <1>10, HistoryStays DEF VersionInv, FoldersWhole, RouteThere
<1>15. Rolling'
  BY <1>2, <1>6, <1>7, <1>10 DEF Rolling, InDeploy
<1>16. SoFar'
  BY <1>10 DEF SoFar
<1>17. Overrides'
  BY <1>10, <1>11 DEF Overrides
<1> QED
  BY <1>12, <1>13, <1>14, <1>15, <1>16, <1>17 DEF VersionInv

(* An upload, an image, the active deployment or one of the former ones is  *)
(* deployed.                                                                *)
LEMMA DeploymentsBegin ==
  ASSUME VersionInv,
         \/ \E d \in Digests : DeployStatic(d)
         \/ \E i \in Registry \cup Local : DeployImage(i)
         \/ Redeploy
         \/ \E i \in DOMAIN records : Rollback(i)
  PROVE  VersionInv'
<1>1. ASSUME NEW d \in Digests, DeployStatic(d) PROVE VersionInv'
  BY <1>1, DeploymentBegins DEF DeployStatic, Refs
<1>2. ASSUME NEW i \in Registry \cup Local, DeployImage(i) PROVE VersionInv'
  BY <1>2, DeploymentBegins DEF DeployImage, Refs
<1>3. \A r \in Record : r.source \in {"folder", "image"} /\ r.ref \in Refs
  BY DEF Record
<1>4. VersionTyped /\ History /\ records \in Seq(Record)
      /\ \A i \in DOMAIN records : records[i].source = "folder" => records[i].ref \in Digests
  BY DEF VersionInv, VersionTyped
<1>5. \A i \in DOMAIN records : records[i] \in Record
  BY <1>4, ElementOfSeq, LenProperties
<1>6. \A i \in DOMAIN records : records[i].source \in {"folder", "image"} /\ records[i].ref \in Refs
  BY <1>3, <1>5
<1>7. ASSUME Redeploy PROVE VersionInv'
  <2>1. PICK a \in ById("active") : ActiveRecord = records[a]
    BY <1>4, <1>7, ActiveAndFormer DEF Redeploy
  <2>2. a \in DOMAIN records
    BY <2>1 DEF ById
  <2>3. Begins(records[a].source, records[a].ref, "redeploy")
    BY <1>7, <2>1 DEF Redeploy
  <2> QED
    BY <1>4, <1>6, <2>2, <2>3, DeploymentBegins
<1>8. ASSUME NEW i \in DOMAIN records, Rollback(i) PROVE VersionInv'
  BY <1>4, <1>6, <1>8, DeploymentBegins DEF Rollback
<1> QED
  BY <1>1, <1>2, <1>7, <1>8

(* The steps of a rollout before its route is switched.                     *)
LEMMA RolloutSteps ==
  ASSUME VersionInv, pullImage \/ StartReplicas \/ LookForFolder \/ MakePart \/ ImportPath \/ CheckFolder
  PROVE  VersionInv'
<1>1. VersionTyped /\ History /\ FoldersWhole /\ Rolling /\ SoFar /\ Overrides /\ RouteThere /\ RollbackReady
  BY DEF VersionInv
<1>2. UNCHANGED <<records, halfGone, notes, uploads, route>>
  BY DEF pullImage, StartReplicas, LookForFolder, MakePart, ImportPath, CheckFolder
<1>3. /\ Mine' = Mine /\ records'[Mine'] = records[Mine] /\ (IsFolder' <=> IsFolder)
      /\ HasRecord("active")' <=> HasRecord("active")
      /\ HasRecord("active") => ActiveRecord' = ActiveRecord
  BY <1>1, <1>2, NothingRecorded
<1>4. /\ op \in Ops /\ op.pc \in InDeploy /\ op'.pc \in InDeploy /\ op'.kind = op.kind /\ op'.ref = op.ref /\ op' \in Ops
      /\ op'.pc \in {"importing", "checking"} => IsFolder
      /\ op.pc \notin {"healthy", "commit"} /\ op'.pc # "commit"
      /\ op'.pc = "healthy" => StartReplicas \/ CheckFolder
  <2>1. op \in Ops
    BY <1>1 DEF VersionTyped
  <2>2. ASSUME pullImage
        PROVE  op.pc = "building" /\ op' \in Ops /\ op'.pc = "starting" /\ op'.kind = op.kind /\ op'.ref = op.ref
    BY <2>1, <2>2 DEF pullImage, Ops, InDeploy
  <2>3. ASSUME StartReplicas
        PROVE  op.pc = "starting" /\ op' \in Ops /\ op'.pc = "healthy" /\ op'.kind = op.kind /\ op'.ref = op.ref
    BY <2>1, <2>3 DEF StartReplicas, Ops, InDeploy
  <2>4. ASSUME LookForFolder
        PROVE  /\ op.pc = "building" /\ op' \in Ops /\ op'.pc \in {"checking", "starting"} /\ op'.kind = op.kind
               /\ op'.ref = op.ref /\ IsFolder
    <3>1. PICK there \in BOOLEAN : there <=> op.ref \in folders
      OBVIOUS
    <3>2. op' = [op EXCEPT !.pc = IF op.ref \in folders THEN "checking" ELSE "starting", !.present = there]
      BY <2>4, <3>1 DEF LookForFolder
    <3>3. PICK next \in {"checking", "starting"} : op' = [op EXCEPT !.pc = next, !.present = there]
      BY <3>2
    <3>4. op.pc = "building" /\ IsFolder
      BY <2>4 DEF LookForFolder
    <3>5. op' \in Ops /\ op'.pc = next /\ op'.kind = op.kind /\ op'.ref = op.ref
      BY <2>1, <3>3 DEF Ops, InDeploy
    <3> QED
      BY <3>4, <3>5
  <2>5. ASSUME MakePart
        PROVE  /\ op.pc = "starting" /\ op' \in Ops /\ op'.pc = "importing" /\ op'.kind = op.kind /\ op'.ref = op.ref
               /\ IsFolder
    BY <2>1, <2>5 DEF MakePart, Ops, InDeploy
  <2>6. ASSUME ImportPath
        PROVE  /\ op.pc = "importing" /\ op' \in Ops /\ op'.pc = "checking" /\ op'.kind = op.kind /\ op'.ref = op.ref
               /\ IsFolder
    BY <1>1, <2>1, <2>6 DEF ImportPath, Ops, InDeploy, Rolling
  <2>7. ASSUME CheckFolder
        PROVE  op.pc = "checking" /\ op' \in Ops /\ op'.pc = "healthy" /\ op'.kind = op.kind /\ op'.ref = op.ref
    BY <2>1, <2>7 DEF CheckFolder, Ops, InDeploy
  <2> QED
    BY <2>1, <2>2, <2>3, <2>4, <2>5, <2>6, <2>7 DEF InDeploy
<1>5. Rolling'
  BY <1>1, <1>2, <1>3, <1>4 DEF Rolling, InDeploy
<1>6. override = Off
  BY <1>1, <1>4 DEF Overrides
<1>7. images \subseteq images' /\ folders \subseteq folders'
  BY DEF pullImage, StartReplicas, LookForFolder, MakePart, ImportPath, CheckFolder
<1>8. FoldersWhole'
  <2>1. ASSUME MakePart PROVE FoldersWhole'
    BY <1>1, <2>1 DEF MakePart, FoldersWhole, SoFar
  <2>2. ASSUME CheckFolder PROVE FoldersWhole'
    BY <1>1, <2>2 DEF CheckFolder, FoldersWhole, SoFar
  <2>3. ASSUME ImportPath PROVE FoldersWhole'
    BY <1>1, <2>3 DEF ImportPath, FoldersWhole
  <2>4. ASSUME pullImage \/ StartReplicas \/ LookForFolder PROVE FoldersWhole'
    BY <1>1, <2>4 DEF pullImage, StartReplicas, LookForFolder, FoldersWhole
  <2> QED
    BY <2>1, <2>2, <2>3, <2>4
<1>9. SoFar'
  <2>1. ASSUME op'.pc \in {"starting", "importing"}, IsFolder PROVE op.ref \notin folders'
    <3>1. pullImage \/ LookForFolder \/ MakePart
      BY <2>1 DEF pullImage, StartReplicas, LookForFolder, MakePart, ImportPath, CheckFolder, VersionInv, VersionTyped, Ops
    <3> QED
      BY <1>1, <2>1, <3>1 DEF pullImage, LookForFolder, MakePart, SoFar, VersionTyped, Ops
  <2>2. ASSUME op'.pc = "checking" PROVE op.ref \in complete'
    <3>1. LookForFolder \/ ImportPath
      BY <2>2 DEF pullImage, StartReplicas, LookForFolder, MakePart, ImportPath, CheckFolder, VersionInv, VersionTyped, Ops
    <3> QED
      BY <1>1, <2>2, <3>1 DEF LookForFolder, ImportPath, FoldersWhole, VersionTyped, Ops
  <2>3. ASSUME op'.pc = "healthy", IsFolder PROVE op.ref \in folders'
    BY <1>4, <2>3 DEF StartReplicas, CheckFolder
  <2>4. ASSUME op'.pc \in {"starting", "healthy"}, ~IsFolder PROVE op.ref \in images'
    <3>1. pullImage \/ StartReplicas
      BY <1>1, <1>4, <2>4 DEF pullImage, StartReplicas, LookForFolder, MakePart, ImportPath, CheckFolder, Rolling
    <3> QED
      BY <1>1, <2>4, <3>1 DEF pullImage, StartReplicas, SoFar
  <2> QED
    BY <1>3, <1>4, <2>1, <2>2, <2>3, <2>4 DEF SoFar, InDeploy
<1>10. /\ override' \in Targets \cup {Off} /\ Overrides'
  <2>1. CASE StartReplicas
    <3>1. op'.pc = "healthy" /\ (HasRecord("active") => override' = Serves(ActiveRecord))
          /\ (~HasRecord("active") => override' = Off)
      BY <1>1, <2>1 DEF StartReplicas, VersionTyped, Ops
    <3>2. HasRecord("active") => Serves(ActiveRecord) \in Targets
      <4>1. HasRecord("active") => ActiveRecord \in Record
        BY <1>1, ActiveAndFormer, IdsAre DEF VersionTyped
      <4> QED
        BY <4>1 DEF Serves, Targets, Record
    <3> QED
      BY <1>3, <3>1, <3>2 DEF Overrides, Serves
  <2>2. CASE ~StartReplicas
    <3>1. override' = Off
      BY <1>6, <2>2 DEF pullImage, LookForFolder, MakePart, ImportPath, CheckFolder
    <3> QED
      BY <3>1 DEF Overrides
  <2> QED
    BY <2>1, <2>2
<1>11. RouteThere'
  BY <1>1, <1>2, <1>3, <1>7 DEF RouteThere
<1>12. route' \in Targets \cup {Nowhere} /\ notes' \subseteq Digests /\ uploads' \subseteq Digests
  BY <1>1, <1>2 DEF VersionTyped
<1>13. op'.pc \notin {"note", "prune"}
  BY <1>4 DEF InDeploy
<1> QED
  BY <1>2, <1>4, <1>5, <1>7, <1>8, <1>9, <1>10, <1>11, <1>12, <1>13, NothingRemoved

(* What a deployment serves is a target.                                    *)
LEMMA ServesTarget ==
  ASSUME NEW r \in Record
  PROVE  Serves(r) \in Targets /\ Serves(r) # Off
BY DEF Record, Serves, Targets, Off

(* The record of the deployment under way is one of the records.            *)
LEMMA MineIsThere ==
  ASSUME VersionTyped, records # <<>>
  PROVE  /\ Mine \in DOMAIN records /\ records[Mine] \in Record
         /\ (records[Mine].source = "folder" => records[Mine].ref \in Digests)
         /\ \A i \in DOMAIN records : i <= Mine
<1>1. records \in Seq(Record)
  BY DEF VersionTyped
<1>2. Len(records) \in Nat /\ Len(records) # 0
  BY <1>1, EmptySeq, LenProperties
<1>3. Mine \in DOMAIN records
  BY <1>1, <1>2, LenProperties DEF Mine
<1>4. records[Mine] \in Record
  BY <1>1, <1>2, ElementOfSeq DEF Mine
<1>5. \A i \in DOMAIN records : i <= Mine
  BY <1>1, <1>2, LenProperties DEF Mine
<1> QED
  BY <1>3, <1>4, <1>5 DEF VersionTyped

(* The route is switched once what it names is there.                       *)
LEMMA RouteSwitches ==
  ASSUME VersionInv, SwitchRoute
  PROVE  VersionInv'
<1>1. VersionTyped /\ History /\ FoldersWhole /\ Rolling /\ SoFar /\ Overrides
  BY DEF VersionInv
<1>2. /\ UNCHANGED <<records, halfGone, notes, uploads, images, folders, complete>>
      /\ op.pc = "healthy" /\ op' = [op EXCEPT !.pc = "commit"]
      /\ override' = Serves(records[Mine]) /\ route' = Serves(records[Mine])
  BY DEF SwitchRoute
<1>3. Mine' = Mine /\ records'[Mine'] = records[Mine] /\ (IsFolder' <=> IsFolder)
  BY <1>1, <1>2, NothingRecorded
<1>4. op' \in Ops /\ op'.pc = "commit" /\ op'.kind = op.kind /\ op'.ref = op.ref
  BY <1>1, <1>2 DEF VersionTyped, Ops, InDeploy
<1>5. records # <<>> /\ op.ref = records[Mine].ref /\ records[Mine] \in Record
  BY <1>1, <1>2, MineIsThere DEF Rolling, InDeploy
<1>6. route' \in Targets \cup {Nowhere} /\ override' \in Targets \cup {Off}
  BY <1>2, <1>5, ServesTarget
<1>7. Rolling'
  BY <1>1, <1>2, <1>3, <1>4 DEF Rolling, InDeploy
<1>8. SoFar'
  BY <1>1, <1>2, <1>3, <1>4 DEF SoFar, Serves
<1>9. Overrides' /\ FoldersWhole'
  BY <1>1, <1>2, <1>4 DEF Overrides, FoldersWhole
<1>10. RouteThere'
  BY <1>1, <1>2, <1>5 DEF RouteThere, SoFar, IsFolder, Serves
<1>11. notes' \subseteq Digests /\ uploads' \subseteq Digests
  BY <1>1, <1>2 DEF VersionTyped
<1> QED
  BY <1>2, <1>4, <1>6, <1>7, <1>8, <1>9, <1>10, <1>11, NothingRemoved

(* The supervisor loads what is wanted.                                     *)
LEMMA RouteIsSynced ==
  ASSUME VersionInv, TickSync
  PROVE  VersionInv'
<1>1. VersionTyped /\ History /\ FoldersWhole /\ Rolling /\ SoFar /\ Overrides /\ RollbackReady
  BY DEF VersionInv
<1>2. /\ UNCHANGED <<records, halfGone, notes, uploads, images, folders, complete, op, override>>
      /\ route # Wanted /\ route' = Wanted
  BY DEF TickSync
<1>3. /\ Mine' = Mine /\ records'[Mine'] = records[Mine] /\ (IsFolder' <=> IsFolder)
      /\ HasRecord("active")' <=> HasRecord("active")
      /\ HasRecord("active") => ActiveRecord' = ActiveRecord
  BY <1>1, <1>2, NothingRecorded
<1>4. HasRecord("active") => ActiveRecord \in Record
  BY <1>1, ActiveAndFormer, IdsAre DEF VersionTyped
<1>5. /\ override # Off => op.pc \in {"healthy", "commit"}
      /\ override # Off /\ op.pc = "healthy" => HasRecord("active") /\ override = Serves(ActiveRecord)
      /\ op.pc = "commit" => route = override
  BY <1>1 DEF Overrides, SoFar
<1>6. op.pc # "commit" \/ override = Off
  BY <1>2, <1>5 DEF Wanted
<1>7. Wanted = Nowhere \/ (HasRecord("active") /\ Wanted = Serves(ActiveRecord))
  BY <1>5, <1>6 DEF Wanted
<1>8. op.pc # "commit"
  <2> SUFFICES ASSUME op.pc = "commit" PROVE FALSE
    OBVIOUS
  <2>1. override = Serves(records[Mine]) /\ records[Mine] \in Record
    BY <1>1, MineIsThere DEF SoFar, Rolling, InDeploy
  <2> QED
    BY <1>6, <2>1, ServesTarget
<1>9. op.pc # "sweep"
  <2> SUFFICES ASSUME op.pc = "sweep" PROVE FALSE
    OBVIOUS
  <2>1. records # <<>> /\ records[Mine].status = "active" /\ route = Serves(records[Mine])
    BY <1>1 DEF Rolling, SoFar
  <2>2. Mine \in ById("active")
    BY <1>1, <2>1, MineIsThere DEF ById
  <2>3. HasRecord("active") /\ ActiveRecord = records[Mine]
    BY <1>1, <2>2, ActiveAndFormer DEF HasRecord
  <2>4. override = Off
    BY <1>5
  <2> QED
    BY <1>2, <2>1, <2>3, <2>4 DEF Wanted
<1>10. route' \in Targets \cup {Nowhere} /\ override' \in Targets \cup {Off}
  BY <1>1, <1>2, <1>4, <1>7, ServesTarget DEF VersionTyped
<1>11. Rolling' /\ Overrides' /\ FoldersWhole'
  BY <1>1, <1>2, <1>3 DEF Rolling, Overrides, FoldersWhole, Serves
<1>12. SoFar'
  BY <1>1, <1>2, <1>3, <1>8, <1>9 DEF SoFar
<1>13. RouteThere'
  <2> SUFFICES ASSUME route'.to = "folder", ~halfGone, HasRecord("active") PROVE route'.ref \in folders
    BY <1>2, <1>3 DEF RouteThere
  <2>1. PICK r : r = ActiveRecord
    OBVIOUS
  <2>2. route' = Serves(r)
    <3>1. Nowhere.to # "folder"
      BY DEF Nowhere
    <3>2. route' # Nowhere
      BY <3>1
    <3>3. Wanted = Serves(ActiveRecord)
      BY <1>2, <1>7, <3>2
    <3> QED
      BY <1>2, <2>1, <3>3
  <2>3. r.source = "folder" /\ route'.ref = r.ref
    BY <2>2 DEF Serves
  <2>4. IsThere(r)
    BY <1>1, <2>1 DEF RollbackReady
  <2> QED
    BY <2>3, <2>4 DEF IsThere
<1>14. op' \in Ops /\ (op'.pc \in {"note", "prune"} => op'.ref \in Digests) /\ notes' \subseteq Digests /\ uploads' \subseteq Digests
  BY <1>1, <1>2 DEF VersionTyped
<1> QED
  BY <1>2, <1>10, <1>11, <1>12, <1>13, <1>14, NothingRemoved

(* What a step makes of the records, one by one, is a sequence of records.  *)
LEMMA RecordsAre ==
  ASSUME VersionTyped, NEW new, new \in [DOMAIN records -> Record]
  PROVE  new \in Seq(Record) /\ DOMAIN new = DOMAIN records /\ Len(new) = Len(records)
<1>1. Len(records) \in Nat /\ DOMAIN records = 1..Len(records)
  BY LenProperties DEF VersionTyped
<1>2. new \in Seq(Record)
  BY <1>1, SeqDef
<1>3. DOMAIN new = 1..Len(records)
  BY <1>1
<1> QED
  BY <1>1, <1>2, <1>3, LenProperties

(* The deployment that is activated becomes the one there is to serve, and  *)
(* the one before it the one to go back to.                                 *)
LEMMA DeploymentActivated ==
  ASSUME VersionInv, ActivateDeployment
  PROVE  VersionInv'
<1>1. VersionTyped /\ History /\ FoldersWhole /\ Rolling /\ SoFar /\ RouteThere /\ RollbackReady
  BY DEF VersionInv
<1>2. /\ UNCHANGED <<halfGone, notes, uploads, images, folders, complete, route>>
      /\ op.pc = "commit" /\ op' = [op EXCEPT !.pc = "sweep"] /\ override' = Off
  BY DEF ActivateDeployment
<1>3. op' \in Ops /\ op'.pc = "sweep" /\ op'.kind = op.kind /\ op'.ref = op.ref
  BY <1>1, <1>2 DEF VersionTyped, Ops
<1>4. records # <<>> /\ op.ref = records[Mine].ref /\ op.kind # "" /\ records[Mine].status = "running"
      /\ route = Serves(records[Mine])
      /\ (IsFolder => op.ref \in folders) /\ (~IsFolder => op.ref \in images)
  BY <1>1, <1>2 DEF Rolling, SoFar, InDeploy
<1>5. Mine \in DOMAIN records /\ records[Mine] \in Record /\ \A i \in DOMAIN records : i <= Mine
  BY <1>1, <1>4, MineIsThere
<1>6. DOMAIN records \in SUBSET Nat /\ (\A i \in DOMAIN records : records[i] \in Record)
      /\ \A i \in DOMAIN records : records[i].source = "folder" => records[i].ref \in Digests
  BY <1>1, LenProperties, ElementOfSeq DEF VersionTyped
<1>7. /\ DOMAIN records' = DOMAIN records
      /\ records'[Mine] = [records[Mine] EXCEPT !.status = "active"]
      /\ \A i \in DOMAIN records \ {Mine} :
            /\ records[i].status = "active" => records'[i] = [records[i] EXCEPT !.status = "superseded"]
            /\ records[i].status # "active" => records'[i] = records[i]
  BY <1>5 DEF ActivateDeployment
<1>8. \A i \in DOMAIN records :
            /\ records'[i] \in Record /\ records'[i].source = records[i].source /\ records'[i].ref = records[i].ref
            /\ records'[i].status = "active" <=> i = Mine
            /\ records'[i].status = "superseded" <=> records[i].status \in {"active", "superseded"}
  <2> SUFFICES ASSUME NEW i \in DOMAIN records
               PROVE  /\ records'[i] \in Record /\ records'[i].source = records[i].source /\ records'[i].ref = records[i].ref
                      /\ records'[i].status = "active" <=> i = Mine
                      /\ records'[i].status = "superseded" <=> records[i].status \in {"active", "superseded"}
    OBVIOUS
  <2>1. PICK r \in Record : r = records[i]
    BY <1>6
  <2>2. CASE i = Mine
    <3>1. records'[i] = [r EXCEPT !.status = "active"] /\ r.status = "running"
      BY <1>4, <1>7, <2>1, <2>2
    <3> QED
      BY <2>1, <2>2, <3>1 DEF Record
  <2>3. CASE i # Mine /\ r.status = "active"
    <3>1. records'[i] = [r EXCEPT !.status = "superseded"]
      BY <1>7, <2>1, <2>3
    <3> QED
      BY <2>1, <2>3, <3>1 DEF Record
  <2>4. CASE i # Mine /\ r.status # "active"
    <3>1. records'[i] = r
      BY <1>7, <2>1, <2>4
    <3> QED
      BY <2>1, <2>4, <3>1
  <2> QED
    BY <2>2, <2>3, <2>4
<1>9. records' \in Seq(Record) /\ Len(records') = Len(records)
  <2>1. PICK new : new = records'
    OBVIOUS
  <2>2. new \in [DOMAIN records -> Record]
    <3>1. records' = [i \in DOMAIN records |-> records'[i]]
      BY DEF ActivateDeployment
    <3> QED
      BY <1>8, <2>1, <3>1
  <2> QED
    BY <1>1, <2>1, <2>2, RecordsAre
<1>10. Mine' = Mine /\ (IsFolder' <=> IsFolder) /\ Serves(records'[Mine]) = Serves(records[Mine])
  BY <1>5, <1>8, <1>9 DEF Mine, IsFolder, Serves
<1>11. ById("active")' = {Mine} /\ ById("superseded")' = ById("active") \cup ById("superseded")
  BY <1>5, <1>7, <1>8 DEF ById
<1>12. /\ ById("active") \cup ById("superseded") \subseteq DOMAIN records \ {Mine}
       /\ ById("active") \cup ById("superseded") \in SUBSET Nat
       /\ \A i \in ById("active") \cup ById("superseded") : i < Mine
  <2>1. ById("active") \cup ById("superseded") \subseteq DOMAIN records \ {Mine}
    BY <1>4 DEF ById
  <2> QED
    BY <1>5, <1>6, <2>1
<1>13. ASSUME ById("superseded")' # {}
       PROVE  \E a \in ById("active") : ById("active") = {a} /\ ActiveRecord = records[a]
                                        /\ \A j \in ById("superseded")' : j <= a
  <2>1. HasRecord("active")
    BY <1>1, <1>11, <1>13 DEF History, HasRecord
  <2>2. PICK a \in ById("active") : ById("active") = {a} /\ ActiveRecord = records[a]
    BY <1>1, <2>1, ActiveAndFormer
  <2>3. \A j \in ById("superseded") : j < a
    BY <1>1, <2>2 DEF History
  <2> QED
    BY <1>11, <1>12, <2>2, <2>3
<1>14. History'
  <2>1. \A i, j \in ById("active")' : i = j
    BY <1>11
  <2>2. \A i \in ById("active")', j \in ById("superseded")' : j < i
    BY <1>11, <1>12
  <2>3. ById("active")' # {}
    BY <1>11
  <2>4. ById("superseded")' # {} => \E i \in ById("superseded")' : \A j \in ById("superseded")' : j <= i
    BY <1>11, <1>13
  <2> QED
    BY <2>1, <2>2, <2>3, <2>4 DEF History, HasRecord
<1>15. VersionTyped'
  BY <1>1, <1>2, <1>3, <1>6, <1>7, <1>8, <1>9 DEF VersionTyped
<1>16. ActiveRecord' = records'[Mine]
  <2>1. Newest({Mine}) = Mine
    BY <1>5, <1>6, NewestIs
  <2> QED
    BY <1>11, <2>1 DEF ActiveRecord
<1>17. RollbackReady'
  <2> SUFFICES ASSUME ~halfGone
               PROVE  /\ IsThere(ActiveRecord)'
                      /\ HasRecord("superseded")' => IsThere(records[Newest(ById("superseded"))])'
    BY <1>2 DEF RollbackReady
  <2>1. IsThere(ActiveRecord)'
    BY <1>2, <1>4, <1>5, <1>8, <1>16 DEF IsThere, IsFolder
  <2>2. ASSUME HasRecord("superseded")' PROVE IsThere(records[Newest(ById("superseded"))])'
    <3>1. PICK a \in ById("active") : /\ ById("active") = {a} /\ ActiveRecord = records[a]
                                     /\ \A j \in ById("superseded")' : j <= a
      BY <1>13, <2>2 DEF HasRecord
    <3>2. a \in ById("superseded")' /\ ById("superseded")' \in SUBSET Nat
      BY <1>11, <1>12, <3>1
    <3>3. Newest(ById("superseded")')  = a
      BY <3>1, <3>2, NewestIs
    <3>4. IsThere(records[a])
      BY <1>1, <3>1 DEF RollbackReady, HasRecord
    <3>5. records'[a].source = records[a].source /\ records'[a].ref = records[a].ref
      BY <1>8, <1>12, <3>1
    <3>6. Newest(ById("superseded"))' = a
      BY <3>3 DEF Newest
    <3> QED
      BY <1>2, <3>4, <3>5, <3>6 DEF IsThere
  <2> QED
    BY <2>1, <2>2
<1>18. Rolling' /\ Overrides' /\ FoldersWhole'
  <2>1. records' # <<>>
    BY <1>5, <1>7
  <2>2. records'[Mine'].ref = op'.ref /\ records'[Mine'].status = "active"
    BY <1>3, <1>4, <1>5, <1>8, <1>10
  <2>3. Rolling'
    BY <1>3, <1>4, <2>1, <2>2 DEF Rolling, InDeploy
  <2> QED
    BY <1>1, <1>2, <2>3 DEF Overrides, FoldersWhole
<1>19. SoFar'
  BY <1>2, <1>3, <1>4, <1>10 DEF SoFar
<1>20. RouteThere'
  BY <1>2, <1>4 DEF RouteThere, Serves, IsFolder
<1> QED
  BY <1>14, <1>15, <1>17, <1>18, <1>19, <1>20 DEF VersionInv

(* No removal of images takes one of those two.                             *)
LEMMA ImagesKept ==
  ASSUME NEW r, Needed(r), NEW candidates, r.ref \in images
  PROVE  r.ref \in pruneImages(candidates)
<1>1. r.ref \in keptImages
  BY DEF Needed, Former, keptImages
<1> QED
  BY <1>1 DEF pruneImages

(* Nor does the sweep take one of the folders.                              *)
LEMMA FoldersKept ==
  ASSUME VersionTyped, History, HasRecord("active"), NEW r, Needed(r), r.source = "folder"
  PROVE  r.ref \in keptFolders
<1>1. PICK active \in Record : active = ActiveRecord
  BY ActiveAndFormer, IdsAre DEF VersionTyped
<1>2. PICK digest : digest = IF active.source = "folder" THEN active.ref ELSE ""
  OBVIOUS
<1>3. PICK others : others = SupersededFolders(digest)
  OBVIOUS
<1>4. PICK former : former = IF others = {} THEN {} ELSE {records[Newest(others)].ref}
  OBVIOUS
<1>5. keptFolders = IF active.source = "folder" THEN {digest} \cup former
                    ELSE IF HasRecord("superseded") /\ Former.source = "folder" THEN former
                    ELSE {}
  BY <1>1, <1>2, <1>3, <1>4 DEF keptFolders, Former
<1>6. active.source = "folder" => digest = active.ref
  BY <1>2
<1>7. active.source # "folder" => digest = ""
  BY <1>2
<1>8. CASE r = active
  BY <1>5, <1>6, <1>8
<1>9. CASE r # active
  <2>1. HasRecord("superseded") /\ r = Former
    BY <1>1, <1>9 DEF Needed
  <2>2. PICK f \in ById("superseded") : Former = records[f] /\ \A j \in ById("superseded") : j <= f
    BY <2>1, ActiveAndFormer
  <2>3. ById("superseded") \in SUBSET Nat /\ f \in DOMAIN records
    BY IdsAre DEF VersionTyped, ById
  <2>4. r.ref \in Digests
    BY <2>1, <2>2, <2>3 DEF VersionTyped
  <2>5. CASE r.ref = digest
    <3>1. active.source = "folder"
      BY <1>7, <2>4, <2>5, VersionsAssumption
    <3> QED
      BY <1>5, <2>5, <3>1
  <2>6. CASE r.ref # digest
    <3>1. f \in others /\ others \subseteq ById("superseded")
      BY <1>3, <2>1, <2>2, <2>6 DEF SupersededFolders
    <3>2. others \in SUBSET Nat /\ \A j \in others : j <= f
      BY <2>2, <2>3, <3>1
    <3>3. Newest(others) = f
      BY <3>1, <3>2, NewestIs
    <3>4. former = {r.ref}
      BY <1>4, <2>1, <2>2, <3>1, <3>3
    <3> QED
      BY <1>5, <2>1, <3>4
  <2> QED
    BY <2>5, <2>6
<1> QED
  BY <1>8, <1>9

(* The sweep after a deployment that succeeded.                             *)
LEMMA SweepKeeps ==
  ASSUME VersionInv, Sweep
  PROVE  VersionInv'
<1>1. VersionTyped /\ History /\ FoldersWhole /\ Rolling /\ SoFar /\ Overrides /\ RollbackReady
  BY DEF VersionInv
<1>2. /\ UNCHANGED <<records, halfGone, notes, uploads, complete, route, override>>
      /\ op.pc = "sweep" /\ op' = Idle
      /\ \E candidates : images' = pruneImages(candidates)
      /\ folders' = folders \cap keptFolders \/ folders' = folders
  BY DEF Sweep, retireStaticDirs
<1>3. /\ SameHistory
      /\ HasRecord("active")' <=> HasRecord("active")
      /\ HasRecord("active") => ActiveRecord' = ActiveRecord
  BY <1>1, <1>2, NothingRecorded
<1>4. HasRecord("active") /\ route = Serves(ActiveRecord) /\ override = Off
  <2>1. records # <<>> /\ records[Mine].status = "active" /\ route = Serves(records[Mine])
    BY <1>1, <1>2 DEF Rolling, SoFar
  <2>2. Mine \in ById("active")
    BY <1>1, <2>1, MineIsThere DEF ById
  <2>3. HasRecord("active") /\ ActiveRecord = records[Mine]
    BY <1>1, <2>2, ActiveAndFormer DEF HasRecord
  <2> QED
    BY <1>1, <1>2, <2>1, <2>3 DEF Overrides
<1>5. ASSUME NEW r, Needed(r), IsThere(r) PROVE StillThere(r)
  <2>1. CASE r.source = "folder"
    <3>1. r.ref \in folders
      BY <1>5, <2>1 DEF IsThere
    <3>2. r.ref \in keptFolders
      BY <1>1, <1>4, <1>5, <2>1, FoldersKept
    <3> QED
      BY <1>2, <2>1, <3>1, <3>2 DEF StillThere
  <2>2. CASE r.source # "folder"
    <3>1. r.ref \in images
      BY <1>5, <2>2 DEF IsThere
    <3>2. r.ref \in images'
      BY <1>2, <1>5, <3>1, ImagesKept
    <3> QED
      BY <2>2, <3>2 DEF StillThere
  <2> QED
    BY <2>1, <2>2
<1>6. RollbackReady' /\ History'
  BY <1>1, <1>2, <1>3, <1>5, ReadyKept, HistoryStays
<1>7. op' \in Ops /\ op'.pc = "idle" /\ op'.kind = ""
  BY <1>2 DEF Idle, Ops, InDeploy
<1>8. VersionTyped'
  BY <1>1, <1>2, <1>7 DEF VersionTyped
<1>9. Rolling' /\ SoFar' /\ Overrides'
  BY <1>2, <1>4, <1>7 DEF Rolling, SoFar, Overrides, InDeploy
<1>10. FoldersWhole'
  BY <1>1, <1>2 DEF FoldersWhole
<1>11. RouteThere'
  <2> SUFFICES ASSUME route'.to = "folder", ~halfGone' PROVE route'.ref \in folders'
    BY DEF RouteThere
  <2>1. PICK r : r = ActiveRecord
    OBVIOUS
  <2>2. IsThere(r)'
    BY <1>3, <1>4, <1>6, <2>1 DEF RollbackReady
  <2>3. route' = Serves(r)
    BY <1>2, <1>4, <2>1
  <2> QED
    BY <2>2, <2>3 DEF IsThere, Serves
<1> QED
  BY <1>6, <1>8, <1>9, <1>10, <1>11 DEF VersionInv

(* A deployment that fails leaves the ones before it as they were.          *)
LEMMA MineFails ==
  ASSUME VersionTyped, records # <<>>, records[Mine].status = "running", records' = MineBecomes("failed")
  PROVE  SameHistory /\ \A i \in DOMAIN records' : records'[i].source = "folder" => records'[i].ref \in Digests
<1>1. /\ records \in Seq(Record) /\ Mine \in DOMAIN records /\ records[Mine] \in Record
      /\ \A i \in DOMAIN records : records[i] \in Record /\ (records[i].source = "folder" => records[i].ref \in Digests)
  BY MineIsThere, LenProperties, ElementOfSeq DEF VersionTyped
<1>2. PICK mine \in Record : mine = records[Mine]
  BY <1>1
<1>3. PICK failed : failed = [mine EXCEPT !.status = "failed"]
  OBVIOUS
<1>4. failed \in Record /\ failed.status = "failed" /\ failed.source = mine.source /\ failed.ref = mine.ref
  BY <1>2, <1>3 DEF Record
<1>5. /\ records' = [records EXCEPT ![Mine] = failed] /\ DOMAIN records' = DOMAIN records
      /\ records'[Mine] = failed /\ \A i \in DOMAIN records \ {Mine} : records'[i] = records[i]
  BY <1>1, <1>2, <1>3 DEF MineBecomes
<1>6. records' \in Seq(Record)
  BY <1>1, <1>4, <1>5, ExceptSeq
<1>7. ById("active")' = ById("active") /\ ById("superseded")' = ById("superseded")
  BY <1>4, <1>5 DEF ById
<1>8. Mine \notin ById("active") \cup ById("superseded") /\ ById("active") \cup ById("superseded") \subseteq DOMAIN records
  BY DEF ById
<1> QED
  BY <1>1, <1>2, <1>4, <1>5, <1>6, <1>7, <1>8 DEF SameHistory

(* A deployment fails, or the agent that made it dies.                      *)
LEMMA DeploymentFails ==
  ASSUME VersionInv, op.pc \in InDeploy, records' = MineBecomes("failed"), op' = Idle, override' = Off,
         UNCHANGED <<complete, folders, uploads, notes, halfGone>>,
         images' = images \/ \E candidates : images' = pruneImages(candidates),
         route' = route \/ route' = (IF HasRecord("active") THEN Serves(ActiveRecord) ELSE Nowhere)
  PROVE  VersionInv'
<1>1. VersionTyped /\ History /\ FoldersWhole /\ Rolling /\ RouteThere /\ RollbackReady
  BY DEF VersionInv
<1>2. SameHistory /\ \A i \in DOMAIN records' : records'[i].source = "folder" => records'[i].ref \in Digests
  BY <1>1, MineFails DEF Rolling
<1>3. ASSUME NEW r, Needed(r), IsThere(r) PROVE StillThere(r)
  <2>1. CASE r.source = "folder"
    BY <1>3, <2>1 DEF IsThere, StillThere
  <2>2. CASE r.source # "folder"
    BY <1>3, <2>2, ImagesKept DEF IsThere, StillThere
  <2> QED
    BY <2>1, <2>2
<1>4. RollbackReady' /\ History' /\ (HasRecord("active")' <=> HasRecord("active"))
  BY <1>1, <1>2, <1>3, ReadyKept, HistoryStays
<1>5. op' \in Ops /\ op'.pc = "idle" /\ op'.kind = ""
  BY DEF Idle, Ops, InDeploy
<1>6. HasRecord("active") => ActiveRecord \in Record
  BY <1>1, ActiveAndFormer, IdsAre DEF VersionTyped
<1>7. VersionTyped'
  BY <1>1, <1>2, <1>5, <1>6, ServesTarget DEF VersionTyped, SameHistory
<1>8. Rolling' /\ SoFar' /\ Overrides' /\ FoldersWhole'
  BY <1>1, <1>5 DEF Rolling, SoFar, Overrides, InDeploy, FoldersWhole
<1>9. RouteThere'
  <2>1. CASE route' = route
    BY <1>1, <1>4, <2>1 DEF RouteThere
  <2>2. CASE route' # route
    <3> SUFFICES ASSUME route'.to = "folder", ~halfGone, HasRecord("active") PROVE route'.ref \in folders
      BY <1>4 DEF RouteThere
    <3>1. PICK r : r = ActiveRecord
      OBVIOUS
    <3>2. route' = Serves(r)
      BY <2>2, <3>1
    <3>3. r.source = "folder" /\ route'.ref = r.ref
      BY <3>2 DEF Serves
    <3>4. IsThere(r)
      BY <1>1, <3>1 DEF RollbackReady
    <3> QED
      BY <3>3, <3>4 DEF IsThere
  <2> QED
    BY <2>1, <2>2
<1> QED
  BY <1>4, <1>7, <1>8, <1>9 DEF VersionInv

(* It is aborted, or the agent stops.                                       *)
LEMMA AbortsAndStops ==
  ASSUME VersionInv, Abort \/ Restart
  PROVE  VersionInv'
<1>1. VersionTyped /\ History /\ FoldersWhole /\ Rolling /\ SoFar /\ RouteThere /\ RollbackReady
  BY DEF VersionInv
<1>2. ASSUME Abort PROVE VersionInv'
  <2>1. op.pc \in InDeploy
    BY <1>2 DEF Abort, CanFail, InDeploy
  <2>2. images' = images \/ \E candidates : images' = pruneImages(candidates)
    BY <1>2 DEF Abort, removeFailedImage
  <2>3. /\ records' = MineBecomes("failed") /\ op' = Idle /\ override' = Off
        /\ UNCHANGED <<complete, folders, uploads, notes, halfGone>>
        /\ route' = route \/ route' = (IF HasRecord("active") THEN Serves(ActiveRecord) ELSE Nowhere)
    BY <1>2 DEF Abort
  <2> QED
    BY <2>1, <2>2, <2>3, DeploymentFails
<1>3. ASSUME Restart PROVE VersionInv'
  <2>1. UNCHANGED <<complete, folders, uploads, notes, halfGone, images, route>> /\ override' = Off
    BY <1>3 DEF Restart
  <2>2. CASE op.kind # "" /\ op.pc # "sweep" /\ ~Resumes
    <3>1. op.pc \in InDeploy
      BY <1>1, <2>2 DEF Rolling
    <3>2. op' = Idle /\ records' = MineBecomes("failed")
      BY <1>3, <2>2 DEF Restart
    <3> QED
      BY <2>1, <3>1, <3>2, DeploymentFails
  <2>3. CASE ~(op.kind # "" /\ op.pc # "sweep" /\ ~Resumes)
    <3>1. UNCHANGED records
      BY <1>3, <2>3 DEF Restart
    <3>2. /\ Mine' = Mine /\ records'[Mine'] = records[Mine] /\ (IsFolder' <=> IsFolder)
          /\ HasRecord("active")' <=> HasRecord("active")
      BY <1>1, <3>1, NothingRecorded
    <3>3. op' = Idle \/ (op.kind # "" /\ op.pc # "sweep" /\ Resumes /\ op' = [op EXCEPT !.pc = "starting"])
      BY <1>3, <2>3 DEF Restart
    <3>4. /\ op' \in Ops /\ (op'.pc \in {"note", "prune"} => op'.ref \in Digests)
          /\ Rolling' /\ SoFar'
      <4>1. CASE op' = Idle
        BY <4>1 DEF Idle, Ops, InDeploy, Rolling, SoFar
      <4>2. CASE op.kind # "" /\ op.pc # "sweep" /\ Resumes /\ op' = [op EXCEPT !.pc = "starting"]
        <5>1. op' \in Ops /\ op'.pc = "starting" /\ op'.ref = op.ref /\ op'.kind = op.kind
          BY <1>1, <4>2 DEF VersionTyped, Ops, InDeploy
        <5>2. op.pc \in {"starting", "healthy", "commit"} /\ ~IsFolder
          BY <4>2 DEF Resumes
        <5>3. Rolling'
          BY <1>1, <3>1, <3>2, <5>1, <5>2 DEF Rolling, InDeploy
        <5>4. SoFar'
          BY <1>1, <2>1, <3>2, <5>1, <5>2 DEF SoFar
        <5> QED
          BY <5>1, <5>3, <5>4
      <4> QED
        BY <3>3, <4>1, <4>2
    <3>5. Overrides' /\ FoldersWhole' /\ RouteThere'
      BY <1>1, <2>1, <3>2 DEF Overrides, FoldersWhole, RouteThere
    <3>6. route' \in Targets \cup {Nowhere} /\ override' \in Targets \cup {Off}
          /\ notes' \subseteq Digests /\ uploads' \subseteq Digests
      BY <1>1, <2>1 DEF VersionTyped
    <3> QED
      BY <2>1, <3>1, <3>4, <3>5, <3>6, NothingRemoved
  <2> QED
    BY <2>2, <2>3
<1> QED
  BY <1>2, <1>3

(* The application is deleted, whole or by half.                            *)
LEMMA DeletionsKeep ==
  ASSUME VersionInv, removeStaticFiles \/ DeleteApplication \/ DeleteFails
  PROVE  VersionInv'
<1>1. VersionTyped /\ History /\ FoldersWhole /\ Rolling /\ Overrides /\ RouteThere /\ RollbackReady
  BY DEF VersionInv
<1>2. /\ op.pc \in {"idle", "delete"} /\ op' \in Ops /\ op'.pc \in {"idle", "delete"} /\ op'.kind = ""
      /\ UNCHANGED <<complete, override>> /\ folders' \subseteq folders
      /\ notes' \subseteq Digests /\ uploads' \subseteq Digests
  <2>1. op \in Ops /\ notes \subseteq Digests /\ uploads \subseteq Digests
    BY <1>1 DEF VersionTyped
  <2>2. ASSUME removeStaticFiles PROVE op.pc = "idle" /\ op' \in Ops /\ op'.pc = "delete" /\ op'.kind = ""
    <3>1. op = Idle /\ op' = [Idle EXCEPT !.pc = "delete"]
      BY <2>2 DEF removeStaticFiles
    <3> QED
      BY <3>1 DEF Idle, Ops
  <2>3. ASSUME DeleteApplication \/ DeleteFails PROVE op.pc = "delete" /\ op' \in Ops /\ op'.pc = "idle" /\ op'.kind = ""
    <3>1. op.pc = "delete" /\ op' = Idle
      BY <2>3 DEF DeleteApplication, DeleteFails
    <3> QED
      BY <3>1 DEF Idle, Ops, InDeploy
  <2> QED
    BY <2>1, <2>2, <2>3 DEF removeStaticFiles, DeleteApplication, DeleteFails
<1>3. override = Off
  BY <1>1, <1>2 DEF Overrides
<1>4. Rolling' /\ SoFar' /\ Overrides' /\ FoldersWhole'
  BY <1>1, <1>2, <1>3 DEF Rolling, SoFar, Overrides, InDeploy, FoldersWhole
<1>5. route' = route \/ route' = Nowhere
  BY DEF removeStaticFiles, DeleteApplication, DeleteFails
<1>6. CASE removeStaticFiles
  <2>1. UNCHANGED records /\ halfGone' = TRUE
    BY <1>6 DEF removeStaticFiles
  <2>2. VersionTyped'
    BY <1>1, <1>2, <1>5, <2>1 DEF VersionTyped
  <2>3. History' /\ RollbackReady' /\ RouteThere'
    BY <1>1, <2>1, NothingRecorded, HistoryStays DEF RollbackReady, RouteThere
  <2> QED
    BY <1>4, <2>2, <2>3 DEF VersionInv
<1>7. CASE DeleteApplication
  <2>1. records' = <<>>
    BY <1>7 DEF DeleteApplication
  <2>2. DOMAIN records' = {} /\ records' \in Seq(Record)
    BY <2>1, EmptySeq
  <2>3. VersionTyped'
    BY <1>1, <1>2, <1>5, <2>2 DEF VersionTyped
  <2>4. \A status : ById(status)' = {}
    BY <2>2 DEF ById
  <2>5. History' /\ RollbackReady' /\ RouteThere'
    BY <2>4 DEF History, RollbackReady, RouteThere, HasRecord
  <2> QED
    BY <1>4, <2>3, <2>5 DEF VersionInv
<1>8. CASE DeleteFails
  <2>1. UNCHANGED <<records, folders, complete, halfGone, route, override, images>>
    BY <1>8 DEF DeleteFails
  <2> QED
    BY <1>2, <1>4, <2>1, OnlyTheOperation
<1> QED
  BY <1>6, <1>7, <1>8

(* A fresh server.                                                          *)
LEMMA VersionsBegin == VersionInit => VersionInv
<1> SUFFICES ASSUME VersionInit PROVE VersionInv
  OBVIOUS
<1>1. /\ records = <<>> /\ folders = {} /\ uploads = {} /\ notes = {} /\ route = Nowhere /\ override = Off /\ op = Idle
  BY DEF VersionInit
<1>2. DOMAIN records = {} /\ records \in Seq(Record)
  BY <1>1, EmptySeq
<1>3. \A status : ById(status) = {}
  BY <1>2 DEF ById
<1>4. op \in Ops /\ op.pc = "idle" /\ op.kind = ""
  BY <1>1 DEF Idle, Ops
<1>5. VersionTyped
  BY <1>1, <1>2, <1>4 DEF VersionTyped
<1>6. History /\ RollbackReady /\ RouteThere
  BY <1>3 DEF History, RollbackReady, RouteThere, HasRecord
<1>7. Rolling /\ SoFar /\ Overrides /\ FoldersWhole
  BY <1>1, <1>4 DEF Rolling, SoFar, Overrides, FoldersWhole, InDeploy
<1> QED
  BY <1>5, <1>6, <1>7 DEF VersionInv

(* Every step keeps the invariant.                                          *)
LEMMA VersionsStep == VersionInv /\ [VersionNext]_versionVars => VersionInv'
<1> SUFFICES ASSUME VersionInv, VersionNext \/ UNCHANGED versionVars PROVE VersionInv'
  OBVIOUS
<1>1. CASE (\E l \in Local : SenderGone(l) \/ \E slow \in BOOLEAN : LoadImage(l, slow)) \/ UNCHANGED versionVars
  BY <1>1, ImagesArrive
<1>2. CASE (\E d \in Digests : StoreArchive(d)) \/ StoreNote \/ pruneUploads
  BY <1>2, UploadsAreKept
<1>3. CASE \/ \E d \in Digests : DeployStatic(d)
           \/ \E i \in Registry \cup Local : DeployImage(i)
           \/ Redeploy
           \/ \E i \in DOMAIN records : Rollback(i)
  BY <1>3, DeploymentsBegin
<1>4. CASE pullImage \/ StartReplicas \/ LookForFolder \/ MakePart \/ ImportPath \/ CheckFolder
  BY <1>4, RolloutSteps
<1>5. CASE SwitchRoute
  BY <1>5, RouteSwitches
<1>6. CASE ActivateDeployment
  BY <1>6, DeploymentActivated
<1>7. CASE Sweep
  BY <1>7, SweepKeeps
<1>8. CASE Abort \/ Restart
  BY <1>8, AbortsAndStops
<1>9. CASE TickSync
  BY <1>9, RouteIsSynced
<1>10. CASE removeStaticFiles \/ DeleteApplication \/ DeleteFails
  BY <1>10, DeletionsKeep
<1> QED
  BY <1>1, <1>2, <1>3, <1>4, <1>5, <1>6, <1>7, <1>8, <1>9, <1>10 DEF VersionNext

(* For any folders, images, deployments, failures, stops and deletions:     *)
(* what the proxy's configuration names was extracted to its end and        *)
(* checked, and what runs and what a rollback would go back to survive      *)
(* every sweep (serveStatic, pruneImages, retireStaticDirs).                *)
THEOREM VersionsAreThere == VersionSpec => []VersionsThere
<1>1. VersionInv => VersionsThere
  BY DEF VersionInv, VersionsThere, ServedIsWhole, RouteThere, FoldersWhole
<1> QED
  BY <1>1, VersionsBegin, VersionsStep, PTL DEF VersionSpec
=============================================================================
