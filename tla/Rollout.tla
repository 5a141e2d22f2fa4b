------------------------------ MODULE Rollout ------------------------------
(***************************************************************************)
(* A deployment, from its record to its end (rollout.go): the old version's *)
(* replicas replaced one by one, or all at once after they were stopped     *)
(* (recreate); the commit; and what a failure calls for: discarding the new *)
(* replicas, or rolling back to the old version.                            *)
(***************************************************************************)
EXTENDS AppState

\* progress orders the statuses, on the way up and on the way back.
Progress(s) ==
    CASE s = "PENDING" -> 0 [] s = "BUILDING" -> 1 [] s = "STARTING" -> 2
      [] s = "HEALTH_CHECKING" -> 3 [] s = "HEALTHY" -> 4 [] s = "FAILED" -> 5
      [] s = "ROLLBACK" -> 6 [] s = "RESTORING" -> 7 [] OTHER -> 8

\* transition, a compare-and-swap from the status the rollout remembers,
\* which is the database's; reach skips it for a resumed deployment.
Moved(to) ==
    /\ <<status[r.dep], to>> \in Transitions
    /\ status' = [status EXCEPT ![r.dep] = to]
Reached(to) == Progress(status[r.dep]) >= Progress(to)

\* A transition whose failure is only logged: the state machine does not
\* allow it, or the database refuses the write.
MovedIfItCan(to) ==
    \/ Moved(to)
    \/ (Faults \/ <<status[r.dep], to>> \notin Transitions) /\ UNCHANGED status

\* start: the record is created under the lock, and the rollout launched.
Deploy(n, s) ==
    /\ agent = "up" /\ pc = "idle"
    /\ \E d \in Deployments :
        /\ Created = 1 .. d - 1
        /\ status' = [status EXCEPT ![d] = "PENDING"]
        /\ replicas' = [replicas EXCEPT ![d] = n]
        /\ strategy' = [strategy EXCEPT ![d] = s]
        /\ r' = [NoRollout EXCEPT !.dep = d]
    /\ pc' = "execute"
    /\ whole' = FALSE
    /\ UNCHANGED <<completed, application, row, docker, agent, override, drains,
                   unready, ended, verified, bounds>>

----------------------------------------------------------------------------
(* execute.                                                                *)

Reach(at, to, next) ==
    /\ agent = "up" /\ pc = at
    /\ IF Reached(to) THEN UNCHANGED status ELSE Moved(to)
    /\ pc' = next
    /\ UNCHANGED <<completed, replicas, strategy, application, row, docker,
                   agent, r, override, drains, unready, ended, ghosts>>

ReachBuilding == Reach("execute", "BUILDING", "building")

\* The image is here and the pre-deploy command has run; neither is done
\* again once the deployment is past BUILDING.
Built ==
    /\ agent = "up" /\ pc = "building"
    /\ pc' = "starting"
    /\ UNCHANGED <<db, docker, agent, r, override, drains, unready, ended, ghosts>>

ReachStarting == Reach("starting", "STARTING", "previous")

\* loadPrevious: the deployment being replaced, its replicas, and routing.
Loaded(roll) ==
    IF active = 0 THEN roll
    ELSE [roll EXCEPT !.prev = active,
                      !.old = Recorded(active),
                      !.serving = IF desired = "running" THEN Of(active, Recorded(active)) ELSE {}]

\* desired: the capacity the rollout maintains throughout.
Desired(roll) ==
    IF roll.prev # 0 /\ replicas[roll.prev] < replicas[roll.dep]
    THEN replicas[roll.prev] ELSE replicas[roll.dep]

FullCapacity(roll) == roll.prev # 0 /\ Cardinality(Capacity) >= Desired(roll)

\* From here on the rollout says who serves.  A recreate deployment stops the
\* old version, unless a resumed one finds that the switch had happened.
LoadPrevious ==
    /\ agent = "up" /\ pc = "previous"
    /\ LET l == IF r.surveyed THEN r ELSE Loaded(r)
           recreates == strategy[r.dep] = "recreate" /\ l.prev # 0
           switched == l.inService # {} \/ (l.resumed /\ l.old = {} /\ l.retired)
       IN
        /\ override' = IF r.surveyed \/ l.prev = 0 THEN override
                       ELSE [on |-> TRUE, members |-> l.serving]
        /\ r' = IF recreates /\ switched THEN [l EXCEPT !.recreate = TRUE, !.stopped = l.old] ELSE l
        /\ pc' = IF recreates /\ ~switched /\ l.old # {} THEN "takeOut" ELSE "plan"
        /\ whole' = IF r.surveyed THEN whole ELSE FullCapacity(l)
    /\ UNCHANGED <<db, docker, agent, drains, unready, ended, verified, bounds>>

\* stopPrevious: out of routing first ...
TakeOut ==
    /\ agent = "up" /\ pc = "takeOut"
    /\ r' = [r EXCEPT !.recreate = TRUE, !.serving = {}]
    /\ override' = [on |-> TRUE, members |-> {}]
    /\ SyncOk({})
    /\ pc' \in {"stopping", "abort"}
    /\ UNCHANGED <<db, ctr, agent, drains, unready, ended, ghosts>>

\* ... then its replicas are stopped, one at a time.
StopOld ==
    /\ agent = "up" /\ pc = "stopping"
    /\ \/ /\ r.old \subseteq r.stopped
          /\ pc' = "plan"
          /\ UNCHANGED <<ctr, r, verified>>
       \/ \E c \in Of(r.prev, First(r.old \ r.stopped)) :
          /\ ctr' = [ctr EXCEPT ![c] = IF Running(c) THEN "exited" ELSE @]
          /\ verified' = verified \ {c}
          /\ r' = [r EXCEPT !.stopped = @ \cup {c[2]}]
          /\ UNCHANGED pc
    /\ UNCHANGED <<db, named, agent, override, drains, unready, ended, whole, bounds>>

\* batches, and for a resumed rollout first the swap it was in.
PlanBatches ==
    /\ agent = "up" /\ pc = "plan"
    /\ LET todo == Wanted(r.dep) \ r.inService IN
        r' = [r EXCEPT !.todo = todo, !.extra = todo \ r.old, !.batch = r.inService]
    /\ pc' = IF r.inService # {} THEN "swap" ELSE "next"
    /\ UNCHANGED <<db, docker, agent, override, drains, unready, ended, ghosts>>

\* Faulty variant: the whole new version starts next to the old one.
NextBatchAll == r.todo

\* Replicas that replace an old one go one by one, the others together.
NextBatch ==
    IF r.recreate \/ r.todo \subseteq r.extra THEN r.todo ELSE First(r.todo \ r.extra)

\* The next batch starts once what was replaced is gone; after the last one
\* the replicas that have no successor leave.
BeginBatch ==
    /\ agent = "up" /\ pc = "next"
    /\ \/ /\ r.todo = {}
          /\ r' = [r EXCEPT !.batch = {}]
          /\ pc' = IF r.old = {} THEN "checked" ELSE "swap"
       \/ /\ r.todo # {} /\ drains = {}
          /\ r' = [r EXCEPT !.batch = NextBatch, !.made = {}, !.missing = NextBatch \ r.adopted]
          /\ pc' = "bring"
    /\ UNCHANGED <<db, docker, agent, override, drains, unready, ended, ghosts>>

\* bring: a replica found alive is started if it does not run -- as it is,
\* with whatever names it carries.
Bring ==
    /\ agent = "up" /\ pc = "bring"
    /\ LET idle == {i \in r.batch \cap r.adopted : ~Running(<<r.dep, i>>)} IN
        \/ idle = {} /\ pc' = "create" /\ UNCHANGED ctr
        \/ \E c \in Of(r.dep, First(idle)) :
            Exists(c) /\ ctr' = [ctr EXCEPT ![c] = "running"] /\ UNCHANGED pc
    /\ UNCHANGED <<db, named, agent, r, override, drains, unready, ended, ghosts>>

CreateReplica == agent = "up" /\ CreateFor(r.dep, "create")
RecordReplica == agent = "up" /\ RecordFor(r.dep, "create")
StartReplica == agent = "up" /\ StartFor(r.dep, "create", "started")

ReachHealthChecking == Reach("started", "HEALTH_CHECKING", "check")

\* awaitHealthy and awaitStable return once every one of C runs and has
\* answered, or has run for the whole window; one that does not run, or is
\* never ready, fails the rollout (Fail).
AwaitHealthy(C) ==
    /\ \A c \in C : Running(c)
    /\ verified' = verified \cup C
    /\ unready' = unready \ C

\* awaitReady, for the replicas of the batch.
BatchReady ==
    /\ agent = "up" /\ pc = "check"
    /\ AwaitHealthy(Of(r.dep, r.batch))
    /\ pc' = "swap"
    /\ UNCHANGED <<db, docker, agent, r, override, drains, ended, whole, bounds>>

\* swap: routing first.  An empty batch is the call for the old replicas that
\* have no successor.
Swap ==
    /\ agent = "up" /\ pc = "swap"
    /\ LET outgoing == IF r.batch = {} THEN r.old ELSE r.batch \cap r.old
           serving == (r.serving \ Of(r.prev, outgoing)) \cup Of(r.dep, r.batch)
       IN
        /\ r' = [r EXCEPT !.serving = serving, !.leaving = outgoing]
        /\ override' = [on |-> TRUE, members |-> serving]
        /\ \/ SyncOk(serving) /\ pc' = "retire"
           \/ SyncFailed(serving) /\ pc' = "abort"
    /\ UNCHANGED <<db, ctr, agent, drains, unready, ended, ghosts>>

AfterSwap == IF r.batch = {} THEN "checked" ELSE "next"

\* The proxy has had time to find the newcomers: the old replicas go, in the
\* background.
Retire ==
    /\ agent = "up" /\ pc = "retire" /\ ~r.recreate
    /\ drains' = drains \cup Of(r.prev, r.leaving)
    /\ r' = [r EXCEPT !.retired = @ \/ r.leaving # {}, !.old = @ \ r.leaving,
                      !.todo = @ \ r.batch, !.leaving = {}]
    /\ pc' = AfterSwap
    /\ UNCHANGED <<db, docker, agent, override, unready, ended, ghosts>>

\* Under recreate they are stopped already, and are removed here.
RetireStopped ==
    /\ agent = "up" /\ pc = "retire" /\ r.recreate
    /\ \/ /\ r.leaving = {}
          /\ r' = [r EXCEPT !.todo = @ \ r.batch]
          /\ pc' = AfterSwap
          /\ UNCHANGED <<docker, verified, row>>
       \/ \E i \in First(r.leaving) :
          /\ Remove({<<r.prev, i>>})
          /\ r' = [r EXCEPT !.retired = TRUE, !.old = @ \ {i}, !.leaving = @ \ {i}]
          /\ UNCHANGED pc
    /\ UNCHANGED <<records, application, agent, override, drains, unready, ended, whole, bounds>>

ReachChecked == Reach("checked", "HEALTH_CHECKING", "healthy")
ReachHealthy == Reach("healthy", "HEALTHY", "activate")

\* Faulty variant: the deployment that was active is not superseded.
ActivateBesides ==
    /\ agent = "up" /\ pc = "activate"
    /\ status[r.dep] = "HEALTHY"
    /\ status' = [status EXCEPT ![r.dep] = "ACTIVE"]
    /\ active' = r.dep
    /\ desired' = "running"
    /\ override' = NoOverride
    /\ pc' = "sweep"
    /\ UNCHANGED <<completed, replicas, strategy, row, docker, agent, r, drains, unready, ended, ghosts>>

\* ActivateDeployment, one transaction; then the override is dropped.
Activate ==
    /\ agent = "up" /\ pc = "activate"
    /\ status[r.dep] = "HEALTHY"
    /\ status' = [d \in Deployments |->
                    CASE d = r.dep -> "ACTIVE"
                      [] d = active /\ d # r.dep /\ status[d] = "ACTIVE" -> "SUPERSEDED"
                      [] OTHER -> status[d]]
    /\ active' = r.dep
    /\ desired' = "running"
    /\ override' = NoOverride
    /\ pc' = "sweep"
    /\ UNCHANGED <<completed, replicas, strategy, row, docker, agent, r, drains, unready, ended, ghosts>>

\* retireOthers: what is not the new version's and not draining goes.
Sweep ==
    /\ pc = "sweep"
    /\ LET others == {c \in Containers : Exists(c) /\ c[1] # r.dep /\ c \notin drains} IN
        \E gone \in IF Faults THEN SUBSET others ELSE {others} : Remove(gone)
    /\ pc' = "end"
    /\ UNCHANGED <<records, application, agent, r, override, drains, unready, ended, whole, bounds>>

\* Faulty variant: the end of the deployment is not settled.
ReleaseUnsettled ==
    /\ pc = "end"
    /\ r' = NoRollout
    /\ pc' = "idle"
    /\ UNCHANGED <<db, docker, agent, override, drains, unready, ended, ghosts>>

\* launch, after run: the lock goes first ...
Release ==
    /\ pc = "end"
    /\ ended' = ended \cup {r.dep}
    /\ r' = NoRollout
    /\ pc' = "idle"
    /\ UNCHANGED <<db, docker, agent, override, drains, unready, ghosts>>

\* Faulty variant: an end that could not be written is not tried again.
SettleOnce(d) ==
    /\ d \in ended
    /\ ended' = ended \ {d}
    /\ UNCHANGED <<db, docker, agent, pc, r, override, drains, unready, ghosts>>

\* ... then settle writes the end, or retrySettling once the database takes it.
Settle(d) ==
    /\ d \in ended
    /\ status' = [status EXCEPT ![d] = IF @ \in Settled THEN @ ELSE "FAILED"]
    /\ completed' = [completed EXCEPT ![d] = TRUE]
    /\ ended' = ended \ {d}
    /\ UNCHANGED <<replicas, strategy, application, row, docker,
                   agent, pc, r, override, drains, unready, ghosts>>

----------------------------------------------------------------------------
(* abort.                                                                  *)

\* Where a step of execute may return an error: the deployment's deadline, a
\* database or Docker that refuses, a health check that never passes.  Taking
\* replicas out and exchanging them fail in their own actions.
MayFail ==
    \/ pc \in {"execute", "starting", "previous", "stopping", "next", "bring", "create",
               "started", "check", "checked", "healthy", "activate"}
    \/ pc = "building" /\ status[r.dep] = "BUILDING"
    \/ pc = "retire" /\ r.batch # {} /\ r.leaving # {} /\ ~r.recreate

Fail ==
    /\ agent = "up" /\ MayFail
    /\ Gone(Uncreated(r.dep))
    /\ r' = [r EXCEPT !.creating = FALSE]
    /\ pc' = "abort"
    /\ UNCHANGED <<db, agent, override, drains, unready, ended, whole, bounds>>

\* FAILED is written; then what was lost of the old version decides.  An
\* agent that is going down starts no restore.
Abort ==
    /\ pc = "abort"
    /\ MovedIfItCan("FAILED")
    /\ pc' = IF agent = "closing" \/ r.prev = 0 \/ ~(r.retired \/ r.recreate)
             THEN "discard" ELSE "rollBack"
    /\ UNCHANGED <<completed, replicas, strategy, application, row, docker,
                   agent, r, override, drains, unready, ended, ghosts>>

\* Faulty variant: the override outlives the rollout.
DiscardKeepingRoutes ==
    /\ pc = "discard"
    /\ SyncOk(Members(override))
    /\ r' = [r EXCEPT !.drop = Of(r.dep, r.fresh), !.then = r.outcome]
    /\ pc' = "dropping"
    /\ UNCHANGED <<db, ctr, agent, override, drains, unready, ended, ghosts>>

\* discard: the database says who serves again, and new replicas go.
Discard ==
    /\ pc = "discard"
    /\ override' = NoOverride
    /\ SyncOk(Members(NoOverride)) \/ (Faults /\ SyncFailed(Members(NoOverride)))
    /\ r' = [r EXCEPT !.drop = Of(r.dep, r.fresh), !.then = r.outcome]
    /\ pc' = "dropping"
    /\ UNCHANGED <<db, ctr, agent, drains, unready, ended, ghosts>>

\* rollBack, rollBackRecreate: a rollback that cannot be recorded is none.
BeginRollback ==
    /\ pc = "rollBack"
    /\ \/ /\ IF Reached("ROLLBACK") THEN UNCHANGED status ELSE Moved("ROLLBACK")
          /\ pc' = IF r.recreate THEN "clear" ELSE "awaitDrains"
          /\ r' = IF r.recreate THEN [r EXCEPT !.serving = {}] ELSE r
          /\ override' = IF r.recreate THEN [on |-> TRUE, members |-> {}] ELSE override
       \/ /\ ~Reached("ROLLBACK") /\ (Faults \/ status[r.dep] # "FAILED")
          /\ pc' = "discard"
          /\ UNCHANGED <<status, r, override>>
    /\ UNCHANGED <<completed, replicas, strategy, application, row, docker,
                   agent, drains, unready, ended, ghosts>>

\* The restore needs the names of the replicas that are on their way out.
DrainsAwaited ==
    /\ pc = "awaitDrains" /\ drains = {}
    /\ pc' = "clear"
    /\ UNCHANGED <<db, docker, agent, r, override, drains, unready, ended, ghosts>>

\* Faulty variant: the old version is started before the new one is gone.
ClearLater ==
    /\ pc = "clear"
    /\ r' = [r EXCEPT !.then = "restoring"]
    /\ pc' = "dropping"
    /\ UNCHANGED <<db, docker, agent, override, drains, unready, ended, ghosts>>

\* The replicas that never made it into rotation go: under recreate, all.
Clear ==
    /\ pc = "clear"
    /\ LET kept == {i \in r.fresh : <<r.dep, i>> \in r.serving} IN
        r' = [r EXCEPT !.drop = Of(r.dep, r.fresh \ kept), !.fresh = kept, !.then = "restoring"]
    /\ pc' = "dropping"
    /\ UNCHANGED <<db, docker, agent, override, drains, unready, ended, ghosts>>

BeginRestore ==
    /\ pc = "restoring"
    /\ IF Reached("RESTORING") THEN UNCHANGED status ELSE MovedIfItCan("RESTORING")
    /\ r' = [r EXCEPT !.made = {},
                      !.missing = IF r.recreate /\ ~r.retired THEN {} ELSE Wanted(r.prev) \ r.old]
    /\ pc' = IF r.recreate THEN "restart" ELSE "restore"
    /\ UNCHANGED <<completed, replicas, strategy, application, row, docker,
                   agent, override, drains, unready, ended, ghosts>>

\* Under recreate the containers the old version kept are started again.
RestartOld ==
    /\ pc = "restart"
    /\ LET left == (r.stopped \cap r.old) \ r.made IN
        \/ left = {} /\ pc' = "restore" /\ UNCHANGED <<docker, unready, r>>
        \/ \E c \in Of(r.prev, First(left)) :
           /\ StartNameless(c)
           /\ unready' = unready \cup {c}
           /\ r' = [r EXCEPT !.made = @ \cup {c[2]}]
           /\ UNCHANGED pc
    /\ UNCHANGED <<db, agent, override, drains, ended, ghosts>>

CreateRestored == CreateFor(r.prev, "restore")
RecordRestored == RecordFor(r.prev, "restore")
StartRestored == StartFor(r.prev, "restore", "restoreCheck")

\* The old version is whole again.
Restored ==
    /\ pc = "restoreCheck"
    /\ AwaitHealthy(Of(r.prev, r.made \cup r.unverified))
    /\ r' = [r EXCEPT !.outcome = "rolledBack"]
    /\ pc' = "discard"
    /\ UNCHANGED <<db, docker, agent, override, drains, ended, whole, bounds>>

\* Or it could not be completed either: what the rollback created goes
\* (recreate leaves what exists), and the supervisor keeps trying.
RestoreFails ==
    /\ pc \in {"restart", "restore", "restoreCheck"}
    /\ MovedIfItCan("FAILED")
    /\ Gone(Uncreated(r.prev))
    /\ r' = [r EXCEPT !.creating = FALSE, !.then = "discard",
                      !.drop = IF r.recreate THEN {} ELSE Of(r.prev, r.made)]
    /\ pc' = "dropping"
    /\ UNCHANGED <<completed, replicas, strategy, application, row,
                   agent, override, drains, unready, ended, whole, bounds>>

RolledBack ==
    /\ pc = "rolledBack"
    /\ MovedIfItCan("ROLLED_BACK")
    /\ pc' = "end"
    /\ UNCHANGED <<completed, replicas, strategy, application, row, docker,
                   agent, r, override, drains, unready, ended, ghosts>>

\* cleanupTimeout, the budget of the whole abort, runs out: every further
\* call fails, and only what needs none happens.
AbortExpires ==
    /\ Faults
    /\ \/ pc \in {"rollBack", "awaitDrains", "clear", "restoring", "restart", "restore",
                  "restoreCheck", "discard"}
       \/ pc = "dropping" /\ r.dep # 0
    /\ Gone(Uncreated(r.prev))
    /\ override' = NoOverride
    /\ pc' = "end"
    /\ r' = [r EXCEPT !.creating = FALSE]
    /\ UNCHANGED <<db, agent, drains, unready, ended, whole, bounds>>

----------------------------------------------------------------------------
(* A rollback that the agent's stop cut off.                               *)

ResumeRollback ==
    /\ pc = "resumeRollback"
    /\ LET idle == {i \in r.old : Exists(<<r.prev, i>>) /\ ~Running(<<r.prev, i>>)} IN
        \/ /\ strategy[r.dep] = "recreate"
           /\ r' = [r EXCEPT !.recreate = TRUE, !.stopped = r.old]
           /\ pc' = "rollBack"
           /\ UNCHANGED <<docker, unready>>
        \/ /\ strategy[r.dep] # "recreate" /\ idle = {}
           /\ r' = [r EXCEPT !.unverified = {i \in r.old : Exists(<<r.prev, i>>)}]
           /\ pc' = "rollBack"
           /\ UNCHANGED <<docker, unready>>
        \/ \E c \in Of(r.prev, First(idle)) :
           /\ strategy[r.dep] # "recreate"
           /\ StartNameless(c)
           /\ unready' = unready \cup {c}
           /\ UNCHANGED <<r, pc>>
    /\ UNCHANGED <<db, agent, override, drains, ended, ghosts>>

----------------------------------------------------------------------------

ExecuteStep ==
    \/ ReachBuilding \/ Built \/ ReachStarting \/ LoadPrevious \/ TakeOut \/ StopOld
    \/ PlanBatches \/ BeginBatch \/ Bring \/ CreateReplica \/ RecordReplica \/ StartReplica
    \/ ReachHealthChecking \/ BatchReady \/ Swap \/ Retire \/ RetireStopped
    \/ ReachChecked \/ ReachHealthy \/ Activate \/ Fail

AbortStep ==
    \/ Abort \/ Discard \/ BeginRollback \/ DrainsAwaited \/ Clear \/ BeginRestore
    \/ RestartOld \/ CreateRestored \/ RecordRestored \/ StartRestored \/ Restored
    \/ RestoreFails \/ RolledBack \/ ResumeRollback

EndStep == Sweep \/ Release
=============================================================================
