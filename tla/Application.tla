---------------------------- MODULE Application ----------------------------
(***************************************************************************)
(* One application under the whole engine: deployments (Rollout), the      *)
(* supervisor and the user (Supervision), and the agent itself, which      *)
(* stops at any point and, when it starts again, takes up what it left      *)
(* behind (Recover in operations.go, prepare and survey in resume.go).      *)
(***************************************************************************)
EXTENDS Rollout, Supervision

----------------------------------------------------------------------------
(* The agent stops.                                                        *)

Forgotten ==
    /\ pc' = "idle"
    /\ r' = NoRollout
    /\ override' = NoOverride
    /\ drains' = {}
    /\ unready' = {}
    /\ ended' = {}

\* A crash, a kill, a power cut; and the end of an orderly shutdown, which
\* leaves a deployment that was being executed exactly as it is.
AgentStops ==
    /\ \/ agent = "up" /\ agentStops < MaxStops /\ agentStops' = agentStops + 1
       \/ agent = "closing" /\ UNCHANGED agentStops
    /\ agent' = "down"
    /\ Forgotten
    /\ UNCHANGED <<db, docker, verified, whole, deaths, userOps>>

\* Shutdown cancels everything but an abort, which goes on.
ShutdownBegins ==
    /\ agent = "up" /\ agentStops < MaxStops
    /\ agent' = "closing"
    /\ agentStops' = agentStops + 1
    /\ UNCHANGED <<db, docker, pc, r, override, drains, unready, ended, verified, whole,
                   deaths, userOps>>

----------------------------------------------------------------------------
(* The agent starts.                                                       *)

Interrupted == {d \in Deployments : status[d] \in InFlight}

\* resumable and superseded.
Resumable(d) == Interrupted = {d} /\ ~completed[d] /\ \A e \in Created : e <= d

RollingBack(d) == status[d] \in {"ROLLBACK", "RESTORING"}

\* Before STARTING nothing exists that the deployment could find.
HasReplicas(d) == Progress(status[d]) >= Progress("STARTING")

\* Faulty variant: whatever runs is taken to have been in rotation.
SurveyRunning(d) ==
    LET l == Loaded([NoRollout EXCEPT !.dep = d, !.resumed = TRUE])
        old == {i \in l.old : Exists(<<l.prev, i>>)}
        adopted == {i \in Recorded(d) : Exists(<<d, i>>)}
    IN [l EXCEPT !.old = old, !.fresh = adopted, !.adopted = adopted,
                 !.inService = {i \in adopted : Running(<<d, i>>)},
                 !.retired = l.prev # 0 /\ Wanted(l.prev) \ old # {},
                 !.serving = {c \in l.serving : Exists(c)}, !.surveyed = TRUE]

\* loadPrevious and survey: what exists of the deployment and of the one it
\* replaces.  Carrying the names is having been in rotation.
Survey(d) ==
    LET l == Loaded([NoRollout EXCEPT !.dep = d, !.resumed = TRUE])
        old == {i \in l.old : Exists(<<l.prev, i>>)}
        serving == {c \in l.serving : Exists(c)}
        adopted == {i \in Recorded(d) : Exists(<<d, i>>)}
        inService == {i \in adopted : Running(<<d, i>>) /\ <<d, i>> \in named}
    IN [l EXCEPT !.old = old, !.fresh = adopted, !.adopted = adopted, !.inService = inService,
                 !.retired = l.prev # 0 /\ Wanted(l.prev) \ old # {},
                 !.serving = IF RollingBack(d) THEN serving \cup Of(d, inService) ELSE serving,
                 !.surveyed = TRUE]

\* prepare: the application's routing is taken over before anything else can
\* look at it.
Prepared(d) == IF HasReplicas(d) THEN Survey(d) ELSE [NoRollout EXCEPT !.dep = d, !.resumed = TRUE]

\* Recover.  roll takes up the one deployment in resuming again; the rest of
\* what was in flight has failed, and what belongs neither to it nor to the
\* active deployment leaves in the background.
RecoverWith(resuming, roll) ==
    LET surveyed == {d \in resuming : HasReplicas(d)}
        unrecorded == {c \in Containers : Exists(c) /\ c[1] \in surveyed /\ c \notin row}
        noted == {c \in row : ~Exists(c) /\ (c[1] \in surveyed \/ (surveyed # {} /\ c[1] = active))}
    IN
    /\ agent = "down" /\ agent' = "up"
    /\ status' = [d \in Deployments |->
                    IF d \in Interrupted \ resuming THEN "FAILED" ELSE status[d]]
    /\ completed' = [d \in Deployments |-> completed[d] \/ d \in Created \ resuming]
    /\ row' = row \ noted
    /\ Gone(unrecorded)
    /\ drains' = {c \in Containers : Exists(c) /\ c[1] \notin resuming \cup {active}}
    /\ r' = roll
    /\ override' = IF surveyed = {} THEN NoOverride
                   ELSE [on |-> TRUE, members |-> roll.serving \cup Of(roll.dep, roll.inService)]
    /\ pc' = CASE resuming = {} -> "idle"
               [] \E d \in resuming : RollingBack(d) -> "resumeRollback"
               [] OTHER -> "execute"
    /\ whole' = (surveyed # {} /\ FullCapacity(roll))
    /\ UNCHANGED <<replicas, strategy, application, unready, ended, bounds>>

\* Preparing may fail, and then the deployment has.
Recover ==
    \/ \E d \in Deployments : Resumable(d) /\ RecoverWith({d}, Prepared(d))
    \/ /\ \A d \in Deployments : Resumable(d) => Faults /\ HasReplicas(d)
       /\ RecoverWith({}, NoRollout)

----------------------------------------------------------------------------

RolloutStep ==
    \/ \E n \in Indexes, s \in Strategies : Deploy(n, s)
    \/ ExecuteStep \/ AbortStep \/ AbortExpires \/ EndStep
    \/ \E d \in Deployments : Settle(d)

SupervisionStep ==
    \/ \E c \in Containers : ContainerSupervised(c) \/ ProbePasses(c) \/ ProbesFail(c)
    \/ BeginReconcile \/ ReconcileStep
    \/ Stop \/ Start \/ UserStep

ContainerStep(c) == Exits(c) \/ Dies(c) \/ Disappears(c) \/ DrainStops(c) \/ DrainRemoves(c) \/ DrainEnds(c)

Next ==
    \/ RolloutStep
    \/ SupervisionStep
    \/ SyncTick
    \/ DropNext \/ Dropped
    \/ \E c \in Containers : ContainerStep(c)
    \/ AgentStops \/ ShutdownBegins \/ Recover

Spec == Init /\ [][Next]_vars

\* The engine goes on with what it has begun (a rollout has its deadline, a
\* probe its interval, a drain its grace period), the supervisor ticks, and
\* the service manager starts an agent that is down.  Nothing is assumed of
\* the user, of failures, or of the agent stopping.
Fairness ==
    /\ WF_vars(ExecuteStep)
    /\ WF_vars(AbortStep \/ EndStep \/ DropNext \/ Dropped)
    /\ \A d \in Deployments : WF_vars(Settle(d))
    /\ \A c \in Containers :
        /\ WF_vars(Exits(c)) /\ WF_vars(DrainStops(c)) /\ WF_vars(DrainRemoves(c)) /\ WF_vars(DrainEnds(c))
        /\ WF_vars(ContainerSupervised(c)) /\ WF_vars(ProbePasses(c))
    /\ WF_vars(BeginReconcile) /\ WF_vars(ReconcileStep) /\ WF_vars(UserStep)
    /\ WF_vars(SyncTick)
    /\ WF_vars(agent = "closing" /\ AgentStops) /\ WF_vars(Recover)

FairSpec == Spec /\ Fairness

----------------------------------------------------------------------------
(* Properties.                                                             *)

ExecutePcs == {"execute", "building", "starting", "previous", "takeOut", "stopping", "plan",
               "next", "bring", "create", "started", "check", "swap", "retire", "checked",
               "healthy", "activate"}
AbortPcs == {"abort", "discard", "rollBack", "awaitDrains", "clear", "restoring", "restart",
             "restore", "restoreCheck", "rolledBack", "resumeRollback", "dropping"}
UserPcs == {"userStop", "userStart"}
Pcs == ExecutePcs \cup AbortPcs \cup UserPcs \cup {"idle", "reconcile", "reconciled", "sweep", "end"}

Rollouts ==
    [dep : Deployments \cup {0}, prev : Deployments \cup {0},
     old : SUBSET Indexes, fresh : SUBSET Indexes, serving : SUBSET Containers,
     retired : BOOLEAN, recreate : BOOLEAN, stopped : SUBSET Indexes,
     resumed : BOOLEAN, surveyed : BOOLEAN, adopted : SUBSET Indexes, inService : SUBSET Indexes,
     todo : SUBSET Indexes, extra : SUBSET Indexes, batch : SUBSET Indexes, leaving : SUBSET Indexes,
     missing : SUBSET Indexes, creating : BOOLEAN, made : SUBSET Indexes, unverified : SUBSET Indexes,
     drop : SUBSET Containers, then : {"end", "rolledBack", "restoring", "discard", "idle"},
     outcome : {"end", "rolledBack"}]

TypeOK ==
    /\ status \in [Deployments -> Statuses]
    /\ completed \in [Deployments -> BOOLEAN]
    /\ replicas \in [Deployments -> 0 .. MaxReplicas]
    /\ strategy \in [Deployments -> {"rolling", "recreate"}]
    /\ active \in Deployments \cup {0}
    /\ desired \in {"running", "stopped"}
    /\ row \in SUBSET Containers
    /\ ctr \in [Containers -> {"none", "created", "running", "stopping", "exited"}]
    /\ named \in SUBSET Containers
    /\ agent \in {"up", "closing", "down"}
    /\ pc \in Pcs
    /\ r \in Rollouts
    /\ override \in [on : BOOLEAN, members : SUBSET Containers]
    /\ drains \in SUBSET Containers
    /\ unready \in SUBSET Containers
    /\ ended \in SUBSET Deployments
    /\ verified \in SUBSET Containers
    /\ whole \in BOOLEAN
    /\ agentStops \in Nat /\ deaths \in Nat /\ userOps \in Nat

\* The application's pointer and the one ACTIVE record agree, whatever a
\* commit, a rollback or a recovery was interrupted by: the database never
\* names two versions, and never one that was replaced.
OneActive == \A d \in Deployments : status[d] = "ACTIVE" <=> active = d

\* The records keep what they promise their readers: DeploymentRecord.
Promise == INSTANCE DeploymentRecord
KeepsPromise == Promise!Spec

\* A record in a status of work is worked on: by the holder of the lock, by
\* the settling that follows it, or by the agent that starts next.  And one
\* that is completed is not worked on.
NobodyForgotten ==
    /\ agent # "down" => Interrupted \subseteq {r.dep} \cup ended
    /\ \A d \in Deployments : completed[d] => status[d] \in Settled /\ d # r.dep /\ d \notin ended

Rolling == r.dep # 0 /\ r.prev # 0 /\ strategy[r.dep] = "rolling"

\* Serving capacity never drops below the smaller of the two versions' sizes
\* while a rolling deployment replaces one by the other, provided it found
\* that many and none died on its own.
KeepsCapacity == Rolling /\ whole /\ agent = "up" => Cardinality(Capacity) >= Desired(r)

\* It holds until the commit, resumed or not, and on the way back of a
\* deployment that was not resumed, unless the restore fails.
RestoreFailed == r.retired /\ status[r.dep] = "FAILED"
CapacityKept == pc \in ExecutePcs \/ ~(r.resumed \/ RestoreFailed) => KeepsCapacity

\* At most one container more than the larger version asks for runs while a
\* rolling deployment replaces one by the other ...
NPlusOne ==
    LET larger == IF replicas[r.prev] < replicas[r.dep] THEN replicas[r.dep] ELSE replicas[r.prev]
    IN Rolling /\ agent = "up" => Cardinality({c \in Containers : Running(c)}) <= larger + 1

\* ... which holds until the commit, whatever the agent was interrupted in,
\* and is not asked of the way back.
PeakKept == pc \in ExecutePcs => NPlusOne

\* A rolling deployment takes no more away than it may, and adds no more
\* than it must (swap, nextBatch).
WithinBounds == CapacityKept /\ PeakKept

\* A version that is replaced by "recreate" does not run next to the other.
NeverSideBySide ==
    (\A d \in Created : strategy[d] = "recreate") =>
        \A c, e \in Containers : Running(c) /\ Running(e) => c[1] = e[1]

\* A replica of the version being rolled out is findable only once its
\* process has passed its check.
NamesEarned ==
    r.dep # 0 /\ pc \in ExecutePcs =>
        \A i \in Indexes : <<r.dep, i>> \in named /\ Running(<<r.dep, i>>) => <<r.dep, i>> \in verified

\* Every deployment that was begun is completed.
DeploymentsComplete == \A d \in Deployments : (status[d] # "none") ~> completed[d]

\* The application comes to rest as it is meant to be: every replica of the
\* active deployment runs and is found, and no other container is left.  (An
\* agent that stops may leave a container nobody has recorded.)
AsMeant ==
    active # 0 /\ desired = "running" =>
        /\ \A c \in Containers : Exists(c) <=> c \in Of(active, Wanted(active))
        /\ \A c \in Of(active, Wanted(active)) : c \in Capacity
Converges == <>[](agentStops = 0 => AsMeant)
=============================================================================
