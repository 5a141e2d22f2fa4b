------------------------- MODULE ApplicationProofs -------------------------
(***************************************************************************)
(* The records of an application, for any number of deployments, replicas, *)
(* stops of the agent and failures: the database names one active version, *)
(* no deployment is orphaned, and Application implements DeploymentRecord.  *)
(* And who is findable while a version is rolled out: a replica carries the *)
(* application's names only once its process has passed its check, unless   *)
(* the rollout is one that a restarted agent took up again.                 *)
(***************************************************************************)
EXTENDS Application, TLAPS

\* Where the holder of the lock has a deployment, and where it has none.
WorkPcs == ExecutePcs \cup (AbortPcs \ {"dropping"}) \cup {"sweep", "end"}
Working == pc \in WorkPcs \/ (pc = "dropping" /\ r.then # "idle")

RecordsTyped ==
    /\ status \in [Deployments -> Statuses]
    /\ completed \in [Deployments -> BOOLEAN]
    /\ active \in Deployments \cup {0}
    /\ ended \in SUBSET Deployments

\* Who holds the lock has the deployment that its program counter says, and
\* a stopped agent holds nothing.
InCharge ==
    /\ {"dep", "then", "outcome"} \subseteq DOMAIN r
    /\ r.then \in {"end", "rolledBack", "restoring", "discard", "idle"}
    /\ r.outcome \in {"end", "rolledBack"}
    /\ pc \in Pcs
    /\ r.dep \in IF Working THEN Deployments ELSE {0}
    /\ agent = "down" => pc = "idle" /\ ended = {}

\* A deployment that is worked on, or waits to be settled, is made and not
\* completed; the two never meet.
Unfinished ==
    /\ r.dep # 0 => r.dep \notin ended /\ ~completed[r.dep] /\ status[r.dep] # "none"
    /\ \A d \in ended : ~completed[d] /\ status[d] # "none"

\* What is completed has ended, and what has not ended is somebody's.
Accounted ==
    /\ \A d \in Deployments : completed[d] => status[d] \in Settled
    /\ agent # "down" => Interrupted \subseteq {r.dep} \cup ended

RecordInv == RecordsTyped /\ InCharge /\ Unfinished /\ Accounted /\ OneActive

----------------------------------------------------------------------------
(* Steps that leave the records alone: whoever holds the lock goes from one *)
(* place of its program to another with the same deployment.                *)

Quiet ==
    /\ UNCHANGED <<status, completed, active, ended, agent>>
    /\ r'.dep = r.dep
    /\ InCharge'

\* Nothing in RecordInv but the place of the holder changes in such a step.
LEMMA QuietKeepsRecords == RecordInv /\ Quiet => RecordInv'
<1> SUFFICES ASSUME RecordInv, Quiet PROVE RecordInv'
  OBVIOUS
<1>1. RecordsTyped' /\ OneActive'
  BY DEF RecordInv, RecordsTyped, OneActive, Quiet
<1>2. Unfinished' /\ Accounted'
  BY DEF RecordInv, Unfinished, Accounted, Interrupted, Quiet
<1> QED BY <1>1, <1>2 DEF RecordInv, Quiet

\* Every place of the program, spelled out.
LEMMA ExecuteIsQuiet ==
    RecordInv /\ (\/ Built \/ LoadPrevious \/ TakeOut \/ StopOld \/ PlanBatches \/ BeginBatch
                  \/ Bring \/ CreateReplica \/ RecordReplica \/ StartReplica \/ BatchReady
                  \/ Swap \/ Retire \/ RetireStopped \/ Fail)
    => Quiet
<1> SUFFICES ASSUME RecordInv,
                    \/ Built \/ LoadPrevious \/ TakeOut \/ StopOld \/ PlanBatches \/ BeginBatch
                    \/ Bring \/ CreateReplica \/ RecordReplica \/ StartReplica \/ BatchReady
                    \/ Swap \/ Retire \/ RetireStopped \/ Fail
             PROVE  Quiet
  OBVIOUS
<1> USE DEF RecordInv, Quiet, InCharge, Working, WorkPcs, ExecutePcs, AbortPcs, UserPcs, Pcs,
            db, records, application, docker, memory, ghosts, bounds
<1>1. CASE Built
  BY <1>1 DEF Built
<1>2. CASE LoadPrevious
  BY <1>2 DEF LoadPrevious, Loaded
<1>3. CASE TakeOut
  BY <1>3 DEF TakeOut
<1>4. CASE StopOld
  BY <1>4 DEF StopOld
<1>5. CASE PlanBatches
  BY <1>5 DEF PlanBatches
<1>6. CASE BeginBatch
  BY <1>6 DEF BeginBatch
<1>7. CASE Bring
  BY <1>7 DEF Bring
<1>8. CASE CreateReplica
  BY <1>8 DEF CreateReplica, CreateFor, CreateContainer
<1>9. CASE RecordReplica
  BY <1>9 DEF RecordReplica, RecordFor
<1>10. CASE StartReplica
  BY <1>10 DEF StartReplica, StartFor
<1>11. CASE BatchReady
  BY <1>11 DEF BatchReady, AwaitHealthy
<1>12. CASE Swap
  BY <1>12 DEF Swap
<1>13. CASE Retire
  BY <1>13 DEF Retire, AfterSwap
<1>14. CASE RetireStopped
  BY <1>14 DEF RetireStopped, AfterSwap
<1>15. CASE Fail
  BY <1>15 DEF Fail, MayFail
<1> QED BY <1>1, <1>2, <1>3, <1>4, <1>5, <1>6, <1>7, <1>8, <1>9, <1>10, <1>11, <1>12, <1>13,
           <1>14, <1>15

\* The way back, as far as it writes no record.
LEMMA AbortIsQuiet ==
    RecordInv /\ (\/ Discard \/ DrainsAwaited \/ Clear \/ RestartOld
                  \/ CreateRestored \/ RecordRestored \/ StartRestored \/ Restored
                  \/ AbortExpires \/ ResumeRollback \/ Sweep \/ DropNext \/ Dropped)
    => Quiet
<1> SUFFICES ASSUME RecordInv,
                    \/ Discard \/ DrainsAwaited \/ Clear \/ RestartOld
                    \/ CreateRestored \/ RecordRestored \/ StartRestored \/ Restored
                    \/ AbortExpires \/ ResumeRollback \/ Sweep \/ DropNext \/ Dropped
             PROVE  Quiet
  OBVIOUS
<1> USE DEF RecordInv, Quiet, InCharge, Working, WorkPcs, ExecutePcs, AbortPcs, UserPcs, Pcs,
            db, records, application, docker, memory, ghosts, bounds
<1>1. CASE Discard
  BY <1>1 DEF Discard
<1>2. CASE DrainsAwaited
  BY <1>2 DEF DrainsAwaited
<1>3. CASE Clear
  BY <1>3 DEF Clear
<1>4. CASE RestartOld
  BY <1>4 DEF RestartOld
<1>5. CASE CreateRestored
  BY <1>5 DEF CreateRestored, CreateFor, CreateContainer
<1>6. CASE RecordRestored
  BY <1>6 DEF RecordRestored, RecordFor
<1>7. CASE StartRestored
  BY <1>7 DEF StartRestored, StartFor
<1>8. CASE Restored
  BY <1>8 DEF Restored, AwaitHealthy
<1>9. CASE AbortExpires
  BY <1>9 DEF AbortExpires
<1>10. CASE ResumeRollback
  BY <1>10 DEF ResumeRollback
<1>11. CASE Sweep
  BY <1>11 DEF Sweep, Remove
<1>12. CASE DropNext
  BY <1>12 DEF DropNext, Remove
<1>13. CASE Dropped
  BY <1>13 DEF Dropped, NoRollout
<1> QED BY <1>1, <1>2, <1>3, <1>4, <1>5, <1>6, <1>7, <1>8, <1>9, <1>10, <1>11, <1>12, <1>13

\* The supervisor and the user write no record of a deployment.
LEMMA SupervisionIsQuiet ==
    RecordInv /\ (\/ (\E c \in Containers : ContainerSupervised(c))
                  \/ (\E c \in Containers : ProbePasses(c) \/ ProbesFail(c))
                  \/ BeginReconcile \/ CreateReconciled \/ RecordReconciled
                  \/ StartReconciled \/ Reconciled \/ ReconcileFails \/ Stop \/ Start
                  \/ (\E i \in Indexes : StopReplica(i)) \/ StartStopped \/ Started
                  \/ UserOpEnds)
    => Quiet
<1> SUFFICES ASSUME RecordInv,
                    \/ (\E c \in Containers : ContainerSupervised(c))
                    \/ (\E c \in Containers : ProbePasses(c) \/ ProbesFail(c))
                    \/ BeginReconcile \/ CreateReconciled \/ RecordReconciled
                    \/ StartReconciled \/ Reconciled \/ ReconcileFails \/ Stop
                    \/ Start \/ (\E i \in Indexes : StopReplica(i)) \/ StartStopped
                    \/ Started \/ UserOpEnds
             PROVE  Quiet
  OBVIOUS
<1> USE DEF RecordInv, Quiet, InCharge, Working, WorkPcs, ExecutePcs, AbortPcs, UserPcs, Pcs,
            db, records, application, docker, memory, ghosts, bounds
<1>1. CASE (\E c \in Containers : ContainerSupervised(c))
  BY <1>1 DEF ContainerSupervised, RetireLeftover, NoteDisappeared, RestartDown,
              RestartUnhealthy, Supervises
<1>2. CASE (\E c \in Containers : ProbePasses(c) \/ ProbesFail(c))
  BY <1>2 DEF ProbePasses, ProbesFail
<1>3. CASE BeginReconcile
  BY <1>3 DEF BeginReconcile, Supervises, NoRollout
<1>4. CASE CreateReconciled
  BY <1>4 DEF CreateReconciled, CreateFor, CreateContainer
<1>5. CASE RecordReconciled
  BY <1>5 DEF RecordReconciled, RecordFor
<1>6. CASE StartReconciled
  BY <1>6 DEF StartReconciled, StartFor
<1>7. CASE Reconciled
  BY <1>7 DEF Reconciled, NoRollout
<1>8. CASE ReconcileFails
  BY <1>8 DEF ReconcileFails
<1>9. CASE Stop
  BY <1>9 DEF Stop, NoRollout
<1>10. CASE Start
  BY <1>10 DEF Start, NoRollout
<1>11. CASE (\E i \in Indexes : StopReplica(i))
  BY <1>11 DEF StopReplica
<1>12. CASE StartStopped
  BY <1>12 DEF StartStopped
<1>13. CASE Started
  BY <1>13 DEF Started, NoRollout
<1>14. CASE UserOpEnds
  BY <1>14 DEF UserOpEnds, NoRollout
<1> QED BY <1>1, <1>2, <1>3, <1>4, <1>5, <1>6, <1>7, <1>8, <1>9, <1>10, <1>11, <1>12, <1>13,
           <1>14

\* Nor do containers, drains and routing.
LEMMA OutsideIsQuiet ==
    RecordInv /\ (\/ (\E c \in Containers : ContainerStep(c)) \/ SyncTick
                  \/ UNCHANGED vars)
    => Quiet
<1> SUFFICES ASSUME RecordInv,
                    \/ (\E c \in Containers : ContainerStep(c)) \/ SyncTick
                    \/ UNCHANGED vars
             PROVE  Quiet
  OBVIOUS
<1> USE DEF RecordInv, Quiet, InCharge, Working, WorkPcs, ExecutePcs, AbortPcs, UserPcs, Pcs,
            db, records, application, docker, memory, ghosts, bounds
<1>1. CASE (\E c \in Containers : ContainerStep(c))
  BY <1>1 DEF ContainerStep, Exits, Dies, Disappears, DrainStops, DrainRemoves, DrainEnds
<1>2. CASE SyncTick
  BY <1>2 DEF SyncTick
<1>3. CASE UNCHANGED vars
  BY <1>3 DEF vars
<1> QED BY <1>1, <1>2, <1>3

----------------------------------------------------------------------------
(* Steps that write a record.                                              *)

Moves == {"BUILDING", "STARTING", "HEALTH_CHECKING", "HEALTHY", "FAILED",
          "ROLLBACK", "RESTORING", "ROLLED_BACK"}

\* The record of the deployment in charge moves, if at all, along the state
\* machine.
Advances ==
    /\ r.dep \in Deployments
    /\ UNCHANGED status \/ \E to \in Moves : Moved(to)
    /\ UNCHANGED <<completed, active, ended, agent>>
    /\ r'.dep = r.dep
    /\ InCharge'

\* Every write of a status by a rollout is such a move.
LEMMA RolloutAdvances ==
    RecordInv /\ (\/ ReachBuilding \/ ReachStarting \/ ReachHealthChecking \/ ReachChecked
                  \/ ReachHealthy \/ Abort \/ BeginRollback \/ BeginRestore \/ RestoreFails
                  \/ RolledBack)
    => Advances
<1> SUFFICES ASSUME RecordInv,
                    \/ ReachBuilding \/ ReachStarting \/ ReachHealthChecking \/ ReachChecked
                    \/ ReachHealthy \/ Abort \/ BeginRollback \/ BeginRestore \/ RestoreFails
                    \/ RolledBack
             PROVE  Advances
  OBVIOUS
<1> USE DEF RecordInv, Advances, Moves, InCharge, Working, WorkPcs, ExecutePcs, AbortPcs, UserPcs,
            Pcs, db, records, application, docker, memory, ghosts, bounds
<1>1. CASE ReachBuilding \/ ReachStarting \/ ReachHealthChecking \/ ReachChecked \/ ReachHealthy
  BY <1>1 DEF ReachBuilding, ReachStarting, ReachHealthChecking, ReachChecked, ReachHealthy, Reach
<1>2. CASE Abort
  BY <1>2 DEF Abort, MovedIfItCan
<1>3. CASE BeginRollback
  BY <1>3 DEF BeginRollback
<1>4. CASE BeginRestore
  BY <1>4 DEF BeginRestore, MovedIfItCan
<1>5. CASE RestoreFails
  BY <1>5 DEF RestoreFails, MovedIfItCan
<1>6. CASE RolledBack
  BY <1>6 DEF RolledBack, MovedIfItCan
<1> QED BY <1>1, <1>2, <1>3, <1>4, <1>5, <1>6

\* Such a move neither finishes a deployment nor touches the active one.
LEMMA AdvanceKeepsRecords == RecordInv /\ Advances => RecordInv'
<1> SUFFICES ASSUME RecordInv, Advances PROVE RecordInv'
  OBVIOUS
<1>1. CASE UNCHANGED status
  <2>1. Quiet
    BY <1>1 DEF Advances, Quiet
  <2> QED BY <2>1, QuietKeepsRecords
<1>2. ASSUME NEW to \in Moves, Moved(to) PROVE RecordInv'
  <2>1. status[r.dep] \notin {"none", "ACTIVE"} /\ to \in Statuses \ {"none", "ACTIVE"}
    BY <1>2 DEF Moved, Transitions, Moves, Statuses, Settled, InFlight
  <2>2. RecordsTyped'
    BY <1>2, <2>1 DEF RecordInv, RecordsTyped, Advances, Moved
  <2>3. OneActive'
    BY <1>2, <2>1 DEF RecordInv, RecordsTyped, OneActive, Advances, Moved
  <2>4. Unfinished'
    BY <1>2, <2>1 DEF RecordInv, RecordsTyped, Unfinished, Advances, Moved
  <2>5. Accounted'
    <3>1. r.dep # 0
      BY ConstantsAssumption DEF Advances, Deployments
    <3>2. \A d \in Deployments \ {r.dep} : status'[d] = status[d]
      BY <1>2 DEF RecordInv, RecordsTyped, Moved
    <3>3. ~completed[r.dep] /\ completed' = completed /\ ended' = ended /\ r'.dep = r.dep /\ agent' = agent
      BY <3>1 DEF RecordInv, Unfinished, Advances
    <3> QED BY <3>2, <3>3 DEF RecordInv, Accounted, Interrupted
  <2> QED BY <2>2, <2>3, <2>4, <2>5 DEF RecordInv, Advances
<1> QED BY <1>1, <1>2 DEF Advances

\* A new deployment: nobody held the lock, so nobody is in charge of another.
LEMMA DeployKeepsRecords ==
    ASSUME NEW n \in Indexes, NEW s \in Strategies
    PROVE  RecordInv /\ Deploy(n, s) => RecordInv'
<1> SUFFICES ASSUME RecordInv, Deploy(n, s) PROVE RecordInv'
  OBVIOUS
<1>1. PICK d \in Deployments :
        /\ Created = 1 .. d - 1
        /\ status' = [status EXCEPT ![d] = "PENDING"]
        /\ r' = [NoRollout EXCEPT !.dep = d]
  BY DEF Deploy
<1>2. /\ d # 0 /\ 0 \notin Deployments /\ d \notin Created
      /\ pc = "idle" /\ agent = "up" /\ pc' = "execute" /\ r.dep = 0
      /\ UNCHANGED <<completed, active, ended, agent>>
  BY <1>1, ConstantsAssumption
     DEF Deploy, RecordInv, InCharge, Working, WorkPcs, ExecutePcs, AbortPcs, application, Deployments
<1>3. status[d] = "none" /\ active # d /\ d \notin ended
  BY <1>1, <1>2 DEF Created, RecordInv, OneActive, Unfinished
<1>4. ~completed[d]
  BY <1>3 DEF RecordInv, Accounted, Settled
<1>5. RecordsTyped'
  BY <1>1, <1>2 DEF RecordInv, RecordsTyped, Statuses, InFlight
<1>6. InCharge'
  BY <1>1, <1>2 DEF InCharge, Working, WorkPcs, ExecutePcs, Pcs, NoRollout
<1>7. r'.dep = d
  BY <1>1 DEF NoRollout
<1>8. \A e \in Deployments \ {d} : status'[e] = status[e]
  BY <1>1 DEF RecordInv, RecordsTyped
<1>9. status'[d] = "PENDING"
  BY <1>1 DEF RecordInv, RecordsTyped
<1>10. OneActive'
  BY <1>2, <1>3, <1>8, <1>9 DEF RecordInv, OneActive
<1>11. Unfinished'
  BY <1>2, <1>3, <1>4, <1>7, <1>8, <1>9 DEF RecordInv, Unfinished, RecordsTyped
<1>12. Accounted'
  BY <1>2, <1>4, <1>7, <1>8 DEF RecordInv, Accounted, Interrupted
<1> QED BY <1>5, <1>6, <1>10, <1>11, <1>12 DEF RecordInv

\* The commit: what was active is superseded, and what was healthy is active.
LEMMA ActivateKeepsRecords == RecordInv /\ Activate => RecordInv'
<1> SUFFICES ASSUME RecordInv, Activate PROVE RecordInv'
  OBVIOUS
<1>1. /\ r.dep \in Deployments /\ r.dep # 0 /\ status[r.dep] = "HEALTHY"
      /\ active' = r.dep /\ pc = "activate" /\ pc' = "sweep"
      /\ UNCHANGED <<completed, ended, agent, r>>
  BY ConstantsAssumption
     DEF Activate, RecordInv, InCharge, Working, WorkPcs, ExecutePcs, Deployments
<1>2. \A d \in Deployments :
        status'[d] = IF d = r.dep THEN "ACTIVE"
                     ELSE IF status[d] = "ACTIVE" THEN "SUPERSEDED" ELSE status[d]
  BY DEF Activate, RecordInv, OneActive
<1>3. status' \in [Deployments -> Statuses]
  <2>1. status' = [d \in Deployments |-> status'[d]]
    BY DEF Activate
  <2> QED BY <1>2, <2>1 DEF RecordInv, RecordsTyped, Statuses, Settled
<1>4. RecordsTyped'
  BY <1>1, <1>3 DEF RecordInv, RecordsTyped
<1>5. InCharge'
  BY <1>1 DEF RecordInv, InCharge, Working, WorkPcs, ExecutePcs, AbortPcs, Pcs
<1>6. OneActive'
  BY <1>1, <1>2 DEF RecordInv, OneActive
<1>7. Unfinished'
  BY <1>1, <1>2 DEF RecordInv, RecordsTyped, Unfinished
<1>8. Accounted'
  BY <1>1, <1>2 DEF RecordInv, Unfinished, Accounted, Interrupted, Settled, InFlight
<1> QED BY <1>4, <1>5, <1>6, <1>7, <1>8 DEF RecordInv

\* The lock goes, and the deployment is handed to its settling.
LEMMA ReleaseKeepsRecords == RecordInv /\ Release => RecordInv'
<1> SUFFICES ASSUME RecordInv, Release PROVE RecordInv'
  OBVIOUS
<1>1. /\ r.dep \in Deployments /\ r.dep # 0 /\ agent # "down"
      /\ pc' = "idle" /\ r' = NoRollout /\ r'.dep = 0 /\ ended' = ended \cup {r.dep}
      /\ UNCHANGED <<status, completed, active, agent>>
  BY ConstantsAssumption
     DEF Release, RecordInv, InCharge, Working, WorkPcs, Deployments, NoRollout, db, records, application
<1>2. RecordsTyped' /\ OneActive'
  BY <1>1 DEF RecordInv, RecordsTyped, OneActive
<1>3. InCharge'
  BY <1>1 DEF InCharge, Working, WorkPcs, ExecutePcs, AbortPcs, Pcs, NoRollout
<1>4. Unfinished'
  BY <1>1 DEF RecordInv, Unfinished
<1>5. Accounted'
  BY <1>1 DEF RecordInv, Accounted, Interrupted
<1> QED BY <1>2, <1>3, <1>4, <1>5 DEF RecordInv

\* The end is written, whoever holds the lock by then.
LEMMA SettleKeepsRecords ==
    ASSUME NEW d \in Deployments
    PROVE  RecordInv /\ Settle(d) => RecordInv'
<1> SUFFICES ASSUME RecordInv, Settle(d) PROVE RecordInv'
  OBVIOUS
<1>1. /\ d \in ended /\ ended' = ended \ {d}
      /\ status' = [status EXCEPT ![d] = IF status[d] \in Settled THEN status[d] ELSE "FAILED"]
      /\ completed' = [completed EXCEPT ![d] = TRUE]
      /\ UNCHANGED <<active, agent, pc, r>>
  BY DEF Settle, application
<1>2. \A e \in Deployments : e # d => status'[e] = status[e] /\ completed'[e] = completed[e]
  BY <1>1 DEF RecordInv, RecordsTyped
<1>3. status'[d] = IF status[d] \in Settled THEN status[d] ELSE "FAILED"
  BY <1>1 DEF RecordInv, RecordsTyped
<1>4. status'[d] \in Settled
  BY <1>3 DEF Settled
<1>5. status' \in [Deployments -> Statuses] /\ completed' \in [Deployments -> BOOLEAN]
  BY <1>1 DEF RecordInv, RecordsTyped, Statuses, Settled
<1>6. RecordsTyped'
  BY <1>1, <1>5 DEF RecordInv, RecordsTyped
<1>7. InCharge'
  BY <1>1 DEF RecordInv, InCharge, Working
<1>8. OneActive'
  BY <1>1, <1>2, <1>3 DEF RecordInv, OneActive, Settled
<1>9. d # r.dep
  BY <1>1, ConstantsAssumption DEF RecordInv, Unfinished, Deployments
<1>10. r.dep \in Deployments \cup {0}
  BY DEF RecordInv, InCharge
<1>11. Unfinished'
  BY <1>1, <1>2, <1>9, <1>10 DEF RecordInv, RecordsTyped, Unfinished
<1>12. Accounted'
  BY <1>1, <1>2, <1>4 DEF RecordInv, Accounted, Interrupted, Settled, InFlight
<1> QED BY <1>6, <1>7, <1>8, <1>11, <1>12 DEF RecordInv

\* The agent stops, or begins to: what it held is gone, the records are not.
LEMMA StopKeepsRecords == RecordInv /\ (AgentStops \/ ShutdownBegins) => RecordInv'
<1> SUFFICES ASSUME RecordInv, AgentStops \/ ShutdownBegins PROVE RecordInv'
  OBVIOUS
<1>1. UNCHANGED <<status, completed, active>>
  BY DEF AgentStops, ShutdownBegins, db, records, application
<1>2. CASE AgentStops
  <2>1. agent' = "down" /\ pc' = "idle" /\ ended' = {} /\ r' = NoRollout /\ r'.dep = 0
    BY <1>2 DEF AgentStops, Forgotten, NoRollout
  <2>2. InCharge'
    BY <2>1 DEF InCharge, Working, WorkPcs, ExecutePcs, AbortPcs, Pcs, NoRollout
  <2>3. Accounted' /\ Unfinished'
    BY <1>1, <2>1 DEF RecordInv, Accounted, Unfinished
  <2> QED BY <1>1, <2>1, <2>2, <2>3 DEF RecordInv, RecordsTyped, OneActive
<1>3. CASE ShutdownBegins
  <2>1. agent # "down" /\ agent' # "down" /\ UNCHANGED <<pc, r, ended>>
    BY <1>3 DEF ShutdownBegins
  <2> QED BY <1>1, <2>1 DEF RecordInv, RecordsTyped, OneActive, InCharge, Working, Unfinished,
                            Accounted, Interrupted
<1> QED BY <1>2, <1>3

\* What is taken up again is the deployment it was.
LEMMA PreparedKeepsDeployment ==
    ASSUME NEW d \in Deployments
    PROVE  /\ {"dep", "then", "outcome"} \subseteq DOMAIN Prepared(d)
           /\ Prepared(d).dep = d /\ Prepared(d).then = "end" /\ Prepared(d).outcome = "end"
<1> DEFINE fresh == [NoRollout EXCEPT !.dep = d, !.resumed = TRUE]
<1>1. /\ {"dep", "then", "outcome"} \subseteq DOMAIN fresh
      /\ fresh.dep = d /\ fresh.then = "end" /\ fresh.outcome = "end"
  BY DEF NoRollout
<1>2. /\ {"dep", "then", "outcome"} \subseteq DOMAIN Loaded(fresh)
      /\ Loaded(fresh).dep = d /\ Loaded(fresh).then = "end" /\ Loaded(fresh).outcome = "end"
  <2> HIDE DEF fresh
  <2> QED BY <1>1 DEF Loaded
<1>3. /\ {"dep", "then", "outcome"} \subseteq DOMAIN Survey(d)
      /\ Survey(d).dep = d /\ Survey(d).then = "end" /\ Survey(d).outcome = "end"
  <2> DEFINE l == Loaded(fresh)
  <2>1. /\ {"dep", "then", "outcome"} \subseteq DOMAIN l
        /\ l.dep = d /\ l.then = "end" /\ l.outcome = "end"
    BY <1>2
  <2>2. \A x1, x2, x3, x4, x5, x6 :
          LET s == [l EXCEPT !.old = x1, !.fresh = x2, !.adopted = x2, !.inService = x3,
                             !.retired = x4, !.serving = x5, !.surveyed = x6]
          IN /\ {"dep", "then", "outcome"} \subseteq DOMAIN s
             /\ s.dep = d /\ s.then = "end" /\ s.outcome = "end"
    <3> HIDE DEF l
    <3> QED BY <2>1
  <2> QED BY <2>2 DEF Survey
<1> QED BY <1>1, <1>3 DEF Prepared

\* The next agent: what it takes up it is in charge of, and the rest of what
\* it finds has ended.
LEMMA RecoverKeepsRecords == RecordInv /\ Recover => RecordInv'
<1> SUFFICES ASSUME RecordInv, Recover PROVE RecordInv'
  OBVIOUS
<1>1. PICK resuming \in SUBSET Deployments,
           roll \in {NoRollout} \cup {Prepared(d) : d \in Deployments} :
        /\ RecoverWith(resuming, roll)
        /\ \/ resuming = {} /\ roll = NoRollout
           \/ \E d \in Deployments : resuming = {d} /\ Resumable(d) /\ roll = Prepared(d)
  BY DEF Recover
<1>2. /\ agent = "down" /\ agent' = "up" /\ ended' = ended /\ ended = {} /\ active' = active
      /\ r' = roll
      /\ status' = [d \in Deployments |->
                      IF d \in Interrupted \ resuming THEN "FAILED" ELSE status[d]]
      /\ completed' = [d \in Deployments |-> completed[d] \/ d \in Created \ resuming]
      /\ pc' = CASE resuming = {} -> "idle"
                 [] \E d \in resuming : RollingBack(d) -> "resumeRollback"
                 [] OTHER -> "execute"
  BY <1>1 DEF RecoverWith, RecordInv, InCharge, application
<1>3. \A d \in Deployments :
        /\ status'[d] = IF d \in Interrupted \ resuming THEN "FAILED" ELSE status[d]
        /\ completed'[d] = (completed[d] \/ d \in Created \ resuming)
  BY <1>2
<1>4. RecordsTyped'
  BY <1>2 DEF RecordInv, RecordsTyped, Statuses, Settled
<1>5. OneActive'
  BY <1>2, <1>3 DEF RecordInv, OneActive, Interrupted, InFlight
<1>6. \A d \in Deployments : d \notin resuming /\ completed'[d] => status'[d] \in Settled
  BY <1>3 DEF RecordInv, RecordsTyped, Accounted, Created, Interrupted, Statuses, Settled
<1>7. CASE resuming = {} /\ roll = NoRollout
  <2>1. InCharge'
    BY <1>2, <1>7 DEF InCharge, Working, WorkPcs, ExecutePcs, AbortPcs, Pcs, NoRollout
  <2>2. r'.dep = 0
    BY <1>2, <1>7 DEF NoRollout
  <2>3. Unfinished'
    BY <1>2, <2>2 DEF Unfinished
  <2>4. Accounted'
    BY <1>2, <1>3, <1>6, <1>7 DEF Accounted, Interrupted, InFlight
  <2> QED BY <1>4, <1>5, <2>1, <2>3, <2>4 DEF RecordInv
<1>8. ASSUME NEW d \in Deployments, resuming = {d}, Resumable(d), roll = Prepared(d)
      PROVE  RecordInv'
  <2>1. r'.dep = d /\ d # 0
    BY <1>2, <1>8, PreparedKeepsDeployment, ConstantsAssumption DEF Deployments
  <2>2. pc' \in {"execute", "resumeRollback"}
    BY <1>2, <1>8
  <2>3. InCharge'
    BY <1>2, <1>8, <2>1, <2>2, PreparedKeepsDeployment
       DEF InCharge, Working, WorkPcs, ExecutePcs, AbortPcs, Pcs
  <2>4. ~completed'[d] /\ status'[d] \in InFlight
    BY <1>3, <1>8 DEF Resumable, Interrupted
  <2>5. Unfinished'
    BY <1>2, <2>1, <2>4 DEF Unfinished, InFlight
  <2>6. Accounted'
    BY <1>2, <1>3, <1>6, <1>8, <2>1, <2>4 DEF Accounted, Interrupted, InFlight
  <2> QED BY <1>4, <1>5, <2>3, <2>5, <2>6 DEF RecordInv
<1> QED BY <1>1, <1>7, <1>8

----------------------------------------------------------------------------
(* All steps.                                                              *)

\* Every step is one of these.
LEMMA StepKinds ==
    RecordInv /\ [Next]_vars =>
        \/ Quiet \/ Advances
        \/ \E n \in Indexes, s \in Strategies : Deploy(n, s)
        \/ Activate \/ Release \/ \E d \in Deployments : Settle(d)
        \/ AgentStops \/ ShutdownBegins \/ Recover
<1> SUFFICES ASSUME RecordInv, [Next]_vars
             PROVE  \/ Quiet \/ Advances
                    \/ \E n \in Indexes, s \in Strategies : Deploy(n, s)
                    \/ Activate \/ Release \/ \E d \in Deployments : Settle(d)
                    \/ AgentStops \/ ShutdownBegins \/ Recover
  OBVIOUS
<1>1. CASE ExecuteStep
  BY <1>1, ExecuteIsQuiet, RolloutAdvances DEF ExecuteStep
<1>2. CASE AbortStep \/ AbortExpires \/ EndStep \/ DropNext \/ Dropped
  BY <1>2, AbortIsQuiet, RolloutAdvances DEF AbortStep, EndStep
<1>3. CASE SupervisionStep
  BY <1>3, SupervisionIsQuiet DEF SupervisionStep, ReconcileStep, UserStep
<1>4. CASE SyncTick \/ (\E c \in Containers : ContainerStep(c)) \/ UNCHANGED vars
  BY <1>4, OutsideIsQuiet
<1> QED BY <1>1, <1>2, <1>3, <1>4 DEF Next, RolloutStep

\* The inductive invariant holds at first ...
LEMMA RecordInvFirst == Init => RecordInv
<1> SUFFICES ASSUME Init PROVE RecordInv
  OBVIOUS
<1>1. 0 \notin Deployments /\ r.dep = 0 /\ agent = "up" /\ pc = "idle"
  BY ConstantsAssumption DEF Init, Deployments, NoRollout
<1>2. RecordsTyped
  BY DEF Init, RecordsTyped, Statuses
<1>3. InCharge
  BY <1>1 DEF Init, InCharge, Working, WorkPcs, ExecutePcs, AbortPcs, Pcs, NoRollout
<1>4. Unfinished /\ Accounted /\ OneActive
  BY <1>1 DEF Init, Unfinished, Accounted, OneActive, Interrupted, InFlight
<1> QED BY <1>2, <1>3, <1>4 DEF RecordInv

\* ... and whatever is interrupted by whatever.
LEMMA RecordInvNext == RecordInv /\ [Next]_vars => RecordInv'
  BY StepKinds, QuietKeepsRecords, AdvanceKeepsRecords, DeployKeepsRecords, ActivateKeepsRecords,
     ReleaseKeepsRecords, SettleKeepsRecords, StopKeepsRecords, RecoverKeepsRecords

LEMMA RecordInvHolds == Spec => []RecordInv
  BY RecordInvFirst, RecordInvNext, PTL DEF Spec

\* The database names one active version, and it is the one whose record says
\* so, whatever a commit, a rollback or a recovery was interrupted by.
THEOREM ActiveIsOne == Spec => []OneActive
<1>1. RecordInv => OneActive
  BY DEF RecordInv
<1> QED BY <1>1, RecordInvHolds, PTL

\* A deployment in a status of work is worked on, settled next, or found by
\* the next agent; a completed one is none of these.
THEOREM NoneForgotten == Spec => []NobodyForgotten
<1>1. RecordInv => NobodyForgotten
  BY ConstantsAssumption
     DEF RecordInv, Accounted, Unfinished, NobodyForgotten, InCharge, Deployments
<1> QED BY <1>1, RecordInvHolds, PTL

\* Application implements DeploymentRecord: for whoever reads the records, a
\* deployment moves along the state machine, the pointer moves at a commit
\* and never otherwise, and what is completed stays as it is.
THEOREM RecordsKeepPromise == Spec => KeepsPromise
<1>1. Init => Promise!Init
  BY DEF Init, Promise!Init, Promise!Records, Deployments
<1>2. RecordInv /\ [Next]_vars => [Promise!Next]_(Promise!recordVars)
  <2> SUFFICES ASSUME RecordInv, [Next]_vars PROVE [Promise!Next]_(Promise!recordVars)
    OBVIOUS
  <2>0. Promise!Records = Deployments
    BY DEF Promise!Records, Deployments
  <2>1. CASE Quiet \/ Release \/ AgentStops \/ ShutdownBegins
    BY <2>1 DEF Quiet, Release, AgentStops, ShutdownBegins, Promise!recordVars, db, records, application
  <2>2. CASE Advances
    <3>1. CASE UNCHANGED status
      BY <2>2, <3>1 DEF Advances, Promise!recordVars
    <3>2. ASSUME NEW to \in Moves, Moved(to) PROVE Promise!Next
      <4>1. <<status[r.dep], to>> \in Promise!Steps
        BY <3>2 DEF Moves, Moved, Transitions, Promise!Steps, Promise!InWork
      <4>2. r.dep \in Deployments /\ ~completed[r.dep]
        BY <2>2, ConstantsAssumption DEF Advances, RecordInv, Unfinished, Deployments
      <4>3. Promise!Move(r.dep, to)
        BY <2>2, <3>2, <4>1, <4>2 DEF Promise!Move, Advances, Moved
      <4> QED BY <2>0, <4>2, <4>3 DEF Promise!Next, Moves
    <3> QED BY <2>2, <3>1, <3>2 DEF Advances
  <2>3. ASSUME NEW n \in Indexes, NEW s \in Strategies, Deploy(n, s) PROVE Promise!Next
    <3>1. PICK d \in Deployments :
            Created = 1 .. d - 1 /\ status' = [status EXCEPT ![d] = "PENDING"]
      BY <2>3 DEF Deploy
    <3>2. status[d] = "none" /\ \A e \in 1 .. d - 1 : status[e] # "none"
      BY <3>1, ConstantsAssumption DEF Created, Deployments
    <3>3. Promise!Make(d)
      BY <2>3, <3>1, <3>2 DEF Promise!Make, Deploy, application
    <3> QED BY <2>0, <3>3 DEF Promise!Next
  <2>4. CASE Activate
    <3>1. r.dep \in Deployments /\ ~completed[r.dep]
      BY <2>4, ConstantsAssumption
         DEF Activate, RecordInv, InCharge, Working, WorkPcs, ExecutePcs, Unfinished, Deployments
    <3>2. status' = [e \in Promise!Records |-> CASE e = r.dep -> "ACTIVE"
                                                [] e # r.dep /\ status[e] = "ACTIVE" -> "SUPERSEDED"
                                                [] OTHER -> status[e]]
      BY <2>0, <2>4 DEF Activate, RecordInv, OneActive
    <3>3. Promise!Commit(r.dep)
      BY <2>4, <3>1, <3>2 DEF Activate, Promise!Commit
    <3> QED BY <2>0, <3>1, <3>3 DEF Promise!Next
  <2>5. ASSUME NEW d \in Deployments, Settle(d) PROVE Promise!Next
    <3>1. status[d] \in Statuses \ {"none"}
      BY <2>5 DEF Settle, RecordInv, RecordsTyped, Unfinished
    <3>2. status' = [e \in Promise!Records |->
                       IF e \in {d} /\ status[e] \in Promise!InWork THEN "FAILED" ELSE status[e]]
      BY <2>0, <2>5, <3>1
         DEF Settle, RecordInv, RecordsTyped, Statuses, Settled, InFlight, Promise!InWork
    <3>3. completed' = [e \in Promise!Records |-> completed[e] \/ e \in {d}]
      BY <2>0, <2>5 DEF Settle, RecordInv, RecordsTyped
    <3>4. Promise!Close({d})
      BY <2>5, <3>1, <3>2, <3>3 DEF Settle, Promise!Close, application
    <3> QED BY <2>0, <3>4 DEF Promise!Next
  <2>6. CASE Recover
    <3>1. PICK resuming \in SUBSET Deployments,
               roll \in {NoRollout} \cup {Prepared(d) : d \in Deployments} : RecoverWith(resuming, roll)
      BY <2>6 DEF Recover
    <3>2. status' = [d \in Promise!Records |->
                       IF d \in Created \ resuming /\ status[d] \in Promise!InWork
                       THEN "FAILED" ELSE status[d]]
      BY <2>0, <3>1 DEF RecoverWith, Interrupted, Created, InFlight, Promise!InWork
    <3>3. Promise!Close(Created \ resuming)
      BY <2>0, <3>1, <3>2 DEF Promise!Close, RecoverWith, Created, application
    <3> QED BY <2>0, <3>3 DEF Promise!Next, Created
  <2> QED BY <2>1, <2>2, <2>3, <2>4, <2>5, <2>6, StepKinds
<1> QED BY <1>1, <1>2, RecordInvHolds, PTL DEF Spec, KeepsPromise, Promise!Spec
-----------------------------------------------------------------------------
\* Who is findable while a version is rolled out.

\* A container that was not started has no name, and a deployment that was
\* not made has no container.
DockerOK ==
    /\ ctr \in [Containers -> {"none", "created", "running", "stopping", "exited"}]
    /\ \A c \in Containers : c \in named => ctr[c] \notin {"none", "created"}
    /\ \A d \in Deployments, i \in Indexes : status[d] = "none" => ctr[<<d, i>>] = "none"

\* A rollout says who serves only until it has committed or given up, and
\* what it replaces was made and is another deployment.
Over == pc \in {"sweep", "end", "rolledBack"} \/ (pc = "dropping" /\ r.then \in {"end", "rolledBack"})
RollOK ==
    /\ {"dep", "prev", "resumed", "adopted", "inService", "serving", "todo", "batch", "missing",
        "made", "creating", "then", "outcome"} \subseteq DOMAIN r
    /\ r.prev # 0 => r.prev \in Deployments /\ status[r.prev] # "none" /\ r.prev # r.dep
    /\ pc \in ExecutePcs => active # r.dep
    /\ override.on => r.dep # 0 /\ ~Over
    /\ ~override.on => override.members = {}

\* The replicas of the new version that have been given to routing.
Shown == {i \in Indexes : <<r.dep, i>> \in r.serving \cup override.members}

\* Where the rollout has not begun to exchange replicas, where a batch is
\* brought up, and the replicas that are still to come.
BeforeBatches == {"execute", "building", "starting", "previous", "takeOut", "stopping", "plan"}
BatchPcs == {"bring", "create", "started", "check"}
ToCome == IF pc \in {"swap", "retire"} THEN r.todo \ r.batch ELSE r.todo

\* The part of the invariant that is about a rollout that was not resumed.
Exchange ==
    /\ r.adopted = {} /\ r.inService = {}
    /\ \A i \in Indexes : <<r.dep, i>> \in named \/ i \in Shown =>
          (Running(<<r.dep, i>>) => <<r.dep, i>> \in verified)
    /\ pc = "swap" => \A i \in Indexes \cap r.batch : Running(<<r.dep, i>>) => <<r.dep, i>> \in verified
    /\ pc \in BeforeBatches => Shown = {}
    /\ pc \in BatchPcs \cup {"next", "swap", "retire"} => Shown \cap ToCome = {}
    /\ pc \in BatchPcs => r.batch \subseteq r.todo /\ r.missing \cup r.made \subseteq r.batch

\* The inductive invariant, on top of the one of the records.
NamesInv ==
    /\ RecordInv /\ DockerOK /\ RollOK
    /\ pc \in ExecutePcs /\ ~r.resumed => Exchange

----------------------------------------------------------------------------
(* Containers, names and records.                                          *)

\* Records never go back to not being made.
LEMMA MadeStays == RecordInv /\ [Next]_vars => \A d \in Deployments : status'[d] = "none" => status[d] = "none"
<1> SUFFICES ASSUME RecordInv, [Next]_vars, NEW d \in Deployments, status'[d] = "none" PROVE status[d] = "none"
  OBVIOUS
<1>1. CASE Quiet \/ Release \/ AgentStops \/ ShutdownBegins
  BY <1>1 DEF Quiet, Release, AgentStops, ShutdownBegins, db, records
<1>2. CASE Advances
  BY <1>2 DEF Advances, Moves, Moved, RecordInv, RecordsTyped
<1>3. ASSUME NEW n \in Indexes, NEW s \in Strategies, Deploy(n, s) PROVE status[d] = "none"
  BY <1>3 DEF Deploy, RecordInv, RecordsTyped
<1>4. CASE Activate
  BY <1>4 DEF Activate
<1>5. ASSUME NEW e \in Deployments, Settle(e) PROVE status[d] = "none"
  BY <1>5 DEF Settle, RecordInv, RecordsTyped
<1>6. CASE Recover
  BY <1>6 DEF Recover, RecoverWith
<1> QED BY <1>1, <1>2, <1>3, <1>4, <1>5, <1>6, StepKinds

\* Where a container comes from and what it takes to be named, step by step.
LEMMA DockerStep == NamesInv /\ [Next]_vars => DockerOK'
<1> SUFFICES ASSUME NamesInv, [Next]_vars PROVE DockerOK'
  OBVIOUS
<1> DEFINE Kinds == {"none", "created", "running", "stopping", "exited"}
           Kept == /\ ctr' \in [Containers -> Kinds]
                   /\ \A c \in Containers : ctr[c] = "none" => ctr'[c] = "none"
                   /\ \A c \in Containers : c \in named' => ctr'[c] \notin {"none", "created"}
<1>0. ASSUME Kept PROVE DockerOK'
  BY <1>0, MadeStays DEF NamesInv, DockerOK, Containers
<1> USE DEF NamesInv, DockerOK, Kinds, db, records, application, docker, memory, ghosts, bounds
<1>1. CASE UNCHANGED docker
  BY <1>0, <1>1
<1>2. ASSUME NEW C, Gone(C) PROVE DockerOK'
  BY <1>0, <1>2 DEF Gone
<1>3. ASSUME NEW C, Remove(C) PROVE DockerOK'
  BY <1>0, <1>2, <1>3 DEF Remove
<1>4. ASSUME NEW C, named' = Synced(C), UNCHANGED ctr PROVE DockerOK'
  <2>1. \A c \in named' : c \in named \/ Running(c)
    BY <1>4 DEF Synced
  <2> QED BY <1>0, <1>4, <2>1 DEF Running
<1>5. ASSUME NEW c \in Containers, StartNameless(c) PROVE DockerOK'
  BY <1>0, <1>5 DEF StartNameless, Exists, Running
<1>6. ASSUME NEW d, d # 0 => d \in Deployments /\ status[d] # "none", NEW at, CreateFor(d, at) PROVE DockerOK'
  <2>1. PICK i \in r.missing : CreateContainer(<<d, i>>)
    BY <1>6 DEF CreateFor, Of, First
  <2>2. ctr' = [ctr EXCEPT ![<<d, i>>] = "created"] /\ UNCHANGED <<status, named>> /\ ~Exists(<<d, i>>)
    BY <1>6, <2>1 DEF CreateFor, CreateContainer
  <2>3. CASE d = 0
    <3>1. <<d, i>> \notin Containers
      BY <2>3 DEF Containers, Deployments
    <3> QED BY <1>0, <2>2, <3>1
  <2> QED BY <1>6, <2>2, <2>3 DEF Exists, Containers
<1>7. ASSUME NEW d, NEW at, NEW next, StartFor(d, at, next) PROVE DockerOK'
  <2>1. CASE UNCHANGED docker
    BY <1>1, <2>1
  <2>2. CASE ~UNCHANGED docker
    <3>1. PICK i \in {j \in r.made : ctr[<<d, j>>] = "created"} : ctr' = [ctr EXCEPT ![<<d, i>>] = "running"]
      BY <1>7, <2>2 DEF StartFor, Of, First
    <3> QED BY <1>0, <1>7, <3>1 DEF StartFor
  <2> QED BY <2>1, <2>2
<1>9. CASE ExecuteStep
  <2>1. CASE \/ ReachBuilding \/ Built \/ ReachStarting \/ LoadPrevious \/ PlanBatches \/ BeginBatch
             \/ RecordReplica \/ ReachHealthChecking \/ BatchReady \/ Retire \/ ReachChecked \/ ReachHealthy
             \/ Activate
    <3>1. UNCHANGED docker
      BY <2>1 DEF ReachBuilding, Built, ReachStarting, LoadPrevious, PlanBatches, BeginBatch, RecordReplica,
                  RecordFor, ReachHealthChecking, BatchReady, Retire, ReachChecked, ReachHealthy, Reach, Activate
    <3> QED BY <1>1, <3>1
  <2>2. CASE TakeOut
    BY <2>2, <1>4 DEF TakeOut, SyncOk
  <2>3. CASE StopOld
    <3>1. CASE UNCHANGED docker
      BY <1>1, <3>1
    <3>2. CASE ~UNCHANGED docker
      <4>1. PICK c : ctr' = [ctr EXCEPT ![c] = IF Running(c) THEN "exited" ELSE @] /\ UNCHANGED named
        BY <2>3, <3>2 DEF StopOld
      <4> QED BY <1>0, <4>1 DEF Running
    <3> QED BY <3>1, <3>2
  <2>4. CASE Bring
    <3>1. CASE UNCHANGED docker
      BY <1>1, <3>1
    <3>2. CASE ~UNCHANGED docker
      <4>1. PICK c : ctr[c] # "none" /\ ctr' = [ctr EXCEPT ![c] = "running"] /\ UNCHANGED named
        BY <2>4, <3>2 DEF Bring, Exists
      <4> QED BY <1>0, <4>1
    <3> QED BY <3>1, <3>2
  <2>5. CASE CreateReplica
    BY <2>5, <1>6 DEF CreateReplica, CreateFor, RecordInv, InCharge, Working, WorkPcs, ExecutePcs, Unfinished,
                      Deployments
  <2>6. CASE StartReplica
    BY <2>6, <1>7 DEF StartReplica
  <2>7. CASE Swap
    BY <2>7, <1>4 DEF Swap, SyncOk, SyncFailed
  <2>8. CASE RetireStopped
    BY <2>8, <1>1, <1>3 DEF RetireStopped
  <2>9. CASE Fail
    BY <2>9, <1>2 DEF Fail
  <2> QED BY <1>9, <2>1, <2>2, <2>3, <2>4, <2>5, <2>6, <2>7, <2>8, <2>9 DEF ExecuteStep
<1>10. CASE AbortStep \/ AbortExpires \/ EndStep \/ DropNext \/ Dropped
  <2>1. CASE \/ Abort \/ BeginRollback \/ DrainsAwaited \/ Clear \/ BeginRestore \/ RecordRestored
             \/ Restored \/ RolledBack \/ Release \/ Dropped
    <3>1. UNCHANGED docker
      BY <2>1 DEF Abort, BeginRollback, DrainsAwaited, Clear, BeginRestore, RecordRestored, RecordFor,
                  Restored, RolledBack, Release, Dropped
    <3> QED BY <1>1, <3>1
  <2>2. CASE Discard
    BY <2>2, <1>4 DEF Discard, SyncOk, SyncFailed
  <2>3. CASE RestartOld \/ ResumeRollback
    <3>1. CASE UNCHANGED docker
      BY <1>1, <3>1
    <3>2. CASE ~UNCHANGED docker
      <4>1. PICK c : StartNameless(c)
        BY <2>3, <3>2 DEF RestartOld, ResumeRollback
      <4> QED BY <1>0, <4>1 DEF StartNameless, Exists, Running
    <3> QED BY <3>1, <3>2
  <2>4. CASE CreateRestored
    BY <2>4, <1>6 DEF CreateRestored, RollOK
  <2>5. CASE StartRestored
    BY <2>5, <1>7 DEF StartRestored
  <2>6. CASE RestoreFails \/ AbortExpires
    BY <2>6, <1>2 DEF RestoreFails, AbortExpires
  <2>7. CASE Sweep \/ DropNext
    BY <2>7, <1>3 DEF Sweep, DropNext
  <2> QED BY <1>10, <2>1, <2>2, <2>3, <2>4, <2>5, <2>6, <2>7 DEF AbortStep, EndStep
<1>11. CASE SupervisionStep
  <2>1. ASSUME NEW c \in Containers, ContainerSupervised(c) \/ ProbePasses(c) \/ ProbesFail(c) PROVE DockerOK'
    <3>1. CASE RetireLeftover(c) \/ NoteDisappeared(c) \/ ProbePasses(c) \/ ProbesFail(c)
      BY <1>1, <3>1 DEF RetireLeftover, NoteDisappeared, ProbePasses, ProbesFail
    <3>2. CASE RestartDown(c) \/ RestartUnhealthy(c)
      BY <1>5, <3>2 DEF RestartDown, RestartUnhealthy
    <3> QED BY <2>1, <3>1, <3>2 DEF ContainerSupervised
  <2>2. CASE BeginReconcile \/ RecordReconciled \/ Reconciled \/ Stop \/ Start \/ UserOpEnds
    BY <1>1, <2>2 DEF BeginReconcile, RecordReconciled, RecordFor, Reconciled, Stop, Start, UserOpEnds
  <2>3. CASE CreateReconciled
    BY <2>3, <1>6 DEF CreateReconciled, RollOK
  <2>4. CASE StartReconciled
    BY <2>4, <1>7 DEF StartReconciled
  <2>5. CASE ReconcileFails
    BY <2>5, <1>2 DEF ReconcileFails
  <2>6. ASSUME NEW i \in Indexes, StopReplica(i) PROVE DockerOK'
    <3>1. PICK c : ctr' = [ctr EXCEPT ![c] = IF Running(c) THEN "exited" ELSE @] /\ UNCHANGED named
      BY <2>6 DEF StopReplica
    <3> QED BY <1>0, <3>1 DEF Running
  <2>7. CASE StartStopped
    <3>1. PICK c : StartNameless(c)
      BY <2>7 DEF StartStopped
    <3> QED BY <1>0, <3>1 DEF StartNameless, Exists, Running
  <2>8. CASE Started
    BY <2>8, <1>0 DEF Started
  <2> QED BY <1>11, <2>1, <2>2, <2>3, <2>4, <2>5, <2>6, <2>7, <2>8 DEF SupervisionStep, ReconcileStep, UserStep
<1>12. CASE SyncTick
  BY <1>4, <1>12 DEF SyncTick
<1>13. ASSUME NEW c \in Containers, ContainerStep(c) PROVE DockerOK'
  BY <1>0, <1>1, <1>2, <1>13
     DEF ContainerStep, Exits, Dies, Disappears, DrainStops, DrainRemoves, DrainEnds, Running, Exists
<1>14. CASE AgentStops \/ ShutdownBegins \/ \E n \in Indexes, s \in Strategies : Deploy(n, s)
  BY <1>1, <1>14 DEF AgentStops, ShutdownBegins, Deploy
<1>15. CASE Recover
  BY <1>2, <1>15 DEF Recover, RecoverWith
<1>16. ASSUME NEW d \in Deployments, Settle(d) PROVE DockerOK'
  BY <1>1, <1>16 DEF Settle
<1> QED BY <1>1, <1>9, <1>10, <1>11, <1>12, <1>13, <1>14, <1>15, <1>16 DEF Next, RolloutStep, vars

----------------------------------------------------------------------------
(* The rollout and its hold on routing.                                    *)

LEMMA RollStep == NamesInv /\ RecordInv' /\ [Next]_vars => RollOK'
<1> SUFFICES ASSUME NamesInv, RecordInv', [Next]_vars PROVE RollOK'
  OBVIOUS
<1> USE DEF NamesInv, RollOK, Over, ExecutePcs, db, records, application, docker, memory, ghosts, bounds
<1>1. \A d \in Deployments : status[d] # "none" => status'[d] # "none"
  BY MadeStays DEF RecordInv, RecordsTyped
<1>2. ASSUME UNCHANGED <<active, r, pc, override>> PROVE RollOK'
  BY <1>1, <1>2
<1>3. ASSUME UNCHANGED active, pc' \in ExecutePcs => pc \in ExecutePcs,
             r'.prev = r.prev, r'.dep = r.dep, DOMAIN r' = DOMAIN r,
             override' = NoOverride \/ (UNCHANGED override /\ (~Over' \/ Over))
      PROVE  RollOK'
  BY <1>1, <1>3 DEF NoOverride
<1>4. ASSUME r' = NoRollout, pc' \notin ExecutePcs, override' = NoOverride \/ (UNCHANGED override /\ ~override.on) PROVE RollOK'
  BY <1>4 DEF NoRollout, NoOverride
<1>5. active # 0 => active \in Deployments /\ status[active] # "none"
  BY DEF RecordInv, RecordsTyped, OneActive
<1>6. pc = "idle" => r.dep = 0
  BY DEF RecordInv, InCharge, Working, WorkPcs, ExecutePcs, AbortPcs, Pcs
<1>7. CASE ExecuteStep
  <2>1. CASE \/ ReachBuilding \/ Built \/ ReachStarting \/ ReachHealthChecking \/ ReachChecked \/ ReachHealthy
    BY <1>3, <2>1 DEF ReachBuilding, Built, ReachStarting, ReachHealthChecking, ReachChecked, ReachHealthy, Reach
  <2>2. CASE LoadPrevious
    <3>1. r.dep # 0 /\ r.dep # active
      BY <2>2 DEF LoadPrevious, RecordInv, InCharge, Working, WorkPcs, Deployments
    <3> QED BY <1>1, <1>5, <2>2, <3>1 DEF LoadPrevious, Loaded
  <2>3. CASE TakeOut \/ Swap
    <3>1. r.dep # 0
      BY <2>3 DEF TakeOut, Swap, RecordInv, InCharge, Working, WorkPcs, ExecutePcs, Deployments
    <3>2. r'.prev = r.prev /\ r'.dep = r.dep /\ DOMAIN r' = DOMAIN r
      BY <2>3 DEF TakeOut, Swap
    <3>3. override'.on /\ UNCHANGED active
      BY <2>3 DEF TakeOut, Swap
    <3>4. pc \in ExecutePcs /\ pc' \in {"stopping", "abort", "retire"}
      BY <2>3 DEF TakeOut, Swap
    <3> QED BY <1>1, <3>1, <3>2, <3>3, <3>4
  <2>4. CASE StopOld \/ PlanBatches \/ BeginBatch \/ Bring \/ BatchReady \/ Retire \/ RetireStopped \/ Fail
    BY <1>3, <2>4 DEF StopOld, PlanBatches, BeginBatch, Bring, BatchReady, Retire, RetireStopped, AfterSwap, Fail
  <2>5. CASE CreateReplica \/ RecordReplica \/ StartReplica
    BY <1>3, <2>5 DEF CreateReplica, RecordReplica, StartReplica, CreateFor, RecordFor, StartFor
  <2>6. CASE Activate
    BY <1>1, <2>6 DEF Activate, NoOverride
  <2> QED BY <1>7, <2>1, <2>2, <2>3, <2>4, <2>5, <2>6 DEF ExecuteStep
<1>8. CASE AbortStep \/ AbortExpires \/ EndStep \/ DropNext \/ Dropped
  <2>1. CASE Abort \/ DrainsAwaited \/ Clear \/ Restored
    BY <1>3, <2>1 DEF Abort, DrainsAwaited, Clear, Restored
  <2>9. CASE BeginRestore \/ RestartOld
    <3>1. CASE BeginRestore
      BY <1>3, <3>1 DEF BeginRestore
    <3>2. CASE RestartOld
      <4>1. UNCHANGED <<active, override>> /\ pc' \notin ExecutePcs /\ ~Over'
        BY <3>2 DEF RestartOld
      <4>2. r'.prev = r.prev /\ r'.dep = r.dep /\ DOMAIN r' = DOMAIN r
        BY <3>2 DEF RestartOld
      <4> QED BY <1>3, <4>1, <4>2
    <3> QED BY <2>9, <3>1, <3>2
  <2>7. CASE RestoreFails \/ RolledBack \/ ResumeRollback
    BY <1>3, <2>7 DEF RestoreFails, RolledBack, ResumeRollback
  <2>8. CASE Sweep \/ DropNext
    BY <1>3, <2>8 DEF Sweep, DropNext
  <2>2. CASE CreateRestored \/ RecordRestored \/ StartRestored
    BY <1>3, <2>2 DEF CreateRestored, RecordRestored, StartRestored, CreateFor, RecordFor, StartFor
  <2>3. CASE Discard \/ AbortExpires
    BY <1>3, <2>3 DEF Discard, AbortExpires
  <2>4. CASE BeginRollback
    <3>1. r.dep # 0
      BY <2>4 DEF BeginRollback, RecordInv, InCharge, Working, WorkPcs, AbortPcs, Deployments
    <3> QED BY <1>1, <2>4, <3>1 DEF BeginRollback
  <2>5. CASE Release
    BY <1>4, <2>5 DEF Release
  <2>6. CASE Dropped
    <3>1. CASE r.then = "idle"
      <4>1. r.dep = 0
        BY <2>6, <3>1 DEF Dropped, RecordInv, InCharge, Working, WorkPcs, ExecutePcs, AbortPcs
      <4> QED BY <1>4, <2>6, <3>1, <4>1 DEF Dropped
    <3>2. CASE r.then # "idle"
      BY <1>3, <2>6, <3>2 DEF Dropped, RecordInv, InCharge
    <3> QED BY <3>1, <3>2
  <2> QED BY <1>8, <2>1, <2>2, <2>3, <2>4, <2>5, <2>6, <2>7, <2>8, <2>9 DEF AbortStep, EndStep
<1>9. CASE SupervisionStep
  <2>1. ASSUME NEW c \in Containers, ContainerSupervised(c) \/ ProbePasses(c) \/ ProbesFail(c) PROVE RollOK'
    BY <1>2, <2>1 DEF ContainerSupervised, RetireLeftover, NoteDisappeared, RestartDown, RestartUnhealthy,
                      ProbePasses, ProbesFail
  <2>2. CASE BeginReconcile \/ Stop \/ Start
    <3>1. CASE BeginReconcile
      BY <1>1, <1>5, <1>6, <3>1 DEF BeginReconcile, Supervises, NoRollout, Deployments
    <3>2. CASE Stop \/ Start
      BY <1>1, <1>5, <1>6, <3>2 DEF Stop, Start, NoRollout, Deployments
    <3> QED BY <2>2, <3>1, <3>2
  <2>3. CASE CreateReconciled \/ RecordReconciled \/ StartReconciled
    BY <1>3, <2>3 DEF CreateReconciled, RecordReconciled, StartReconciled, CreateFor, RecordFor, StartFor
  <2>4. CASE Reconciled \/ Started \/ UserOpEnds
    <3>1. r.dep = 0
      BY <2>4 DEF Reconciled, Started, UserOpEnds, RecordInv, InCharge, Working, WorkPcs, ExecutePcs, AbortPcs
    <3> QED BY <1>4, <2>4, <3>1 DEF Reconciled, Started, UserOpEnds
  <2>5. CASE ReconcileFails
    BY <1>3, <2>5 DEF ReconcileFails
  <2>6. ASSUME NEW i \in Indexes, StopReplica(i) PROVE RollOK'
    BY <1>3, <2>6 DEF StopReplica
  <2>7. CASE StartStopped
    BY <1>3, <2>7 DEF StartStopped
  <2> QED BY <1>9, <2>1, <2>2, <2>3, <2>4, <2>5, <2>6, <2>7 DEF SupervisionStep, ReconcileStep, UserStep
<1>10. CASE SyncTick \/ ShutdownBegins \/ (\E d \in Deployments : Settle(d)) \/ UNCHANGED vars
  BY <1>2, <1>10 DEF SyncTick, ShutdownBegins, Settle, vars
<1>11. ASSUME NEW c \in Containers, ContainerStep(c) PROVE RollOK'
  BY <1>2, <1>11 DEF ContainerStep, Exits, Dies, Disappears, DrainStops, DrainRemoves, DrainEnds
<1>12. ASSUME NEW n \in Indexes, NEW s \in Strategies, Deploy(n, s) PROVE RollOK'
  <2>1. PICK d \in Deployments : Created = 1 .. d - 1 /\ r' = [NoRollout EXCEPT !.dep = d]
    BY <1>12 DEF Deploy
  <2>2. status[d] = "none"
    BY <2>1 DEF Created, Deployments
  <2>3. d # active
    BY <1>5, <2>2 DEF Deployments
  <2>4. r'.dep = d /\ r'.prev = 0 /\ DOMAIN NoRollout \subseteq DOMAIN r'
    BY <2>1 DEF NoRollout
  <2>5. pc = "idle" /\ pc' = "execute" /\ UNCHANGED <<active, override>>
    BY <1>12 DEF Deploy
  <2> QED BY <1>6, <2>3, <2>4, <2>5 DEF NoRollout
<1>13. CASE AgentStops
  BY <1>4, <1>13 DEF AgentStops, Forgotten
<1>14. CASE Recover
  <2>1. CASE RecoverWith({}, NoRollout)
    BY <1>4, <2>1 DEF RecoverWith
  <2>2. ASSUME NEW d \in Deployments, Resumable(d), RecoverWith({d}, Prepared(d)) PROVE RollOK'
    <3>1. d # active /\ status'[d] = status[d]
      BY <2>2 DEF Resumable, Interrupted, InFlight, RecordInv, OneActive, RecoverWith
    <3>2. r' = Prepared(d)
      BY <2>2 DEF RecoverWith
    <3>3. r'.dep = d /\ (r'.prev = 0 \/ (active # 0 /\ r'.prev = active))
      BY <3>2 DEF Prepared, Survey, Loaded, NoRollout
    <3>4. DOMAIN NoRollout \subseteq DOMAIN r'
      BY <3>2 DEF Prepared, Survey, Loaded, NoRollout
    <3>5. pc' \in {"idle", "execute", "resumeRollback"}
      BY <2>2 DEF RecoverWith
    <3>6. override' = NoOverride \/ override'.on
      BY <2>2 DEF RecoverWith
    <3>7. UNCHANGED active
      BY <2>2 DEF RecoverWith
    <3> QED BY <1>1, <1>5, <3>1, <3>3, <3>4, <3>5, <3>6, <3>7 DEF NoRollout, NoOverride, Deployments
  <2> QED BY <1>14, <2>1, <2>2 DEF Recover
<1> QED BY <1>7, <1>8, <1>9, <1>10, <1>11, <1>12, <1>13, <1>14 DEF Next, RolloutStep
----------------------------------------------------------------------------
(* The exchange of replicas.                                               *)

\* A replica of the new version is found only when it was shown, and is shown
\* only when its process was checked: step by step.
LEMMA ExchangeStep == NamesInv /\ [Next]_vars /\ pc' \in ExecutePcs /\ ~r'.resumed => Exchange'
<1> SUFFICES ASSUME NamesInv, [Next]_vars, pc' \in ExecutePcs, ~r'.resumed PROVE Exchange'
  OBVIOUS
<1> USE DEF ExecutePcs, db, records, application, docker, memory, ghosts, bounds
\* What happens next to the rollout.
<1> DEFINE Harmless ==
      /\ UNCHANGED <<pc, r, override>>
      /\ \A c \in Containers : c[1] # active =>
            /\ Running(c)' => Running(c)
            /\ Running(c)' /\ c \in verified => c \in verified'
            /\ c \in named' => c \in named \cup override.members
<1>1. pc \in ExecutePcs => /\ r.dep \in Deployments /\ r.dep # 0 /\ r.dep # active
                           /\ \A i \in Indexes : <<r.dep, i>> \in Containers
  BY DEF NamesInv, RollOK, RecordInv, InCharge, Working, WorkPcs, Deployments, Containers
<1>2. ASSUME Harmless PROVE Exchange'
  <2>1. Exchange
    BY <1>2 DEF NamesInv
  <2>2. \A i \in Indexes :
          /\ Running(<<r.dep, i>>)' => Running(<<r.dep, i>>)
          /\ Running(<<r.dep, i>>)' /\ <<r.dep, i>> \in verified => <<r.dep, i>> \in verified'
          /\ <<r.dep, i>> \in named' => <<r.dep, i>> \in named \/ i \in Shown
    BY <1>1, <1>2 DEF Shown
  <2>3. Shown' = Shown /\ ToCome' = ToCome
    BY <1>2 DEF Shown, ToCome
  <2> QED BY <1>2, <2>1, <2>2, <2>3 DEF Exchange
<1>3. CASE ExecuteStep
  <2> DEFINE d == r.dep
  <2>1. pc \in ExecutePcs /\ r'.resumed = r.resumed
    <3> USE DEF NamesInv, RollOK
    <3>1. CASE ReachBuilding \/ Built \/ ReachStarting \/ ReachHealthChecking \/ ReachChecked \/ ReachHealthy
      BY <3>1 DEF ReachBuilding, Built, ReachStarting, ReachHealthChecking, ReachChecked, ReachHealthy, Reach
    <3>2. CASE LoadPrevious \/ TakeOut
      BY <3>2 DEF LoadPrevious, Loaded, TakeOut
    <3>5. CASE StopOld \/ PlanBatches \/ BeginBatch \/ Bring
      BY <3>5 DEF StopOld, PlanBatches, BeginBatch, Bring
    <3>3. CASE CreateReplica \/ RecordReplica \/ StartReplica
      BY <3>3 DEF CreateReplica, CreateFor, RecordReplica, RecordFor, StartReplica, StartFor
    <3>4. CASE BatchReady \/ Swap \/ Retire \/ RetireStopped \/ Activate \/ Fail
      BY <3>4 DEF BatchReady, Swap, Retire, RetireStopped, Activate, Fail
    <3> QED BY <1>3, <3>1, <3>2, <3>3, <3>4, <3>5 DEF ExecuteStep
  <2>2. /\ Exchange
        /\ d \in Deployments /\ d # 0 /\ d # active /\ (r.prev # 0 => r.prev # d)
        /\ \A i \in Indexes : <<d, i>> \in Containers
    BY <1>1, <2>1 DEF NamesInv, RollOK
  \* A step that shows nobody new, starts nobody and takes no check back.
  <2> DEFINE Still ==
        /\ r'.dep = d /\ r'.adopted = r.adopted /\ r'.inService = r.inService
        /\ \A i \in Indexes :
              /\ Running(<<d, i>>)' => Running(<<d, i>>)
              /\ Running(<<d, i>>)' /\ <<d, i>> \in verified => <<d, i>> \in verified'
              /\ <<d, i>> \in named' => <<d, i>> \in named
        /\ Shown' \subseteq Shown
  <2>3. ASSUME Still, pc' # "swap",
               pc' \in BeforeBatches => pc \in BeforeBatches,
               pc' \in BatchPcs \cup {"next", "retire"} => Shown \cap ToCome' = {},
               pc' \in BatchPcs => r'.batch \subseteq r'.todo /\ r'.missing \cup r'.made \subseteq r'.batch
        PROVE  Exchange'
    BY <2>2, <2>3 DEF Exchange
  <2>4. CASE ReachBuilding \/ ReachStarting \/ ReachHealthChecking \/ ReachChecked \/ ReachHealthy \/ Built
    <3>1. UNCHANGED <<docker, verified, r, override>>
      BY <2>4 DEF ReachBuilding, ReachStarting, ReachHealthChecking, ReachChecked, ReachHealthy, Reach, Built
    <3>2. Still
      BY <3>1 DEF Running, Shown
    <3>3. \/ pc' \in {"healthy", "activate"}
          \/ pc \in BeforeBatches /\ pc' \in BeforeBatches
          \/ pc = "started" /\ pc' = "check"
      BY <2>4 DEF ReachBuilding, ReachStarting, ReachHealthChecking, ReachChecked, ReachHealthy, Reach, Built,
                  BeforeBatches
    <3> QED BY <2>2, <2>3, <3>1, <3>2, <3>3 DEF Exchange, BeforeBatches, BatchPcs, ToCome
  <2>5. CASE LoadPrevious
    <3>1. UNCHANGED docker /\ UNCHANGED verified /\ pc = "previous" /\ pc' \in {"takeOut", "plan"}
      BY <2>5 DEF LoadPrevious
    <3>2. r'.dep = d /\ r'.adopted = r.adopted /\ r'.inService = r.inService
      BY <2>5 DEF LoadPrevious, Loaded
    <3>3. \A c \in r'.serving : c \in r.serving \/ c[1] = active
      BY <2>5 DEF LoadPrevious, Loaded, Of, NamesInv, RollOK
    <3>4. \A c \in override'.members : c \in override.members \/ c \in r.serving \/ c[1] = active
      BY <2>5 DEF LoadPrevious, Loaded, Of, NamesInv, RollOK
    <3>5. Still
      BY <2>2, <3>1, <3>2, <3>3, <3>4 DEF Running, Shown
    <3> QED BY <2>3, <3>1, <3>5 DEF BeforeBatches, BatchPcs
  <2>6. CASE TakeOut
    <3>1. /\ UNCHANGED <<ctr, verified>> /\ named' = named /\ pc = "takeOut" /\ pc' = "stopping"
          /\ r' = [r EXCEPT !.recreate = TRUE, !.serving = {}] /\ override'.members = {}
      BY <2>6 DEF TakeOut, SyncOk, Synced
    <3>2. Still
      BY <3>1 DEF Running, Shown, NamesInv, RollOK
    <3> QED BY <2>3, <3>1, <3>2 DEF BeforeBatches, BatchPcs
  <2>7. CASE StopOld
    <3>1. /\ UNCHANGED <<named, override>> /\ pc = "stopping" /\ pc' \in {"stopping", "plan"}
          /\ r'.dep = d /\ r'.adopted = r.adopted /\ r'.inService = r.inService /\ r'.serving = r.serving
      <4>1. UNCHANGED <<named, override>> /\ pc = "stopping" /\ pc' \in {"stopping", "plan"}
        BY <2>7 DEF StopOld, NamesInv, RollOK
      <4>2. r'.dep = d /\ r'.adopted = r.adopted /\ r'.inService = r.inService /\ r'.serving = r.serving
        BY <2>7 DEF StopOld, NamesInv, RollOK
      <4> QED BY <4>1, <4>2
    <3>2. \A i \in Indexes : ctr'[<<d, i>>] = ctr[<<d, i>>] /\ (<<d, i>> \in verified => <<d, i>> \in verified')
      <4>1. CASE UNCHANGED <<ctr, verified>>
        BY <4>1
      <4>2. CASE ~UNCHANGED <<ctr, verified>>
        <5>1. PICK c \in Of(r.prev, r.old \ r.stopped) :
                /\ ctr' = [ctr EXCEPT ![c] = IF Running(c) THEN "exited" ELSE @]
                /\ verified' = verified \ {c}
          BY <2>7, <4>2 DEF StopOld, Of, First
        <5>2. c[1] # d
          BY <2>2, <5>1 DEF Of
        <5> QED BY <5>1, <5>2
      <4> QED BY <4>1, <4>2
    <3>3. Still
      BY <3>1, <3>2 DEF Running, Shown
    <3> QED BY <2>3, <3>1, <3>3 DEF BeforeBatches, BatchPcs
  <2>8. CASE PlanBatches
    <3>1. /\ UNCHANGED <<docker, verified, override>> /\ pc = "plan" /\ pc' = "next"
          /\ r'.dep = d /\ r'.adopted = r.adopted /\ r'.inService = r.inService /\ r'.serving = r.serving
      BY <2>2, <2>8 DEF PlanBatches, Exchange
    <3>2. Still /\ Shown = {}
      BY <2>2, <3>1 DEF Running, Shown, Exchange, BeforeBatches
    <3> QED BY <2>3, <3>1, <3>2 DEF BeforeBatches, BatchPcs
  <2>9. CASE BeginBatch
    <3>1. /\ UNCHANGED <<docker, verified, override>> /\ pc = "next"
          /\ r'.dep = d /\ r'.adopted = r.adopted /\ r'.inService = r.inService /\ r'.serving = r.serving
          /\ r'.todo = r.todo
      <4>1. UNCHANGED <<docker, verified, override>> /\ pc = "next"
        BY <2>9 DEF BeginBatch, NamesInv, RollOK
      <4>2. r'.dep = d /\ r'.adopted = r.adopted /\ r'.inService = r.inService /\ r'.serving = r.serving
        BY <2>9 DEF BeginBatch, NamesInv, RollOK
      <4>3. r'.todo = r.todo
        BY <2>9 DEF BeginBatch, NamesInv, RollOK
      <4> QED BY <4>1, <4>2, <4>3
    <3>2. Still
      BY <3>1 DEF Running, Shown
    <3>3. Shown \cap r.todo = {}
      BY <2>2, <3>1 DEF Exchange, ToCome
    <3>4. CASE r.todo = {}
      <4>1. r'.batch = {} /\ pc' \in {"checked", "swap"}
        BY <2>9, <3>4 DEF BeginBatch, NamesInv, RollOK
      <4> QED BY <2>2, <3>1, <3>2, <3>4, <4>1 DEF Exchange, BeforeBatches, BatchPcs, ToCome
    <3>5. CASE r.todo # {}
      <4>1. /\ r'.batch = NextBatch /\ r'.made = {} /\ r'.missing \subseteq NextBatch /\ pc' = "bring"
        BY <2>9, <3>5 DEF BeginBatch, NamesInv, RollOK
      <4>2. NextBatch \subseteq r.todo
        BY DEF NextBatch, First
      <4> QED BY <2>3, <3>1, <3>2, <3>3, <4>1, <4>2 DEF BeforeBatches, BatchPcs, ToCome
    <3> QED BY <3>4, <3>5
  <2>10. CASE Bring
    <3>1. UNCHANGED <<docker, verified, r, override>> /\ pc = "bring" /\ pc' = "create"
      BY <2>2, <2>10 DEF Bring, Exchange, Of, First
    <3>2. Still
      BY <3>1 DEF Running, Shown
    <3> QED BY <2>2, <2>3, <3>1, <3>2 DEF Exchange, BeforeBatches, BatchPcs, ToCome
  <2>11. CASE CreateReplica
    <3>1. /\ UNCHANGED <<named, verified, override, pc>> /\ pc = "create"
          /\ r' = [r EXCEPT !.creating = TRUE]
      BY <2>11 DEF CreateReplica, CreateFor
    <3>2. \E c : ctr' = [ctr EXCEPT ![c] = "created"]
      BY <2>11 DEF CreateReplica, CreateFor, CreateContainer
    <3>3. Still
      BY <3>1, <3>2 DEF Running, Shown, NamesInv, RollOK, DockerOK
    <3> QED BY <2>2, <2>3, <3>1, <3>3 DEF Exchange, BeforeBatches, BatchPcs, ToCome, NamesInv, RollOK
  <2>12. CASE RecordReplica
    <3>1. UNCHANGED <<docker, verified, override, pc>> /\ pc = "create"
      BY <2>12 DEF RecordReplica, RecordFor
    <3>2. PICK i \in r.missing :
            r' = [r EXCEPT !.creating = FALSE, !.missing = @ \ {i}, !.made = @ \cup {i},
                           !.fresh = IF r.dep = r.dep THEN @ \cup {i} ELSE @]
      BY <2>12 DEF RecordReplica, RecordFor, First
    <3>3. /\ r'.dep = d /\ r'.adopted = r.adopted /\ r'.inService = r.inService /\ r'.serving = r.serving
          /\ r'.todo = r.todo /\ r'.batch = r.batch /\ r'.missing \cup r'.made \subseteq r.missing \cup r.made
      BY <3>2 DEF NamesInv, RollOK
    <3>4. Still
      BY <3>1, <3>3 DEF Running, Shown
    <3> QED BY <2>2, <2>3, <3>1, <3>3, <3>4 DEF Exchange, BeforeBatches, BatchPcs, ToCome
  <2>13. CASE StartReplica
    <3>1. /\ UNCHANGED <<named, verified, override, r>> /\ pc = "create" /\ pc' \in {"create", "started"}
      BY <2>13 DEF StartReplica, StartFor
    <3>2. CASE UNCHANGED ctr
      <4>1. Still
        BY <3>1, <3>2 DEF Running, Shown
      <4> QED BY <2>2, <2>3, <3>1, <4>1 DEF Exchange, BeforeBatches, BatchPcs, ToCome
    <3>3. CASE ~UNCHANGED ctr
      <4>1. PICK i \in r.made : ctr[<<d, i>>] = "created" /\ ctr' = [ctr EXCEPT ![<<d, i>>] = "running"]
        BY <2>13, <3>3 DEF StartReplica, StartFor, Of, First
      <4>2. i \in Indexes => <<d, i>> \notin named /\ i \notin Shown
        BY <2>2, <3>1, <4>1 DEF NamesInv, DockerOK, Exchange, BatchPcs, ToCome
      <4>3. \A j \in Indexes : j # i => (Running(<<d, j>>)' <=> Running(<<d, j>>))
        BY <3>1, <4>1 DEF Running, NamesInv, DockerOK
      <4>4. Shown' = Shown
        BY <3>1 DEF Shown
      <4>5. Exchange
        BY <2>2
      <4> QED BY <3>1, <4>2, <4>3, <4>4, <4>5 DEF Exchange, BeforeBatches, BatchPcs, ToCome
    <3> QED BY <3>2, <3>3
  <2>14. CASE BatchReady
    <3>1. /\ UNCHANGED <<docker, override, r>> /\ pc = "check" /\ pc' = "swap"
          /\ verified' = verified \cup Of(d, r.batch)
      BY <2>14 DEF BatchReady, AwaitHealthy
    <3>2. \A i \in r.batch : <<d, i>> \in verified'
      BY <3>1 DEF Of
    <3>3. Shown' = Shown /\ ToCome' \subseteq ToCome /\ \A i \in Indexes : Running(<<d, i>>)' = Running(<<d, i>>)
      BY <3>1 DEF Shown, ToCome, Running
    <3> QED BY <2>2, <3>1, <3>2, <3>3 DEF Exchange, BeforeBatches, BatchPcs
  <2>15. CASE Swap
    <3>1. /\ UNCHANGED <<ctr, verified>> /\ pc = "swap" /\ pc' = "retire"
          /\ r'.dep = d /\ r'.adopted = r.adopted /\ r'.inService = r.inService
          /\ r'.todo = r.todo /\ r'.batch = r.batch /\ override'.members = r'.serving
          /\ named' = Synced(r'.serving) /\ r'.serving \subseteq r.serving \cup Of(d, r.batch)
      BY <2>15 DEF Swap, SyncOk, NamesInv, RollOK
    <3>2. \A i \in Indexes : <<d, i>> \in r'.serving => i \in Shown \/ i \in r.batch
      BY <3>1 DEF Shown, Of
    <3>3. \A i \in Indexes : <<d, i>> \in named' => <<d, i>> \in named \/ i \in Shown \/ i \in r.batch
      BY <3>1, <3>2 DEF Synced
    <3>4. \A i \in Shown' : i \in Indexes /\ (i \in Shown \/ i \in r.batch)
      BY <3>1, <3>2 DEF Shown
    <3>5. \A i \in Indexes : Running(<<d, i>>)' = Running(<<d, i>>)
      BY <3>1 DEF Running
    <3>6. ToCome = r.todo \ r.batch /\ ToCome' = r.todo \ r.batch
      BY <3>1 DEF ToCome
    <3> QED BY <2>2, <3>1, <3>3, <3>4, <3>5, <3>6 DEF Exchange, BeforeBatches, BatchPcs
  <2>16. CASE Retire \/ RetireStopped
    <3>1. /\ UNCHANGED override /\ pc = "retire" /\ pc' \in {"retire", "checked", "next"}
          /\ r'.dep = d /\ r'.adopted = r.adopted /\ r'.inService = r.inService /\ r'.serving = r.serving
      <4>1. UNCHANGED override /\ pc = "retire" /\ pc' \in {"retire", "checked", "next"}
        BY <2>16 DEF Retire, RetireStopped, AfterSwap
      <4>2. r'.dep = d /\ r'.adopted = r.adopted /\ r'.inService = r.inService /\ r'.serving = r.serving
        BY <2>16 DEF Retire, RetireStopped, NamesInv, RollOK
      <4> QED BY <4>1, <4>2
    <3>2. IF pc' = "retire" THEN r'.todo = r.todo /\ r'.batch = r.batch ELSE r'.todo = r.todo \ r.batch
      BY <2>16 DEF Retire, RetireStopped, AfterSwap, NamesInv, RollOK
    <3>3. \A i \in Indexes :
            /\ Running(<<d, i>>)' => Running(<<d, i>>)
            /\ Running(<<d, i>>)' /\ <<d, i>> \in verified => <<d, i>> \in verified'
            /\ <<d, i>> \in named' => <<d, i>> \in named
      <4>1. CASE UNCHANGED <<docker, verified>>
        BY <3>1, <4>1 DEF Running
      <4>2. CASE ~UNCHANGED <<docker, verified>>
        <5>1. PICK j : Gone({<<r.prev, j>>})
          BY <2>16, <4>2 DEF Retire, RetireStopped, Remove
        <5>2. \A i \in Indexes : <<d, i>> # <<r.prev, j>> /\ <<d, i>> \in Containers
          BY <2>2
        <5> QED BY <3>1, <5>1, <5>2 DEF Gone, Running
      <4> QED BY <4>1, <4>2
    <3>4. Still
      BY <3>1, <3>3 DEF Shown
    <3>5. Shown \cap (r.todo \ r.batch) = {}
      BY <2>2, <3>1 DEF Exchange, ToCome
    <3> QED BY <2>3, <3>1, <3>2, <3>4, <3>5 DEF BeforeBatches, BatchPcs, ToCome
  <2>17. CASE Activate \/ Fail
    BY <2>17 DEF Activate, Fail
  <2> QED BY <1>3, <2>4, <2>5, <2>6, <2>7, <2>8, <2>9, <2>10, <2>11, <2>12, <2>13, <2>14, <2>15, <2>16,
             <2>17 DEF ExecuteStep
<1>4. CASE AbortStep \/ AbortExpires \/ EndStep \/ DropNext \/ Dropped
  <2>1. pc' \notin ExecutePcs
    BY <1>4 DEF AbortStep, EndStep, Abort, Discard, BeginRollback, DrainsAwaited, Clear, BeginRestore,
                RestartOld, CreateRestored, CreateFor, RecordRestored, RecordFor, StartRestored, StartFor,
                Restored, RestoreFails, RolledBack, ResumeRollback, Sweep, Release, AbortExpires,
                DropNext, Dropped, NamesInv, RecordInv, InCharge
  <2> QED BY <2>1
<1>5. CASE SupervisionStep
  <2>1. ASSUME NEW c \in Containers, ProbePasses(c) \/ ProbesFail(c) PROVE Harmless
    BY <2>1 DEF ProbePasses, ProbesFail, Running
  <2>2. CASE \/ (\E c \in Containers : ContainerSupervised(c)) \/ BeginReconcile \/ ReconcileStep
             \/ Stop \/ Start \/ UserStep
    <3>1. pc' \notin ExecutePcs
      <4>1. CASE (\E c \in Containers : ContainerSupervised(c)) \/ BeginReconcile
        BY <4>1 DEF ContainerSupervised, RetireLeftover, NoteDisappeared, RestartDown, RestartUnhealthy,
                    Supervises, BeginReconcile
      <4>2. CASE ReconcileStep
        BY <4>2 DEF ReconcileStep, CreateReconciled, CreateFor, RecordReconciled, RecordFor, StartReconciled,
                    StartFor, Reconciled, ReconcileFails
      <4>3. CASE Stop \/ Start \/ UserStep
        BY <4>3 DEF Stop, Start, UserStep, StopReplica, StartStopped, Started, UserOpEnds
      <4> QED BY <2>2, <4>1, <4>2, <4>3
    <3> QED BY <3>1
  <2> QED BY <1>2, <1>5, <2>1, <2>2 DEF SupervisionStep
<1>6. CASE SyncTick
  <2>1. \A c \in named' : c \in named \/ c \in Members(override)
    BY <1>6 DEF SyncTick, Synced
  <2>2. \A c \in Members(override) : c[1] = active \/ c \in override.members
    BY DEF Members, Of
  <2> QED BY <1>2, <1>6, <2>1, <2>2 DEF SyncTick, Running
<1>7. ASSUME NEW c \in Containers, ContainerStep(c) PROVE Exchange'
  <2>1. ctr \in [Containers -> {"none", "created", "running", "stopping", "exited"}]
    BY DEF NamesInv, DockerOK
  <2>2. UNCHANGED <<pc, r, override>>
    BY <1>7 DEF ContainerStep, Exits, Dies, Disappears, DrainStops, DrainRemoves, DrainEnds
  <2>3. named' \subseteq named
    BY <1>7 DEF ContainerStep, Exits, Dies, Disappears, DrainStops, DrainRemoves, DrainEnds, Gone
  <2>4. \A e \in Containers : (Running(e)' => Running(e)) /\ (Running(e)' /\ e \in verified => e \in verified')
    BY <1>7, <2>1 DEF ContainerStep, Exits, Dies, Disappears, DrainStops, DrainRemoves, DrainEnds, Gone, Running
  <2> QED BY <1>2, <2>2, <2>3, <2>4
<1>8. CASE ShutdownBegins \/ (\E e \in Deployments : Settle(e)) \/ UNCHANGED vars
  BY <1>2, <1>8 DEF ShutdownBegins, Settle, vars, Running
<1>9. ASSUME NEW n \in Indexes, NEW s \in Strategies, Deploy(n, s) PROVE Exchange'
  <2>1. PICK e \in Deployments : Created = 1 .. e - 1 /\ r' = [NoRollout EXCEPT !.dep = e]
    BY <1>9 DEF Deploy
  <2>2. status[e] = "none"
    BY <2>1 DEF Created, Deployments
  <2>3. \A i \in Indexes : ctr[<<e, i>>] = "none"
    BY <2>2 DEF NamesInv, DockerOK
  <2>4. pc = "idle" /\ pc' = "execute" /\ UNCHANGED <<docker, override>>
    BY <1>9 DEF Deploy
  <2>5. r.dep = 0
    BY <2>4 DEF NamesInv, RecordInv, InCharge, Working, WorkPcs, AbortPcs
  <2>6. override.members = {}
    BY <2>5 DEF NamesInv, RollOK
  <2>7. r'.dep = e /\ r'.adopted = {} /\ r'.inService = {} /\ r'.serving = {}
    BY <2>1 DEF NoRollout
  <2>8. Shown' = {}
    BY <2>4, <2>6, <2>7 DEF Shown
  <2> QED BY <2>3, <2>4, <2>7, <2>8 DEF Exchange, Running, BatchPcs
<1>10. CASE AgentStops
  BY <1>10 DEF AgentStops, Forgotten
<1>11. CASE Recover
  <2>1. CASE RecoverWith({}, NoRollout)
    BY <2>1 DEF RecoverWith
  <2>2. ASSUME NEW e \in Deployments, RecoverWith({e}, Prepared(e)) PROVE FALSE
    <3>1. r' = Prepared(e)
      BY <2>2 DEF RecoverWith
    <3>2. Prepared(e).resumed
      BY DEF Prepared, Survey, Loaded, NoRollout
    <3> QED BY <3>1, <3>2
  <2> QED BY <1>11, <2>1, <2>2 DEF Recover
<1> QED BY <1>3, <1>4, <1>5, <1>6, <1>7, <1>8, <1>9, <1>10, <1>11 DEF Next, RolloutStep
\* The inductive invariant holds in every state of every behaviour.
LEMMA NamesInvHolds == Spec => []NamesInv
<1>1. Init => NamesInv
  <2> SUFFICES ASSUME Init PROVE NamesInv
    OBVIOUS
  <2>1. pc = "idle" /\ r = NoRollout /\ override = NoOverride
    BY DEF Init
  <2>2. DockerOK
    BY DEF Init, DockerOK, Containers
  <2>3. RollOK
    BY <2>1 DEF RollOK, NoRollout, NoOverride, ExecutePcs
  <2> QED BY <2>1, <2>2, <2>3, RecordInvFirst DEF NamesInv, ExecutePcs
<1>2. NamesInv /\ [Next]_vars => NamesInv'
  <2> SUFFICES ASSUME NamesInv, [Next]_vars PROVE NamesInv'
    OBVIOUS
  <2>1. RecordInv'
    BY RecordInvNext DEF NamesInv
  <2>2. DockerOK' /\ RollOK'
    BY <2>1, DockerStep, RollStep
  <2>3. pc' \in ExecutePcs /\ ~r'.resumed => Exchange'
    BY ExchangeStep
  <2> QED BY <2>1, <2>2, <2>3 DEF NamesInv, ExecutePcs
<1> QED BY <1>1, <1>2, PTL DEF Spec

\* A replica of the version being rolled out is findable only once its process
\* has passed its check (swap after awaitReady, names given by syncRoutes
\* alone), whatever else ticks, dies, fails or is stopped meanwhile.  A rollout
\* that a restarted agent takes up is left out: it starts a replica it finds
\* with the names that replica still carries.
THEOREM NamesAreEarned == Spec => [](~r.resumed => NamesEarned)
<1>1. NamesInv => (~r.resumed => NamesEarned)
  BY DEF NamesInv, NamesEarned, Exchange
<1> QED BY <1>1, NamesInvHolds, PTL
=============================================================================
