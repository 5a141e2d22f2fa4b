---------------------------- MODULE Supervision ----------------------------
(***************************************************************************)
(* What keeps an application as it is meant to be between deployments: the  *)
(* supervisor (supervisor.go), which works on an application only while     *)
(* nobody else does, its health probes, which run outside the lock, and the *)
(* user's stop and start (operations.go).                                   *)
(***************************************************************************)
EXTENDS AppState

\* Faulty variant: whatever is active is kept running.
SupervisesAnyway == agent = "up" /\ pc = "idle" /\ active # 0

\* superviseApp has the lock and finds the application meant to run.
Supervises == agent = "up" /\ pc = "idle" /\ active # 0 /\ desired = "running"

\* Containers of any other deployment are leftovers.
RetireLeftover(c) ==
    /\ Supervises
    /\ Exists(c) /\ c[1] # active /\ c \notin drains
    /\ drains' = drains \cup {c}
    /\ UNCHANGED <<db, docker, agent, pc, r, override, unready, ended, ghosts>>

\* noteDisappeared: a row without a container.
NoteDisappeared(c) ==
    /\ Supervises
    /\ c \in row /\ c[1] = active /\ ~Exists(c)
    /\ row' = row \ {c}
    /\ UNCHANGED <<records, application, docker, memory, ghosts>>

\* superviseDown: a replica that is not running is started, nameless, and is
\* "starting" until it has passed its check.
RestartDown(c) ==
    /\ Supervises
    /\ c \in row /\ c[1] = active /\ ctr[c] \in {"exited", "created"}
    /\ StartNameless(c)
    /\ unready' = unready \cup {c}
    /\ UNCHANGED <<db, agent, pc, r, override, drains, ended, ghosts>>

\* superviseRunning: an unhealthy one is stopped and started again.
RestartUnhealthy(c) ==
    /\ Supervises
    /\ c \in row \cap unready /\ c[1] = active /\ ctr[c] = "running"
    /\ StartNameless(c)
    /\ verified' = verified \ {c}
    /\ UNCHANGED <<db, memory, whole, bounds>>

\* A probe's answer, whoever holds the application by then.
ProbePasses(c) ==
    /\ agent = "up"
    /\ c[1] = active /\ ctr[c] = "running" /\ c \in unready \cup (row \ verified)
    /\ unready' = unready \ {c}
    /\ verified' = verified \cup {c}
    /\ UNCHANGED <<db, docker, agent, pc, r, override, drains, ended, whole, bounds>>

ProbesFail(c) ==
    /\ agent = "up" /\ deaths < MaxDeaths
    /\ c \in row \ unready /\ c[1] = active /\ ctr[c] = "running"
    /\ unready' = unready \cup {c}
    /\ whole' = FALSE
    /\ deaths' = deaths + 1
    /\ UNCHANGED <<db, docker, agent, pc, r, override, drains, ended, verified, agentStops, userOps>>

----------------------------------------------------------------------------
(* recreateReplicas.                                                       *)

Present == {i \in Indexes : <<active, i>> \in row /\ Exists(<<active, i>>)}

BeginReconcile ==
    /\ Supervises
    /\ Wanted(active) \ Present # {}
    /\ \A i \in Recorded(active) : Exists(<<active, i>>)
    /\ r' = [NoRollout EXCEPT !.prev = active, !.missing = Wanted(active) \ Present]
    /\ pc' = "reconcile"
    /\ UNCHANGED <<db, docker, agent, override, drains, unready, ended, ghosts>>

CreateReconciled == agent = "up" /\ CreateFor(r.prev, "reconcile")
RecordReconciled == agent = "up" /\ RecordFor(r.prev, "reconcile")
StartReconciled == agent = "up" /\ StartFor(r.prev, "reconcile", "reconciled")

\* Like any freshly started replica: no traffic until it has passed.
Reconciled ==
    /\ agent = "up" /\ pc = "reconciled"
    /\ unready' = unready \cup Of(r.prev, r.made)
    /\ r' = NoRollout
    /\ pc' = "idle"
    /\ UNCHANGED <<db, docker, agent, override, drains, ended, ghosts>>

\* A container could not be created, recorded or started: those that were go
\* again, and the next attempt waits.
ReconcileFails ==
    /\ agent = "up" /\ pc = "reconcile"
    /\ Faults \/ (~r.creating /\ \E c \in Of(r.prev, First(r.missing)) : Exists(c))
    /\ Gone(Uncreated(r.prev))
    /\ r' = [r EXCEPT !.creating = FALSE, !.drop = Of(r.prev, r.made), !.then = "idle"]
    /\ pc' = "dropping"
    /\ UNCHANGED <<db, agent, override, drains, unready, ended, whole, bounds>>

----------------------------------------------------------------------------
(* Stop and Start, on the replicas of the active deployment.               *)

\* The intention is recorded first; taking the application out of rotation
\* leaves the names to be dropped by Docker when the replicas stop.
Stop ==
    /\ agent = "up" /\ pc = "idle" /\ active # 0
    /\ userOps < MaxUserOps
    /\ desired' = "stopped"
    /\ r' = [NoRollout EXCEPT !.prev = active, !.old = Recorded(active)]
    /\ pc' = "userStop"
    /\ userOps' = userOps + 1
    /\ UNCHANGED <<records, active, row, docker, agent, override, drains, unready,
                   ended, verified, whole, agentStops, deaths>>

\* In parallel, so in any order.
StopReplica(i) ==
    /\ agent = "up" /\ pc = "userStop" /\ i \in r.old
    /\ LET c == <<r.prev, i>> IN
        /\ ctr' = [ctr EXCEPT ![c] = IF Running(c) THEN "exited" ELSE @]
        /\ verified' = verified \ {c}
    /\ r' = [r EXCEPT !.old = @ \ {i}]
    /\ UNCHANGED <<db, named, agent, pc, override, drains, unready, ended, whole, bounds>>

Start ==
    /\ agent = "up" /\ pc = "idle" /\ active # 0
    /\ userOps < MaxUserOps
    /\ r' = [NoRollout EXCEPT !.prev = active, !.old = Recorded(active)]
    /\ pc' = "userStart"
    /\ userOps' = userOps + 1
    /\ UNCHANGED <<db, docker, agent, override, drains, unready, ended, verified, whole,
                   agentStops, deaths>>

StartStopped ==
    /\ agent = "up" /\ pc = "userStart"
    /\ \E c \in Of(r.prev, First(r.old \ r.made)) :
        /\ StartNameless(c)
        /\ r' = [r EXCEPT !.made = @ \cup {c[2]}]
    /\ UNCHANGED <<db, agent, pc, override, drains, unready, ended, ghosts>>

\* All of them started: a clean slate for the supervisor, the intention is
\* recorded, and the routing that follows finds none of them ready.
Started ==
    /\ agent = "up" /\ pc = "userStart" /\ r.made = r.old
    /\ unready' = unready \cup Of(r.prev, r.old)
    /\ desired' = "running"
    /\ \/ named' = named \ {c \in Of(r.prev, r.old) : Running(c)}
       \/ Faults /\ UNCHANGED named
    /\ r' = NoRollout
    /\ pc' = "idle"
    /\ UNCHANGED <<records, active, row, ctr, agent, override, drains, ended, ghosts>>

\* Stop is done; or Start found that a container no longer exists; or Docker
\* or the client ended either.
UserOpEnds ==
    /\ agent = "up"
    /\ \/ pc = "userStop" /\ r.old = {}
       \/ pc = "userStart" /\ \E c \in Of(r.prev, First(r.old \ r.made)) : ~Exists(c)
       \/ Faults /\ pc \in {"userStop", "userStart"}
    /\ r' = NoRollout
    /\ pc' = "idle"
    /\ UNCHANGED <<db, docker, agent, override, drains, unready, ended, ghosts>>

----------------------------------------------------------------------------

ContainerSupervised(c) ==
    \/ RetireLeftover(c) \/ NoteDisappeared(c) \/ RestartDown(c) \/ RestartUnhealthy(c)

ReconcileStep ==
    \/ CreateReconciled \/ RecordReconciled \/ StartReconciled \/ Reconciled \/ ReconcileFails

UserStep ==
    \/ \E i \in Indexes : StopReplica(i)
    \/ StartStopped \/ Started \/ UserOpEnds
=============================================================================
