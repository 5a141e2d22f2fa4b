-------------------------- MODULE DeploymentRecord --------------------------
(***************************************************************************)
(* What the deployment records of one application promise to whoever reads *)
(* them (the API, the next agent): a record moves only along the state      *)
(* machine, the active pointer moves only at a commit, and a record that    *)
(* says it has completed is final, except that a later commit supersedes    *)
(* it.  Application implements this.                                        *)
(***************************************************************************)
EXTENDS Integers

CONSTANT MaxDeployments   \* bound: deployments ever made of the application

VARIABLES status, completed, active

recordVars == <<status, completed, active>>

Records == 1 .. MaxDeployments

InWork == {"PENDING", "BUILDING", "STARTING", "HEALTH_CHECKING", "HEALTHY", "ROLLBACK", "RESTORING"}

\* The state machine of one deployment on its own; the commit moves two.
Steps ==
    { <<"PENDING", "BUILDING">>, <<"BUILDING", "STARTING">>,
      <<"STARTING", "HEALTH_CHECKING">>, <<"HEALTH_CHECKING", "HEALTHY">>,
      <<"FAILED", "ROLLBACK">>, <<"ROLLBACK", "RESTORING">>, <<"RESTORING", "ROLLED_BACK">> }
        \cup { <<s, "FAILED">> : s \in InWork }

Init ==
    /\ status = [d \in Records |-> "none"]
    /\ completed = [d \in Records |-> FALSE]
    /\ active = 0

Make(d) ==
    /\ status[d] = "none"
    /\ \A e \in 1 .. d - 1 : status[e] # "none"
    /\ status' = [status EXCEPT ![d] = "PENDING"]
    /\ UNCHANGED <<completed, active>>

Move(d, to) ==
    /\ ~completed[d]
    /\ <<status[d], to>> \in Steps
    /\ status' = [status EXCEPT ![d] = to]
    /\ UNCHANGED <<completed, active>>

\* The commit: one version takes the place of the other.
Commit(d) ==
    /\ ~completed[d]
    /\ status[d] = "HEALTHY"
    /\ status' = [e \in Records |-> CASE e = d -> "ACTIVE"
                                      [] e # d /\ status[e] = "ACTIVE" -> "SUPERSEDED"
                                      [] OTHER -> status[e]]
    /\ active' = d
    /\ UNCHANGED completed

\* The end of a deployment, or of all that an agent finds: whatever is still
\* in a status of work has failed.
Close(D) ==
    /\ \A d \in D : status[d] # "none"
    /\ status' = [d \in Records |-> IF d \in D /\ status[d] \in InWork THEN "FAILED" ELSE status[d]]
    /\ completed' = [d \in Records |-> completed[d] \/ d \in D]
    /\ UNCHANGED active

Next ==
    \/ \E d \in Records : Make(d) \/ Commit(d)
    \/ \E d \in Records, to \in {"BUILDING", "STARTING", "HEALTH_CHECKING", "HEALTHY", "FAILED",
                                 "ROLLBACK", "RESTORING", "ROLLED_BACK"} : Move(d, to)
    \/ \E D \in SUBSET Records : Close(D)

Spec == Init /\ [][Next]_recordVars
=============================================================================
