--------------------------- MODULE MCApplication ---------------------------
(* An application on small instances; the bounds are in the configurations.*)
(* A scenario says which deployments are made and what else may happen, so *)
(* that one run covers several without their product.                      *)
EXTENDS Application, TLC

CONSTANT Scenarios
VARIABLES scenario,
          excused    \* what runs although the application is stopped, for a reason

Case(s, n, deployments, stopping, dying, ops) ==
    [strategies |-> s, replicas |-> n, deployments |-> deployments,
     stops |-> stopping, deaths |-> dying, userOps |-> ops]
Anything == {Case(Strategies, MaxReplicas, MaxDeployments, MaxStops, MaxDeaths, MaxUserOps)}
OneStrategy == {Case({s}, MaxReplicas, MaxDeployments, MaxStops, MaxDeaths, MaxUserOps) : s \in Strategies}
Quiet == {Case({"recreate"}, 2, 2, 0, 1, 0), Case({"rolling"}, 2, 2, 0, 1, 0),
          Case({"rolling"}, 2, 1, 0, 0, 3), Case({"rolling"}, 2, 1, 0, 1, 2),
          Case({"rolling"}, 2, 2, 0, 0, 1), Case({"recreate"}, 2, 2, 0, 0, 1), Case({"recreate"}, 1, 2, 0, 1, 2),
          Case({"rolling"}, 1, 2, 1, 0, 1)}

WithinScenario ==
    /\ Cardinality(Created) <= scenario.deployments
    /\ \A d \in Created : strategy[d] \in scenario.strategies /\ replicas[d] <= scenario.replicas
    /\ agentStops <= scenario.stops
    /\ deaths <= scenario.deaths /\ userOps <= scenario.userOps

(* What of a stopped application runs for a reason: a start or the          *)
(* restoring of a version after a failed deployment has started it, or the *)
(* agent ended while it was stopping it.                                   *)
Excuse ==
    LET started == {c \in Containers : ~Running(c) /\ Running(c)'
                                       /\ pc \in {"userStart", "restart", "restore", "resumeRollback"}}
        spared == IF pc = "userStop" /\ agent' # "up" THEN {c \in Containers : Running(c)} ELSE {}
    IN excused' = IF scenario.userOps = 0 \/ desired' = "running" \/ (pc = "idle" /\ pc' = "userStop") THEN {}
                  ELSE {c \in excused \cup started \cup spared : Running(c)'}

MCInit == Init /\ scenario \in Scenarios /\ excused = {}
MCNext == Next /\ UNCHANGED scenario /\ WithinScenario' /\ Excuse
MCSpec == MCInit /\ [][MCNext]_<<vars, scenario, excused>>

(* No step of the fairness is one a scenario forbids: deployments, deaths  *)
(* and the user's requests are not part of it.                             *)
MCFairSpec == MCSpec /\ Fairness

(* A stopped application stays stopped, also when it is deployed while it   *)
(* is and the deployment fails, and when the agent stops meanwhile: at     *)
(* rest nothing of it runs, save what somebody's start left of a version    *)
(* it could not start as a whole, what the restoring of the replaced       *)
(* version put back, or what a stop had not reached when the agent ended.  *)
StaysStopped ==
    desired = "stopped" /\ agent = "up" /\ pc = "idle" /\ drains = {} =>
        \A c \in Containers : Running(c) => c \in excused /\ c[1] = active
=============================================================================
