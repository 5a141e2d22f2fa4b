------------------------------- MODULE MCAgent ------------------------------
(* The agent on small instances: a job that fires every second minute and  *)
(* a pre-deploy command, the configuration of an application, its static   *)
(* folders and images, and the process from its start to its end.  They    *)
(* share no state: a behaviour is one of a single part.                    *)
EXTENDS Jobs, Configuration, Versions, AgentProcess, TLC

VARIABLE part

EverySecond == [j \in Jobs |-> 2]
OneMinute == [j \in Jobs \cup {"pre-deploy", "run"} |-> 1]

(* Documents with plain values, with placeholders of the server (S) and of *)
(* the client (L), and with dollars that are escaped.                      *)
P(n, d) == [word |-> n, dollars |-> d]
D(a, b, p, c) == [env |-> [A |-> a, B |-> b], password |-> p, command |-> c]
MCFiles == {D(<<Word("info")>>, <<Word("url"), P("S", 1)>>, <<P("S", 1)>>, <<P("S", 2)>>),
            D(<<P("S", 2)>>, <<P("S", 1), P("L", 1)>>, <<P("L", 1)>>, <<P("L", 1)>>),
            D(<<P("S", 3)>>, <<P("L", 1)>>, <<P("L", 2), P("S", 1)>>, <<P("S", 3)>>)}
MCSecretTexts == {<<Word("key")>>, <<Word("short")>>}
MCEnvironments == {"L" :> <<Word("local")>>, [n \in {} |-> <<>>]}

VB(f, s, d, sl) == [faults |-> f, stops |-> s, deletes |-> d, slow |-> sl]
MCVersionBudgets == {VB(1, 0, 0, 0), VB(0, 1, 0, 0), VB(0, 0, 1, 0), VB(0, 0, 0, 1)}

PB(r, d, s, k, b, n) ==
    [requests |-> r, deploys |-> d, signals |-> s, faults |-> k, backs |-> b, starts |-> n]
MCProcessBudgets == {PB(1, 1, 1, 0, 0, 2), PB(1, 0, 1, 1, 0, 2), PB(0, 0, 1, 0, 1, 2)}

One(S) == CHOOSE x \in S : TRUE

(* Two deployments, with a stop or a request but not both, nor a fault; or *)
(* one deployment with all of them.                                        *)
JobsParts == {"jobs", "redeployed"}
WithinBounds ==
    IF part = "jobs" THEN used'.deploys <= 1
    ELSE used'.faults = 0 /\ used'.stops + used'.requests <= 1

AgentInit ==
    /\ part \in JobsParts \cup {"configuration", "versions", "process"}
    /\ JobsInit /\ ConfigInit /\ VersionInit /\ ProcessInit
    /\ part # "versions" => allowed = One(VersionBudgets)
    /\ part # "process" => processLeft = One(ProcessBudgets)

AgentNext ==
    /\ UNCHANGED part
    /\ \/ part \in JobsParts /\ JobsNext /\ WithinBounds /\ UNCHANGED <<configVars, versionVars, processVars>>
       \/ part = "configuration" /\ ConfigNext /\ UNCHANGED <<jobVars, versionVars, processVars>>
       \/ part = "versions" /\ VersionNext /\ UNCHANGED <<jobVars, configVars, processVars>>
       \/ part = "process" /\ ProcessNext /\ UNCHANGED <<jobVars, configVars, versionVars>>

AgentSpec ==
    /\ AgentInit /\ [][AgentNext]_<<part, jobVars, configVars, versionVars, processVars>>
    /\ WF_jobVars(part \in JobsParts /\ AgentStep) /\ WF_jobVars(part \in JobsParts /\ Minute)
=============================================================================
