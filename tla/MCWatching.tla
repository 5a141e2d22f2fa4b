----------------------------- MODULE MCWatching -----------------------------
(* What the agent's loops keep, tell and serve, on small instances: logs,  *)
(* alerts, certificates and the routes of the proxy.  They share no state: *)
(* a behaviour is one of a single part.                                    *)
EXTENDS LogSearch, Alerts, CertStatus, Routing

VARIABLE part

TwoBoxes == {1, 2}
Calm == [stops |-> 0, faults |-> 0, ends |-> FALSE, search |-> FALSE, workers |-> Workers,
         clock |-> 3, printed |-> 0, boxes |-> {1}]
OneWorker == {CHOOSE w \in Workers : TRUE}
Restarts == [Calm EXCEPT !.stops = 1, !.workers = OneWorker]
Faults == [Calm EXCEPT !.faults = 1]
Ends == [Calm EXCEPT !.ends = TRUE]
Searches == [Calm EXCEPT !.search = TRUE, !.workers = OneWorker, !.printed = 2, !.boxes = TwoBoxes]
MCLogBudgets == {Restarts, Faults, Ends, Searches}

AB(n, d, p, l, o, st, sa, r, ro) ==
    [replicas |-> n, deaths |-> d, probes |-> p, levels |-> l, outages |-> o, stops |-> st,
     starts |-> sa, restarts |-> r, rounds |-> ro]
MCAlertBudgets == {AB(1, 1, 2, 0, 0, 0, 0, 0, 0), AB(1, 0, 0, 3, 0, 0, 0, 0, 5), AB(2, 1, 1, 0, 0, 0, 0, 0, 0),
                   AB(1, 0, 1, 0, 1, 1, 0, 0, 0), AB(1, 0, 0, 1, 0, 1, 1, 0, 1), AB(1, 1, 0, 0, 0, 0, 0, 1, 1)}

CB(i, a, f, g, o, c) ==
    [issues |-> i, aging |-> a, failures |-> f, gates |-> g, outages |-> o, cuts |-> c]
MCCertBudgets == {CB(2, 4, 0, 0, 1, 0), CB(1, 0, 2, 1, 0, 0), CB(1, 0, 2, 0, 0, 1), CB(2, 0, 1, 0, 0, 1),
                  CB(0, 0, 3, 0, 0, 0)}

Claims(d, p, al, rd) == [domain |-> d, path |-> p, aliases |-> al, redirects |-> rd]
MCSpecs == [a |-> {Claims("x", <<>>, {}, {"r"})},
            b |-> {Claims("x", <<"api">>, {}, {}), Claims("r", <<>>, {}, {}), Claims("*", <<>>, {"x"}, {})}]
MCCerts == [c |-> {"*", "x", "r"}]
RB(he, st, d, del, ce, re, si, ca, go, rs) ==
    [here |-> he, stored |-> st, deploys |-> d, deletes |-> del, certs |-> ce, records |-> re,
     silences |-> si, caddy |-> ca, gone |-> go, restarts |-> rs, reads |-> 0]
Unread(b, n) == [b EXCEPT !.reads = n]
MCRoutingBudgets ==
    {RB({"x", "r"}, {}, 2, 1, 0, 0, 0, 0, 0, 0), RB({"x"}, {"c"}, 1, 0, 1, 0, 0, 0, 0, 0),
     RB({"x", "r"}, {"c"}, 2, 0, 0, 0, 0, 0, 0, 0), RB({"x"}, {}, 1, 0, 0, 1, 0, 0, 0, 0),
     RB({"x"}, {}, 1, 0, 0, 0, 1, 0, 0, 0),
     RB({"x"}, {}, 1, 0, 0, 0, 0, 1, 0, 0), RB({"x"}, {}, 1, 0, 0, 0, 0, 0, 1, 0),
     RB({"x"}, {}, 1, 0, 0, 0, 0, 0, 0, 1),
     RB({}, {"c"}, 1, 0, 1, 0, 1, 0, 0, 0),
     Unread(RB({"x"}, {"c"}, 1, 0, 1, 0, 0, 0, 0, 0), 2)}
(* The agent restarts while the resolver is silent.                        *)
MCSilentRestart == {RB({"x"}, {}, 1, 0, 0, 0, 1, 0, 0, 1)}
MCOrder == <<"a", "b">>

One(S) == CHOOSE x \in S : TRUE

WatchingInit ==
    /\ part \in {"logs", "alerts", "certificates", "routes"}
    /\ SearchInit /\ AlertInit /\ CertInit /\ RoutingInit
    /\ part # "logs" => budget = One(Budgets)
    /\ part # "alerts" => spare = One(AlertBudgets)
    /\ part # "certificates" => certLeft = One(CertBudgets)
    /\ part # "routes" => routingLeft = One(RoutingBudgets)

WatchingNext ==
    /\ UNCHANGED part
    /\ \/ part = "logs" /\ SearchNext /\ UNCHANGED <<alertVars, certVars, routingVars>>
       \/ part = "alerts" /\ AlertNext /\ UNCHANGED <<searchVars, certVars, routingVars>>
       \/ part = "certificates" /\ CertNext /\ UNCHANGED <<searchVars, alertVars, routingVars>>
       \/ part = "routes" /\ RoutingNext /\ UNCHANGED <<searchVars, alertVars, certVars>>

(* The fairness of the parts: the loops and what they began go on, the     *)
(* daemon, the proxy and a resolver come back, and time passes.            *)
Loops == \/ part = "logs" /\ LogProgress /\ UNCHANGED <<srch, alertVars, certVars, routingVars>>
         \/ part = "alerts" /\ TickSteps /\ UNCHANGED <<searchVars, certVars, routingVars>>
         \/ part = "certificates" /\ CheckSteps /\ UNCHANGED <<searchVars, alertVars, routingVars>>
         \/ part = "routes" /\ TickStep /\ UNCHANGED <<searchVars, alertVars, certVars>>
OtherLoops == \/ part = "alerts" /\ (SamplerLists \/ CheckMemory) /\ UNCHANGED routingVars
              \/ part = "routes" /\ OperationStep /\ UNCHANGED alertVars
Returns == \/ part = "alerts" /\ DockerReturns /\ UNCHANGED routingVars
           \/ part = "routes" /\ (ResolverAnswers \/ CaddyBack) /\ UNCHANGED alertVars

WatchingSpec ==
    /\ WatchingInit /\ [][WatchingNext]_<<part, searchVars, alertVars, certVars, routingVars>>
    /\ WF_<<searchVars, alertVars, certVars, routingVars>>(Loops)
    /\ WF_<<alertVars, routingVars>>(OtherLoops)
    /\ WF_<<alertVars, routingVars>>(Returns)
    /\ \A h \in HostNames : WF_routingVars(part = "routes" /\ VerdictAges(h))
    /\ WF_routingVars(part = "routes" /\ ConfigAges) /\ WF_routingVars(part = "routes" /\ AsksAgain)

(* What is due is done in the end: runs are archived, alerts end, a        *)
(* certificate that runs out is told of, and what is planned is served,    *)
(* after lost configurations, other images, silent resolvers and restarts  *)
(* (Sync's verification, the tick).                                        *)
AllIsDone == RunsArchived /\ AlertsEnd /\ ExpiryIsTold /\ <>[](part = "routes" => ServedAsPlanned)
=============================================================================
