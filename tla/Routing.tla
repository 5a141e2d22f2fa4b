------------------------------ MODULE Routing ------------------------------
(***************************************************************************)
(* Which hostnames the reverse proxy serves, and for whom.  Deployments    *)
(* claim hostnames (routing.go), a hostname reaches the proxy once its DNS *)
(* record points at the server or a certificate of the operator covers it  *)
(* (dns.go, certificates.go), and the configuration is loaded into Caddy   *)
(* (proxy/caddy.go, config.go, tls.go).  The supervisor's tick syncs again *)
(* and again ("tick"); a deployment or a change of the certificates syncs  *)
(* at its end ("op"), at the same time.                                    *)
(* A wildcard matches every exact hostname of the model; a path is the     *)
(* sequence of its parts.  Who stands behind a route is Rollout's part.    *)
(***************************************************************************)
EXTENDS Naturals, Sequences, FiniteSets, SequencesExt

CONSTANTS
    AppOrder,        \* the applications in the order of their names
    Exact, Wild,     \* the hostnames
    OwnHosts,        \* served for Shipwick itself (ExtraRoutes)
    Specs,           \* Specs[app]: what its deployments may claim
    Certs,           \* Certs[c]: the hostnames certificate c covers
    DNSChallenge,    \* certificates come through the DNS challenge
    RoutingBudgets   \* scenarios: which hostnames point here and which certificates
                     \* are stored at first, and how often each event may happen

ASSUME RoutingAssumption == Exact \cap Wild = {} /\ OwnHosts \subseteq Exact

VARIABLES
    routingLeft,
    active, pending,         \* the spec that is active, the one admitted and not committed
    record, noAnswer,          \* the DNS: where each hostname points; the resolver does not answer
    storedCerts, certList, certLoaded,       \* the store, and certificateCache
    verdict,                 \* hostnameCache: [known, ready, stale]
    sync,                    \* the syncs: [phase, due, routes]
    applied, verified, plainLookups, synced,     \* Caddy (the agent's client); synced: the last sync told it
    running, reachable, stock, \* Caddy itself; stock: without Shipwick's source of replicas
    answered,                \* what the resolver last answered about a hostname
    heldOver                     \* history: hostnames a silence keeps ready by a certificate's verdict

storeVars == <<active, pending, storedCerts>>
dnsVars == <<record, noAnswer>>
cacheVars == <<certList, certLoaded, verdict>>
clientVars == <<applied, verified, plainLookups, synced>>
caddyVars == <<running, reachable, stock>>
routingVars == <<routingLeft, storeVars, dnsVars, cacheVars, sync, clientVars, caddyVars, answered, heldOver>>

Spends(what) == routingLeft[what] > 0 /\ routingLeft' = [routingLeft EXCEPT ![what] = @ - 1]

RApps == {AppOrder[i] : i \in DOMAIN AppOrder}
HostNames == Exact \cup Wild
Syncs == {"tick", "op"}
NoSpec == [domain |-> "", path |-> <<>>, aliases |-> {}, redirects |-> {}]
Unchecked == [known |-> FALSE, ready |-> FALSE, stale |-> TRUE]
Resting == [phase |-> "idle", due |-> {}, routes |-> {}]
NoConfig == [routes |-> {}, certs |-> {}, plain |-> FALSE, loaded |-> FALSE]

RoutingInit ==
    /\ routingLeft \in RoutingBudgets
    /\ active = [a \in RApps |-> NoSpec] /\ pending = [a \in RApps |-> NoSpec]
    /\ record = [h \in HostNames |-> IF h \in routingLeft.here THEN "here" ELSE "away"] /\ noAnswer = FALSE
    /\ storedCerts = routingLeft.stored /\ certList = {} /\ certLoaded = FALSE
    /\ verdict = [h \in HostNames |-> Unchecked]
    /\ sync = [s \in Syncs |-> Resting]
    /\ applied = NoConfig /\ verified = FALSE /\ plainLookups = FALSE /\ synced = FALSE
    /\ running = NoConfig /\ reachable = TRUE /\ stock = FALSE
    /\ answered = [h \in HostNames |-> "none"] /\ heldOver = {}

-----------------------------------------------------------------------------
(* What an application claims, and who may have it.                        *)
Served(s) == ({s.domain} \ {""}) \cup s.aliases
AllHosts(s) == Served(s) \cup s.redirects
Parts(s) == {<<h, s.path>> : h \in Served(s)}

CertCovers(certs, h) == \E c \in certs : h \in Certs[c]

(* checkDomain: the same part twice, or any part of what is redirected or  *)
(* Shipwick's own, is refused.                                             *)
FreeToClaim(app, s) ==
    LET others == {active[o] : o \in RApps \ {app}}
        whole == OwnHosts \cup UNION {o.redirects : o \in others}
        parts == UNION {Parts(o) : o \in others}
    IN /\ AllHosts(s) \cap whole = {}
       /\ \A h \in s.redirects : \A p \in parts : p[1] # h
       /\ Parts(s) \cap parts = {}

(* suppliedCertificates: from the store unless the cache is current.       *)
CurrentCerts == IF certLoaded THEN certList ELSE storedCerts
LoadCertificates == certLoaded' = TRUE /\ certList' = CurrentCerts
KeepCertificates == UNCHANGED <<certList, certLoaded>>

(* The database does not give them.                                        *)
CertificatesUnread == ~certLoaded /\ Spends("reads") /\ KeepCertificates

(* checkWildcards                                                          *)
Wildcards(s) == IF DNSChallenge THEN {} ELSE AllHosts(s) \cap Wild
WildcardsHad(s) == \A h \in Wildcards(s) : CertCovers(CurrentCerts, h)

(* routesFor, for one plan: what is free of what it claims.  The domain is *)
(* claimed even while it waits for DNS, and everything waits with it.      *)
Grant(ready, got, s) ==
    LET free(hosts, parts) == {h \in hosts : h \notin got.taken /\ <<h, s.path>> \notin parts}
        parts == got.parts \cup {<<s.domain, s.path>>}
        aliases == free({h \in s.aliases : ready[h]}, parts)
        shared == {p[1] : p \in parts}
        redirects == {h \in s.redirects : ready[h] /\ h \notin shared /\ h \notin got.taken}
    IN CASE s.domain = "" \/ free({s.domain}, got.parts) = {} -> got
         [] ~ready[s.domain] -> [got EXCEPT !.parts = parts]
         [] OTHER ->
              [routes |-> got.routes \cup {[domain |-> s.domain, path |-> s.path,
                                            hosts |-> {s.domain} \cup aliases, redirects |-> redirects]},
               taken |-> got.taken \cup redirects,
               parts |-> parts \cup {<<h, s.path>> : h \in aliases}]

(* routingPlans and routesFor: the applications in the order of their names *)
RoutesFor(ready) ==
    LET own == [routes |-> {[domain |-> h, path |-> <<>>, hosts |-> {h}, redirects |-> {}] : h \in OwnHosts},
                taken |-> OwnHosts, parts |-> {}]
    IN FoldLeft(LAMBDA got, app : Grant(ready, got, active[app]), own, AppOrder).routes

Planned == UNION {AllHosts(active[a]) : a \in RApps}

-----------------------------------------------------------------------------
(* The deployments.  A commit, and a deletion, sync at their end.          *)
Begins(s) == sync' = [sync EXCEPT ![s] = [Resting EXCEPT !.phase = "load"]]

Admit(app, s) ==
    /\ Spends("deploys") /\ pending[app] = NoSpec
    /\ FreeToClaim(app, s) /\ WildcardsHad(s)
    /\ IF Wildcards(s) = {} THEN KeepCertificates ELSE LoadCertificates
    /\ pending' = [pending EXCEPT ![app] = s]
    /\ UNCHANGED <<active, storedCerts, dnsVars, verdict, sync, clientVars, caddyVars, answered, heldOver>>

Commit(app) ==
    /\ pending[app] # NoSpec /\ sync["op"].phase = "idle"
    /\ active' = [active EXCEPT ![app] = pending[app]]
    /\ pending' = [pending EXCEPT ![app] = NoSpec]
    /\ Begins("op")
    /\ UNCHANGED <<routingLeft, storedCerts, dnsVars, cacheVars, clientVars, caddyVars, answered, heldOver>>

DeleteApp(app) ==
    /\ Spends("deletes") /\ active[app] # NoSpec /\ sync["op"].phase = "idle"
    /\ active' = [active EXCEPT ![app] = NoSpec]
    /\ Begins("op")
    /\ UNCHANGED <<pending, storedCerts, dnsVars, cacheVars, clientVars, caddyVars, answered, heldOver>>

(* Set- and DeleteCertificate write the store; certificatesChanged forgets *)
(* the cache and syncs.                                                    *)
ChangeCertificate(c) ==
    /\ Spends("certs") /\ sync["op"].phase = "idle"
    /\ storedCerts' = IF c \in storedCerts THEN storedCerts \ {c} ELSE storedCerts \cup {c}
    /\ sync' = [sync EXCEPT !["op"].phase = "forget"]
    /\ UNCHANGED <<active, pending, dnsVars, cacheVars, clientVars, caddyVars, answered, heldOver>>

ForgetCertificates ==
    /\ sync["op"].phase = "forget"
    /\ certLoaded' = FALSE /\ certList' = {}
    /\ Begins("op")
    /\ UNCHANGED <<routingLeft, storeVars, dnsVars, verdict, clientVars, caddyVars, answered, heldOver>>

-----------------------------------------------------------------------------
(* One sync.                                                               *)
TickBegins ==
    /\ sync["tick"].phase = "idle"
    /\ Begins("tick")
    /\ UNCHANGED <<routingLeft, storeVars, dnsVars, cacheVars, clientVars, caddyVars, answered, heldOver>>

(* The certificates are read before the hostnames are judged; without them *)
(* the hostnames are judged by what is remembered.                         *)
SyncLoads(s) ==
    /\ sync[s].phase = "load"
    /\ (LoadCertificates /\ UNCHANGED routingLeft) \/ CertificatesUnread
    /\ sync' = [sync EXCEPT ![s].phase = "judge"]
    /\ UNCHANGED <<storeVars, dnsVars, verdict, clientVars, caddyVars, answered, heldOver>>

(* Mutant: a verdict owed to a certificate counts as an answer.            *)
DecidedAsAnswer(ready) == [known |-> TRUE, ready |-> ready, stale |-> FALSE]

(* hostnameCache.decide: due for a lookup the moment nobody decides.       *)
Decided(ready) == [known |-> TRUE, ready |-> ready, stale |-> TRUE]

(* decidedWithoutLookup                                                    *)
DecidedHosts == {h \in HostNames : CertCovers(certList, h) \/ h \in Wild}
DecidedReady(h) == CertCovers(certList, h) \/ DNSChallenge

(* refreshHostnames: what no lookup has a say in, and what is due for one. *)
SyncJudges(s) ==
    /\ sync[s].phase = "judge"
    /\ verdict' = [h \in HostNames |-> IF h \in Planned \cap DecidedHosts
                                       THEN Decided(DecidedReady(h)) ELSE verdict[h]]
    /\ sync' = [sync EXCEPT ![s].phase = "lookup",
                            ![s].due = {h \in Planned \ DecidedHosts : verdict[h].stale}]
    /\ UNCHANGED <<routingLeft, storeVars, dnsVars, certList, certLoaded, clientVars, caddyVars, answered, heldOver>>

(* Mutant: a silent resolver is read like a record that is gone.           *)
KeepServingNever(h) == FALSE

(* keepServing                                                             *)
KeepServing(h) == verdict[h].known /\ verdict[h].ready

(* lookupHostname: the lookups of a refresh end in any order.              *)
SyncLooksUp(s, h) ==
    /\ sync[s].phase = "lookup" /\ h \in sync[s].due
    /\ verdict' = [verdict EXCEPT ![h] = [known |-> TRUE, stale |-> FALSE,
                        ready |-> IF noAnswer THEN KeepServing(h) ELSE record[h] = "here"]]
    /\ answered' = IF noAnswer THEN answered ELSE [answered EXCEPT ![h] = record[h]]
    /\ heldOver' = IF noAnswer /\ KeepServing(h) /\ answered[h] # "here" THEN heldOver \cup {h} ELSE heldOver \ {h}
    /\ sync' = [sync EXCEPT ![s].due = @ \ {h}]
    /\ UNCHANGED <<routingLeft, storeVars, dnsVars, certList, certLoaded, clientVars, caddyVars>>

(* Under e.routing: the routes from the plans and the cache as they are now. *)
SyncRoutes(s) ==
    /\ sync[s].phase = "lookup" /\ sync[s].due = {}
    /\ \A o \in Syncs : sync[o].phase # "apply"
    /\ sync' = [sync EXCEPT ![s].phase = "apply",
                            ![s].routes = RoutesFor([h \in HostNames |-> verdict[h].ready])]
    /\ UNCHANGED <<routingLeft, storeVars, dnsVars, cacheVars, clientVars, caddyVars, answered, heldOver>>

(* syncWith, for the configuration want.                                   *)
UpToDate(want) == want = applied /\ verified
StillRuns(want) == want = applied /\ running = want

(* Mutant: a configuration that was loaded once is never looked at again.  *)
AppliesOnce(want) ==
    IF want = applied THEN UNCHANGED <<applied, verified, running>> /\ synced' = TRUE
    ELSE applied' = want /\ running' = want /\ verified' = TRUE /\ synced' = TRUE

Applies(want) ==
    \/ /\ UpToDate(want)
       /\ synced' = TRUE /\ UNCHANGED <<applied, verified, running>>
    \/ /\ ~UpToDate(want) /\ reachable /\ StillRuns(want)
       /\ verified' = TRUE /\ synced' = TRUE /\ UNCHANGED <<applied, running>>
    \/ /\ ~UpToDate(want) /\ reachable /\ ~StillRuns(want)
       /\ running' = want /\ applied' = want /\ verified' = TRUE /\ synced' = TRUE
    \/ /\ ~UpToDate(want) /\ ~reachable
       /\ synced' = FALSE /\ UNCHANGED <<applied, verified, running>>

(* Caddy.Sync with the certificates there are now: a proxy that lacks the  *)
(* source of replicas gets the configuration without it.                   *)
SyncApplies(s) ==
    LET want(plain) == [routes |-> sync[s].routes, certs |-> CurrentCerts, plain |-> plain, loaded |-> TRUE]
        refused == ~plainLookups /\ stock /\ reachable /\ ~UpToDate(want(FALSE)) /\ ~StillRuns(want(FALSE))
        plain == plainLookups \/ refused
    IN /\ sync[s].phase = "apply"
       /\ LoadCertificates
       /\ plainLookups' = plain
       /\ Applies(want(plain))
       /\ sync' = [sync EXCEPT ![s] = Resting]
       /\ UNCHANGED <<routingLeft, storeVars, dnsVars, verdict, reachable, stock, answered, heldOver>>

(* Without the certificates the proxy keeps the configuration it has.       *)
SyncGivesUp(s) ==
    /\ sync[s].phase = "apply"
    /\ CertificatesUnread
    /\ synced' = FALSE
    /\ sync' = [sync EXCEPT ![s] = Resting]
    /\ UNCHANGED <<storeVars, dnsVars, verdict, applied, verified, plainLookups, caddyVars, answered, heldOver>>

-----------------------------------------------------------------------------
(* The world: records change, the resolver and the proxy come and go, time *)
(* passes.                                                                 *)
RecordChanges(h) ==
    /\ Spends("records") /\ h \in Exact
    /\ record' = [record EXCEPT ![h] = IF @ = "here" THEN "away" ELSE "here"]
    /\ UNCHANGED <<storeVars, noAnswer, cacheVars, sync, clientVars, caddyVars, answered, heldOver>>

ResolverFails == ~noAnswer /\ Spends("silences") /\ noAnswer' = TRUE
                 /\ UNCHANGED <<storeVars, record, cacheVars, sync, clientVars, caddyVars, answered, heldOver>>
ResolverAnswers == noAnswer /\ noAnswer' = FALSE
                   /\ UNCHANGED <<routingLeft, storeVars, record, cacheVars, sync, clientVars, caddyVars, answered, heldOver>>

(* hostnameReadyFor and hostnameRetryAfter pass.                           *)
VerdictAges(h) ==
    /\ h \in Planned /\ verdict[h].known /\ ~verdict[h].stale
    /\ verdict' = [verdict EXCEPT ![h].stale = TRUE]
    /\ UNCHANGED <<routingLeft, storeVars, dnsVars, certList, certLoaded, sync, clientVars, caddyVars, answered, heldOver>>

(* verifyEvery and askAgainEvery pass.                                     *)
ConfigAges ==
    /\ verified /\ verified' = FALSE
    /\ UNCHANGED <<routingLeft, storeVars, dnsVars, cacheVars, sync, applied, plainLookups, synced, caddyVars, answered, heldOver>>
AsksAgain ==
    /\ plainLookups /\ plainLookups' = FALSE
    /\ UNCHANGED <<routingLeft, storeVars, dnsVars, cacheVars, sync, applied, verified, synced, caddyVars, answered, heldOver>>

(* The proxy restarts without its configuration, or from another image.    *)
CaddyRestarts(image) ==
    /\ Spends("caddy")
    /\ running' = NoConfig /\ stock' = image /\ reachable' = TRUE
    /\ UNCHANGED <<storeVars, dnsVars, cacheVars, sync, clientVars, answered, heldOver>>
CaddyGone ==
    /\ reachable /\ Spends("gone") /\ reachable' = FALSE
    /\ UNCHANGED <<storeVars, dnsVars, cacheVars, sync, clientVars, running, stock, answered, heldOver>>
CaddyBack ==
    /\ ~reachable /\ reachable' = TRUE
    /\ UNCHANGED <<routingLeft, storeVars, dnsVars, cacheVars, sync, clientVars, running, stock, answered, heldOver>>

(* The agent restarts: everything it remembers is gone; deployments under  *)
(* way are resumed (Rollout).                                              *)
RoutingAgentRestarts ==
    /\ Spends("restarts")
    /\ certList' = {} /\ certLoaded' = FALSE /\ verdict' = [h \in HostNames |-> Unchecked]
    /\ sync' = [s \in Syncs |-> Resting]
    /\ applied' = NoConfig /\ verified' = FALSE /\ plainLookups' = FALSE /\ synced' = FALSE
    /\ UNCHANGED <<storeVars, dnsVars, caddyVars, answered, heldOver>>

(* The goroutine of a sync, and the two of them.                           *)
SyncStep(s) ==
    \/ SyncLoads(s) \/ SyncJudges(s) \/ SyncRoutes(s) \/ SyncApplies(s) \/ SyncGivesUp(s)
    \/ \E h \in HostNames : SyncLooksUp(s, h)
TickStep == TickBegins \/ SyncStep("tick")
OperationStep == SyncStep("op") \/ ForgetCertificates \/ \E app \in RApps : Commit(app)

RoutingNext ==
    \/ \E app \in RApps : DeleteApp(app) \/ \E s \in Specs[app] : Admit(app, s)
    \/ \E c \in DOMAIN Certs : ChangeCertificate(c)
    \/ TickStep \/ OperationStep
    \/ \E h \in HostNames : RecordChanges(h) \/ VerdictAges(h)
    \/ ResolverFails \/ ResolverAnswers \/ ConfigAges \/ AsksAgain
    \/ CaddyGone \/ CaddyBack \/ RoutingAgentRestarts
    \/ \E image \in BOOLEAN : CaddyRestarts(image)

-----------------------------------------------------------------------------
(* render and normalize: Caddy answers with the first route that matches;  *)
(* exact hostnames before wildcards, the longest path first.               *)
RouteMatches(r, host, path) ==
    \/ host \in r.redirects
    \/ /\ host \in r.hosts \/ r.hosts \cap Wild # {}
       /\ IsPrefix(r.path, path)

(* What decides between two routes that both match.                        *)
Precedes(r, q, host) ==
    LET exact(z) == host \in z.hosts \cup z.redirects
    IN \/ exact(r) /\ ~exact(q)
       \/ (exact(r) <=> exact(q)) /\ Len(r.path) > Len(q.path)

RequestPaths == {<<>>, <<"api">>, <<"api", "v1">>, <<"apix">>}

HostsOf(routes) == UNION {r.hosts \cup r.redirects : r \in routes}

(* Whatever the deployments that raced for a hostname, for every request   *)
(* one of the routes that match comes before all the others, so that which *)
(* application answers never depends on the order of equals (checkDomain,  *)
(* routesFor, normalize).                                                  *)
OneAnswers ==
    \A host \in Exact, path \in RequestPaths :
        LET match == {r \in running.routes : RouteMatches(r, host, path)}
        IN match # {} => \E r \in match : \A q \in match \ {r} : Precedes(r, q, host)

(* Once no sync is under way, Caddy asks an authority only for hostnames   *)
(* the resolver said point here, or that a certificate was supplied for    *)
(* and the resolver has not answered about since that was taken away,      *)
(* whatever changes of certificates, records and deployments interleaved   *)
(* with the syncs and whatever could not be read (dns.go, certificates.go: *)
(* decide, keepServing, certificatesChanged).                              *)
AsksInGoodFaith ==
    (\A s \in Syncs : sync[s].phase = "idle") /\ synced =>
        \A h \in HostsOf(running.routes) \ OwnHosts :
            \/ CertCovers(running.certs, h) \/ (h \in Wild /\ DNSChallenge)
            \/ answered[h] = "here" \/ h \in heldOver

(* A domain that is being served leaves the proxy only when an answer says *)
(* it points elsewhere; a lookup that got no answer does not take it out   *)
(* (keepServing), whatever else changes at the same time.                  *)
OnlyAnAnswer ==
    [][\A a \in RApps :
          LET h == active[a].domain IN
          h \in Exact /\ h \in HostsOf(running.routes) /\ running'.loaded
            => h \in HostsOf(running'.routes) \/ answered[h] = "away"]_routingVars

(* Caddy serves what is planned, by the records and certificates there are.*)
ServedAsPlanned ==
    /\ running.certs = storedCerts
    /\ running.routes = RoutesFor([h \in HostNames |->
          CertCovers(storedCerts, h) \/ IF h \in Wild THEN DNSChallenge ELSE record[h] = "here"])

(* Of the routes that are served one answers, and certificates are asked   *)
(* for only where the DNS points here (normalize, decide).                 *)
RoutesRight == OneAnswers /\ AsksInGoodFaith
=============================================================================
