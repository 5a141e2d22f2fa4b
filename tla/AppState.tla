------------------------------ MODULE AppState ------------------------------
(***************************************************************************)
(* The state of one application of the deploy engine, and what every part  *)
(* of the engine does with it: containers, routing, drains, the one way    *)
(* replicas come to exist and the one way they are removed.                *)
(*                                                                         *)
(* Three kinds of state: what the database says, what Docker runs, and     *)
(* what the agent holds in memory and loses when it stops.  Every action is *)
(* one durable effect (a write to the database, a call to Docker that       *)
(* changes something), so that the agent may stop between any two of them.  *)
(* The application's lock is "pc": whoever holds it is somewhere, and       *)
(* "idle" is the free lock; AppLock is the model of the lock itself.        *)
(*                                                                         *)
(* A container is named after its deployment and its replica index, and    *)
(* Docker refuses a second one of the same name, so the pair stands for    *)
(* the container.  Applications have a health check and a port: a replica  *)
(* is verified by its check, and is findable while it runs and carries the *)
(* application's names on the services network.                            *)
(***************************************************************************)
EXTENDS Integers, FiniteSets

CONSTANTS
    MaxDeployments,   \* bound: deployments ever made of the application
    MaxReplicas,      \* bound: replicas a deployment may ask for
    Strategies,       \* deploy.strategy values in use
    MaxStops,         \* bound: times the agent stops
    MaxDeaths,        \* bound: replicas that exit or turn unhealthy on their own
    MaxUserOps,       \* bound: times the user stops or starts the application
    Faults            \* calls may fail whose failure the code logs and passes over

ASSUME ConstantsAssumption ==
    /\ MaxDeployments \in Nat /\ MaxReplicas \in Nat
    /\ MaxStops \in Nat /\ MaxDeaths \in Nat /\ MaxUserOps \in Nat
    /\ Strategies \subseteq {"rolling", "recreate"}
    /\ Faults \in BOOLEAN

Deployments == 1 .. MaxDeployments
Indexes == 1 .. MaxReplicas
Containers == Deployments \X Indexes

VARIABLES
    \* the database
    status, completed, replicas, strategy,  \* deployments
    active, desired,                        \* the application
    row,                                    \* replicas that are recorded and not removed
    \* Docker
    ctr,                                    \* state of every container
    named,                                  \* containers carrying the application's names
    \* the agent's memory
    agent,                                  \* "up", "closing" (Shutdown was called) or "down"
    pc,                                     \* what the holder of the application's lock does
    r,                                      \* type rollout, and the locals of its methods
    override,                               \* Engine.routeOverrides
    drains,                                 \* Engine.drains
    unready,                                \* replicas the supervisor calls starting or unhealthy
    ended,                                  \* deployments run, lock released, not yet settled
    \* what the properties look at, and the bounds
    verified,                               \* containers whose process has passed its check
    whole,                                  \* the rollout found full capacity, and nothing died since
    agentStops, deaths, userOps

records == <<status, completed, replicas, strategy>>
application == <<active, desired>>
db == <<records, application, row>>
docker == <<ctr, named>>
memory == <<agent, pc, r, override, drains, unready, ended>>
bounds == <<agentStops, deaths, userOps>>
ghosts == <<verified, whole, bounds>>
vars == <<db, docker, memory, ghosts>>

\* IsSettled, InFlightStatuses; "none": the deployment has not been made.
Settled == {"ACTIVE", "SUPERSEDED", "FAILED", "ROLLED_BACK"}
InFlight == {"PENDING", "BUILDING", "STARTING", "HEALTH_CHECKING", "HEALTHY",
             "ROLLBACK", "RESTORING"}
Statuses == Settled \cup InFlight \cup {"none"}

\* transitions, of CanTransition.
Transitions ==
    { <<"PENDING", "BUILDING">>, <<"PENDING", "FAILED">>,
      <<"BUILDING", "STARTING">>, <<"BUILDING", "FAILED">>,
      <<"STARTING", "HEALTH_CHECKING">>, <<"STARTING", "FAILED">>,
      <<"HEALTH_CHECKING", "HEALTHY">>, <<"HEALTH_CHECKING", "FAILED">>,
      <<"HEALTHY", "ACTIVE">>, <<"HEALTHY", "FAILED">>,
      <<"ACTIVE", "SUPERSEDED">>,
      <<"FAILED", "ROLLBACK">>,
      <<"ROLLBACK", "RESTORING">>, <<"ROLLBACK", "FAILED">>,
      <<"RESTORING", "ROLLED_BACK">>, <<"RESTORING", "FAILED">> }

NoRollout ==
    [dep |-> 0, prev |-> 0, old |-> {}, fresh |-> {}, serving |-> {},
     retired |-> FALSE, recreate |-> FALSE, stopped |-> {},
     resumed |-> FALSE, surveyed |-> FALSE, adopted |-> {}, inService |-> {},
     todo |-> {}, extra |-> {}, batch |-> {}, leaving |-> {},
     missing |-> {}, creating |-> FALSE, made |-> {}, unverified |-> {},
     drop |-> {}, then |-> "end", outcome |-> "end"]

NoOverride == [on |-> FALSE, members |-> {}]

\* The smallest of a set of indexes, as a set: replicas are taken in order.
First(S) == {i \in S : \A j \in S : i <= j}
Of(d, S) == {<<d, i>> : i \in S}
Recorded(d) == {i \in Indexes : <<d, i>> \in row}

Wanted(d) == {i \in Indexes : i <= replicas[d]}

Created == {d \in Deployments : status[d] # "none"}
\* ListContainers finds a container in any state; InspectContainer says
\* whether its process runs, which one that was told to stop still does.
Exists(c) == ctr[c] # "none"
Running(c) == ctr[c] \in {"running", "stopping"}

Init ==
    /\ status = [d \in Deployments |-> "none"]
    /\ completed = [d \in Deployments |-> FALSE]
    /\ replicas = [d \in Deployments |-> 0]
    /\ strategy = [d \in Deployments |-> "rolling"]
    /\ active = 0
    /\ desired = "running"
    /\ row = {}
    /\ ctr = [c \in Containers |-> "none"]
    /\ named = {}
    /\ agent = "up"
    /\ pc = "idle"
    /\ r = NoRollout
    /\ override = NoOverride
    /\ drains = {}
    /\ unready = {}
    /\ ended = {}
    /\ verified = {}
    /\ whole = FALSE
    /\ agentStops = 0 /\ deaths = 0 /\ userOps = 0

----------------------------------------------------------------------------
(* Docker, as the engine uses it.                                          *)

\* CreateContainer: under a name nobody has, not started, and on the services
\* network without names: nobody finds a replica before it is ready.
CreateContainer(c) ==
    /\ ~Exists(c)
    /\ ctr' = [ctr EXCEPT ![c] = "created"]

\* A stop that was asked for ends whether or not the agent is still there.
Exits(c) ==
    /\ ctr[c] = "stopping"
    /\ ctr' = [ctr EXCEPT ![c] = "exited"]
    /\ verified' = verified \ {c}
    /\ UNCHANGED <<db, named, memory, whole, bounds>>

\* A replica's process ends on its own.
Dies(c) ==
    /\ deaths < MaxDeaths
    /\ ctr[c] = "running"
    /\ ctr' = [ctr EXCEPT ![c] = "exited"]
    /\ verified' = verified \ {c}
    /\ whole' = FALSE
    /\ deaths' = deaths + 1
    /\ UNCHANGED <<db, named, memory, agentStops, userOps>>

\* Its container is removed by hand, by a prune, by anything but the engine.
Disappears(c) ==
    /\ deaths < MaxDeaths
    /\ Exists(c) /\ c \in row
    /\ ctr' = [ctr EXCEPT ![c] = "none"]
    /\ named' = named \ {c}
    /\ verified' = verified \ {c}
    /\ whole' = FALSE
    /\ deaths' = deaths + 1
    /\ UNCHANGED <<db, memory, agentStops, userOps>>

Gone(C) ==
    /\ ctr' = [c \in Containers |-> IF c \in C THEN "none" ELSE ctr[c]]
    /\ named' = named \ C
    /\ verified' = verified \ C

\* removeContainer, of all of C: Docker removes, then the rows are marked.
\* Its callers go on when either fails.
Remove(C) ==
    \/ Gone(C) /\ row' = row \ C
    \/ Faults /\ Gone(C) /\ UNCHANGED row
    \/ Faults /\ UNCHANGED <<ctr, named, verified, row>>

\* startNameless: the names first, then the process.
StartNameless(c) ==
    /\ Exists(c)
    /\ named' = named \ {c}
    /\ ctr' = [ctr EXCEPT ![c] = IF Running(c) THEN @ ELSE "running"]

----------------------------------------------------------------------------
(* Routing.                                                                *)

\* routingPlans: a rollout in charge says who serves, otherwise the database.
Members(o) ==
    CASE o.on -> o.members
      [] ~o.on /\ active # 0 /\ desired = "running" -> Of(active, Recorded(active))
      [] OTHER -> {}

\* syncRoutes: of the members that run, those that are ready get the names
\* and the others lose them; nobody else's change.
Synced(members) ==
    LET up == {c \in members : Running(c)} IN (named \ (up \cap unready)) \cup (up \ unready)

\* The supervisor's sync at the end of a tick, and any other application's
\* rollout: both sync every application, whoever holds this one.
SyncTick ==
    /\ agent = "up"
    /\ named' = Synced(Members(override))
    /\ UNCHANGED <<db, ctr, memory, ghosts>>

\* SyncProxy from a rollout that goes on, with what it has just put into the
\* override; a failure may leave some of the members renamed.
SyncOk(members) == named' = Synced(members)
SyncFailed(members) == \E some \in SUBSET members : named' = Synced(some)

\* Who can serve a request: running, not on the way out, found and checked.
Capacity == {c \in named \cap verified : ctr[c] = "running"}

----------------------------------------------------------------------------
(* Replicas come to exist: ensureReplicas, for a rollout, a rollback or the *)
(* supervisor's reconciliation.                                             *)

\* createReplicas: the container, a new one to the supervisor ...
CreateFor(d, at) ==
    /\ pc = at /\ ~r.creating
    /\ \E c \in Of(d, First(r.missing)) :
        /\ CreateContainer(c)
        /\ unready' = unready \ {c}
    /\ r' = [r EXCEPT !.creating = TRUE]
    /\ UNCHANGED <<db, named, agent, pc, override, drains, ended, ghosts>>

\* ... and then its row.
RecordFor(d, at) ==
    /\ pc = at /\ r.creating
    /\ \E i \in First(r.missing) :
        /\ row' = row \cup {<<d, i>>}
        /\ r' = [r EXCEPT !.creating = FALSE, !.missing = @ \ {i}, !.made = @ \cup {i},
                          !.fresh = IF d = r.dep THEN @ \cup {i} ELSE @]
    /\ UNCHANGED <<records, application, docker, agent, pc, override, drains, unready, ended, ghosts>>

\* All of them created, they are started.
StartFor(d, at, next) ==
    /\ pc = at /\ r.missing = {} /\ ~r.creating
    /\ LET idle == {i \in r.made : ctr[<<d, i>>] = "created"} IN
        \/ idle = {} /\ pc' = next /\ UNCHANGED ctr
        \/ \E c \in Of(d, First(idle)) : ctr' = [ctr EXCEPT ![c] = "running"] /\ UNCHANGED pc
    /\ UNCHANGED <<db, named, agent, r, override, drains, unready, ended, ghosts>>

\* AddReplica failed: the container just created is removed again.
Uncreated(d) == IF r.creating THEN Of(d, First(r.missing)) ELSE {}

----------------------------------------------------------------------------
(* Replicas leave, in the background: retireInBackground.                  *)

DrainStops(c) ==
    /\ agent = "up" /\ c \in drains
    /\ ctr[c] = "running"
    /\ ctr' = [ctr EXCEPT ![c] = "stopping"]
    /\ UNCHANGED <<db, named, memory, ghosts>>

\* The container has stopped and is removed ...
DrainRemoves(c) ==
    /\ agent = "up" /\ c \in drains
    /\ ctr[c] \in {"exited", "created"}
    /\ Gone({c})
    /\ UNCHANGED <<db, memory, whole, bounds>>

\* ... and then its row; or the removal failed, and once it is no longer
\* draining the supervisor sees a leftover.
DrainEnds(c) ==
    /\ agent = "up" /\ c \in drains
    /\ \/ ctr[c] = "none" /\ row' = row \ {c}
       \/ Faults /\ ctr[c] \in {"exited", "none"} /\ UNCHANGED row
    /\ drains' = drains \ {c}
    /\ UNCHANGED <<records, application, docker, agent, pc, r, override, unready, ended, ghosts>>

----------------------------------------------------------------------------
(* Replicas leave while the caller waits, one by one: r.drop.              *)

DropNext ==
    /\ pc = "dropping"
    /\ \E c \in r.drop :
        /\ \A e \in r.drop : c[2] <= e[2]
        /\ Remove({c})
        /\ r' = [r EXCEPT !.drop = @ \ {c}]
    /\ UNCHANGED <<records, application, agent, pc, override, drains, unready, ended, whole, bounds>>

Dropped ==
    /\ pc = "dropping" /\ r.drop = {}
    /\ pc' = r.then
    /\ r' = IF r.then = "idle" THEN NoRollout ELSE r
    /\ UNCHANGED <<db, docker, agent, override, drains, unready, ended, ghosts>>
=============================================================================
