------------------------------- MODULE Alerts -------------------------------
(***************************************************************************)
(* What the agent tells somebody about (agent/internal/deploy: alerts.go,  *)
(* outage.go, notify.go, sampler.go).  The supervisor's tick asks Docker,  *)
(* looks after the application, notes alerts and availability and forgets  *)
(* what is gone; the sampler reads the replicas' memory and decides the    *)
(* memory alerts.  Probes answer, replicas die, the application is stopped *)
(* and started and the agent restarts between any two of those steps.      *)
(* One application; the disk's alert is decided like the memory's, and the *)
(* clock stands still once it reaches MaxAlertTime.                        *)
(***************************************************************************)
EXTENDS Integers, Sequences, FiniteSets

CONSTANTS
    MaxAlertTime,      \* the clock's bound
    MaxReplicas,       \* bound: replicas
    MemorySamples,     \* memorySamples
    RestartAlertCount, RestartAlertWindow,
    UnhealthyWarning, UnhealthyCritical, DockerAlertAfter,
    AlertBudgets       \* scenarios: how often each event may happen, and how many replicas

(* The sampler keeps at least one reading, and a scenario has no more       *)
(* replicas than the model numbers.                                         *)
ASSUME AlertAssumption ==
    /\ MemorySamples \in Nat \ {0} /\ MaxReplicas \in Nat
    /\ \A b \in AlertBudgets : "replicas" \in DOMAIN b /\ b.replicas \in 1..MaxReplicas

VARIABLES
    alertTime, spare,
    docker,     \* whether the daemon answers
    wanted,     \* the application's desired state
    rep,        \* the supervisor's replicaState of each replica, and the container
    mem,        \* each replica's memory use
    samples,    \* metric_samples: the last readings of each replica
    book,       \* alertBook: [active, unhealthy since]
    silent,     \* dockerOutage.since
    down,       \* supervisor.down
    tick,       \* [phase, apps]: where the supervisor's tick is
    sampler,    \* [phase, apps]: where the sampler's round is
    owed,       \* "yes": the application's trouble was told and not yet its end; "late": its end
                \* was told while the alert about it still stands
    calm,       \* replicas whose memory went below the clear level, or was forgotten, since their last alert
    again       \* the beginning of a memory alert's episode, or the end of a trouble, was told twice

alertVars == <<alertTime, spare, docker, wanted, rep, mem, samples, book, silent, down,
               tick, sampler, owed, calm, again>>

Never == -1
Reps == 1 .. spare.replicas
Usage == [low |-> 0, mid |-> 85, high |-> 95]
Percent == 90
MemoryClearMargin == 10
Costs(what) == spare[what] > 0 /\ spare' = [spare EXCEPT ![what] = @ - 1]

Ready(i) == rep[i].run /\ rep[i].health = "ready"
AllReady == \A i \in Reps : Ready(i)
Settled == \A i \in Reps : rep[i].held = 0
LastFew(s, n) == IF Len(s) > n THEN SubSeq(s, Len(s) - n + 1, Len(s)) ELSE s
Within(times) == SelectSeq(times, LAMBDA t : alertTime - t <= RestartAlertWindow)

-----------------------------------------------------------------------------
(* The pure decisions.                                                     *)

(* Mutant: an alert is cleared where it is raised.                         *)
MemoryAlertingLevel(was, list) ==
    IF list = <<>> THEN was
    ELSE IF was THEN Usage[list[Len(list)]] >= Percent
    ELSE Len(list) >= MemorySamples /\ \A k \in DOMAIN list : Usage[list[k]] >= Percent

(* memoryAlerting: raised by samples over the threshold in a row, cleared  *)
(* by one below the clear level; without a recent sample nothing changes.  *)
MemoryAlerting(was, list) ==
    IF list = <<>> THEN was
    ELSE IF was THEN Usage[list[Len(list)]] >= Percent - MemoryClearMargin
    ELSE Len(list) >= MemorySamples /\ \A k \in DOMAIN list : Usage[list[k]] >= Percent

RestartAlerting(was, times, held) ==
    IF held THEN was ELSE Len(Within(times)) >= RestartAlertCount

UnhealthySeverity(since) ==
    IF since = Never THEN "none"
    ELSE IF alertTime - since >= UnhealthyCritical THEN "critical"
    ELSE IF alertTime - since >= UnhealthyWarning THEN "warning" ELSE "none"

-----------------------------------------------------------------------------
(* raiseAlert, clearAlert, dropAlerts: active alerts by key.               *)

Keys == {<<"memory", i>> : i \in 1 .. MaxReplicas} \cup {<<"restarts", i>> : i \in 1 .. MaxReplicas}
            \cup {<<"unhealthy", 0>>, <<"docker", 0>>}
OfApplication == Keys \ {<<"docker", 0>>}
Active(key) == book.active[key] # "none"

Dropped(active, keys) == [k \in Keys |-> IF k \in keys THEN "none" ELSE active[k]]

-----------------------------------------------------------------------------
NoRep == [run |-> TRUE, health |-> "ready", held |-> 0, loop |-> FALSE, times |-> <<>>]
IdleTick == [phase |-> "idle", apps |-> FALSE]

AlertInit ==
    /\ alertTime = 0 /\ spare \in AlertBudgets /\ docker = TRUE /\ wanted = "running"
    /\ rep = [i \in 1 .. MaxReplicas |-> NoRep]
    /\ mem = [i \in 1 .. MaxReplicas |-> "low"] /\ samples = [i \in 1 .. MaxReplicas |-> <<>>]
    /\ book = [active |-> [k \in Keys |-> "none"], unhealthy |-> Never]
    /\ silent = Never /\ down = FALSE
    /\ tick = IdleTick /\ sampler = IdleTick
    /\ owed = "no" /\ calm = 1 .. MaxReplicas /\ again = FALSE

-----------------------------------------------------------------------------
(* What happens to the replicas and the server.                            *)

Dies(i) ==
    /\ Costs("deaths") /\ rep[i].run
    /\ rep' = [rep EXCEPT ![i].run = FALSE]
    /\ UNCHANGED <<alertTime, docker, wanted, mem, samples, book, silent, down, tick, sampler, owed, calm, again>>

Probed(i, health) ==
    /\ Costs("probes") /\ rep[i].run /\ rep[i].health # health
    /\ rep' = [rep EXCEPT ![i].health = health]
    /\ UNCHANGED <<alertTime, docker, wanted, mem, samples, book, silent, down, tick, sampler, owed, calm, again>>

Uses(i, level) ==
    /\ Costs("levels") /\ mem[i] # level
    /\ mem' = [mem EXCEPT ![i] = level]
    /\ UNCHANGED <<alertTime, docker, wanted, rep, samples, book, silent, down, tick, sampler, owed, calm, again>>

DockerFails ==
    /\ Costs("outages") /\ docker /\ docker' = FALSE
    /\ UNCHANGED <<alertTime, wanted, rep, mem, samples, book, silent, down, tick, sampler, owed, calm, again>>

DockerReturns ==
    /\ ~docker /\ docker' = TRUE
    /\ UNCHANGED <<alertTime, spare, wanted, rep, mem, samples, book, silent, down, tick, sampler, owed, calm, again>>

(* Stop and Start hold the application's lock, as the tick's look after it *)
(* does.                                                                   *)
Unlocked == tick.phase \notin {"supervise", "alerts", "availability"}

StopApp ==
    /\ Costs("stops") /\ wanted = "running" /\ Unlocked
    /\ wanted' = "stopped" /\ rep' = [i \in 1 .. MaxReplicas |-> [rep[i] EXCEPT !.run = FALSE]]
    /\ UNCHANGED <<alertTime, docker, mem, samples, book, silent, down, tick, sampler, owed, calm, again>>

StartApp ==
    /\ wanted = "stopped" /\ Unlocked /\ Costs("starts") /\ wanted' = "running"
    /\ rep' = [i \in 1 .. MaxReplicas |-> [NoRep EXCEPT !.health = "starting", !.times = rep[i].times]]
    /\ UNCHANGED <<alertTime, docker, mem, samples, book, silent, down, tick, sampler, owed, calm, again>>

AgentRestarts ==
    /\ Costs("restarts")
    /\ book' = [active |-> [k \in Keys |-> "none"], unhealthy |-> Never]
    /\ rep' = [i \in 1 .. MaxReplicas |-> [rep[i] EXCEPT !.held = 0, !.loop = FALSE, !.times = <<>>]]
    /\ silent' = Never /\ down' = FALSE /\ tick' = IdleTick /\ sampler' = IdleTick
    /\ owed' = "no" /\ calm' = 1 .. MaxReplicas
    /\ UNCHANGED <<alertTime, docker, wanted, mem, samples, again>>

-----------------------------------------------------------------------------
(* The supervisor's tick.                                                  *)

(* dockerAnswers: a silent daemon ends the tick, and is an alert when it   *)
(* stays silent; the first answer clears it.                               *)
TickAsks ==
    LET since == IF silent = Never THEN alertTime + 1 ELSE silent IN
    /\ tick.phase = "idle"
    /\ alertTime' = IF alertTime < MaxAlertTime THEN alertTime + 1 ELSE alertTime
    /\ IF docker
       THEN /\ silent' = Never
            /\ book' = [book EXCEPT !.active = Dropped(@, {<<"docker", 0>>})]
            /\ tick' = [tick EXCEPT !.phase = "list"]
       ELSE /\ silent' = since
            /\ book' = [book EXCEPT !.active[<<"docker", 0>>] =
                            IF alertTime' - since >= DockerAlertAfter THEN "critical" ELSE @]
            /\ UNCHANGED tick
    /\ UNCHANGED <<spare, docker, wanted, rep, mem, samples, down, sampler, owed, calm, again>>

(* The applications are read once, for the whole tick; whether this one is *)
(* to run is read again under its lock.                                    *)
TickLists ==
    /\ tick.phase = "list"
    /\ tick' = [phase |-> IF wanted = "running" THEN "supervise" ELSE "forget", apps |-> wanted = "running"]
    /\ UNCHANGED <<alertTime, spare, docker, wanted, rep, mem, samples, book, silent, down, sampler, owed, calm, again>>

(* superviseRunning forgives a replica that stayed up; superviseDown, and  *)
(* a replica that is not healthy, restart.                                 *)
Restarted(r) ==
    [r EXCEPT !.run = TRUE, !.health = "starting", !.held = 1, !.loop = r.held > 0,
              !.times = LastFew(Append(Within(@), alertTime), RestartAlertCount)]

Supervise ==
    /\ tick.phase = "supervise"
    /\ \E restart \in SUBSET {i \in Reps : ~Ready(i)}, forgive \in SUBSET {i \in Reps : Ready(i)} :
         rep' = [i \in 1 .. MaxReplicas |->
                   IF i \in restart THEN Restarted(rep[i])
                   ELSE IF i \in forgive THEN [rep[i] EXCEPT !.held = 0, !.loop = FALSE]
                   ELSE rep[i]]
    /\ tick' = [tick EXCEPT !.phase = "alerts"]
    /\ UNCHANGED <<alertTime, spare, docker, wanted, mem, samples, book, silent, down, sampler, owed, calm, again>>

(* Mutant: an alert is always cleared aloud.                               *)
NeverQuiet == FALSE

(* The recovery of an application that was reported down is announced by   *)
(* noteAvailability.                                                       *)
QuietEnd == down

(* noteAlerts: restarts and an application that stays unhealthy.           *)
NoteAlerts ==
    LET ready == Cardinality({i \in Reps : Ready(i)})
        healthy == AllReady /\ Settled
        since == IF healthy THEN Never
                 ELSE IF book.unhealthy = Never /\ ~AllReady THEN alertTime ELSE book.unhealthy
        severity == UnhealthySeverity(since)
        held(i) == down \/ ready = 0 \/ rep[i].loop
        restarts(i) == IF RestartAlerting(Active(<<"restarts", i>>), rep[i].times, held(i)) THEN "warning" ELSE "none"
        cleared == since = Never /\ Active(<<"unhealthy", 0>>)
    IN /\ tick.phase = "alerts"
       /\ book' = [unhealthy |-> since,
                   active |-> [k \in Keys |->
                       CASE k[1] = "restarts" /\ k[2] \in Reps -> restarts(k[2])
                         [] k[1] = "unhealthy" -> IF since = Never THEN "none"
                                                  ELSE IF severity = "none" THEN book.active[k] ELSE severity
                         [] OTHER -> book.active[k]]]
       /\ owed' = IF severity \notin {"none", book.active[<<"unhealthy", 0>>]} THEN "yes"
                  ELSE IF cleared /\ ~QuietEnd THEN "no" ELSE owed
       /\ again' = (again \/ (cleared /\ ~QuietEnd /\ owed = "no"))
       /\ tick' = [tick EXCEPT !.phase = "availability"]
       /\ UNCHANGED <<alertTime, spare, docker, wanted, rep, mem, samples, silent, down, sampler, calm>>

(* noteAvailability: down is not one ready replica and none on its way;    *)
(* recovered is every replica ready with no restart held against it.  A    *)
(* probe may have answered since noteAlerts looked: then the recovery is   *)
(* announced although the alert still stands, and is cleared aloud later.  *)
ComingUp(i) == rep[i].run /\ rep[i].health = "starting" /\ rep[i].held = 0

NoteAvailability ==
    LET isDown == \A i \in Reps : ~Ready(i) /\ ~ComingUp(i)
        recovered == down /\ AllReady /\ Settled
    IN /\ tick.phase = "availability"
       /\ down' = (isDown \/ (down /\ ~recovered))
       /\ owed' = IF recovered THEN IF Active(<<"unhealthy", 0>>) THEN "late" ELSE "no"
                  ELSE IF isDown THEN "yes" ELSE owed
       /\ again' = (again \/ (recovered /\ owed # "yes"))
       /\ tick' = [tick EXCEPT !.phase = "forget"]
       /\ UNCHANGED <<alertTime, spare, docker, wanted, rep, mem, samples, book, silent, sampler, calm>>

(* forgetAlerts goes by the list the tick began with.                      *)
Forgotten(apps) == IF apps THEN {} ELSE OfApplication

ForgetAlerts ==
    LET gone == Forgotten(tick.apps) IN
    /\ tick.phase = "forget" /\ tick' = IdleTick
    /\ book' = [active |-> Dropped(book.active, gone),
                unhealthy |-> IF gone = {} THEN book.unhealthy ELSE Never]
    /\ calm' = IF gone = {} THEN calm ELSE 1 .. MaxReplicas
    /\ owed' = IF gone = {} \/ down THEN owed ELSE "no"
    /\ UNCHANGED <<alertTime, spare, docker, wanted, rep, mem, samples, silent, down, sampler, again>>

-----------------------------------------------------------------------------
(* The sampler.                                                            *)

(* sample: one reading of each replica that runs.                          *)
Sample ==
    /\ sampler.phase = "idle" /\ Costs("rounds")
    /\ samples' = [i \in 1 .. MaxReplicas |-> IF i \in Reps /\ wanted = "running" /\ rep[i].run
                                    THEN LastFew(Append(samples[i], mem[i]), MemorySamples) ELSE <<>>]
    /\ calm' = calm \cup {i \in Reps : wanted = "running" /\ rep[i].run /\ Usage[mem[i]] < Percent - MemoryClearMargin}
    /\ sampler' = [sampler EXCEPT !.phase = "list"]
    /\ UNCHANGED <<alertTime, docker, wanted, rep, mem, book, silent, down, tick, owed, again>>

SamplerLists ==
    /\ sampler.phase = "list"
    /\ sampler' = [phase |-> "check", apps |-> wanted = "running"]
    /\ UNCHANGED <<alertTime, spare, docker, wanted, rep, mem, samples, book, silent, down, tick, owed, calm, again>>

(* checkMemory: alerts about replicas that are not in the list go.         *)
CheckMemory ==
    LET is(i) == MemoryAlerting(Active(<<"memory", i>>), samples[i])
        raised == {i \in Reps : sampler.apps /\ is(i) /\ ~Active(<<"memory", i>>)}
    IN /\ sampler.phase = "check" /\ sampler' = IdleTick
       /\ book' = [book EXCEPT !.active = [k \in Keys |->
                     IF k[1] # "memory" THEN @[k]
                     ELSE IF sampler.apps /\ k[2] \in Reps /\ is(k[2]) THEN "warning" ELSE "none"]]
       /\ again' = (again \/ raised \ calm # {})
       /\ calm' = (IF sampler.apps THEN calm ELSE 1 .. MaxReplicas) \ raised
       /\ UNCHANGED <<alertTime, spare, docker, wanted, rep, mem, samples, silent, down, tick, owed>>

-----------------------------------------------------------------------------
TickSteps == TickAsks \/ TickLists \/ Supervise \/ NoteAlerts \/ NoteAvailability \/ ForgetAlerts

AlertNext ==
    \/ TickSteps \/ Sample \/ SamplerLists \/ CheckMemory
    \/ \E i \in Reps : Dies(i) \/ \E h \in {"ready", "failing"} : Probed(i, h)
    \/ \E i \in Reps, level \in DOMAIN Usage : Uses(i, level)
    \/ DockerFails \/ DockerReturns \/ StopApp \/ StartApp \/ AgentRestarts

(* Everything that can happen to the alerts, without fairness.             *)
AlertSpec == AlertInit /\ [][AlertNext]_alertVars

-----------------------------------------------------------------------------
(* Properties.                                                             *)

(* Nothing is told twice about one episode.  A value hovering at the       *)
(* threshold is one alert: between two memory alerts of a replica its      *)
(* memory was seen below the clear level, or the alert was dropped with    *)
(* what it was about.  The end of an application's trouble is told by the  *)
(* alert that is cleared or by the recovery from being down, not by both,  *)
(* except when a probe answers between noteAlerts and noteAvailability of  *)
(* one tick: then the alert is cleared aloud after the recovery was told   *)
(* (memoryAlerting, checkMemory, noteAlerts, noteAvailability).            *)
OneAlertPerEpisode == ~again

(* Whoever was told that an application is in trouble is told of its end:  *)
(* while that is owed, the alert or the outage that will be cleared aloud  *)
(* still stands, although the alert keeps quiet for the recovery and the   *)
(* recovery is stricter than the outage (noteAlerts, noteAvailability).    *)
EndIsTold == owed = "yes" => down \/ Active(<<"unhealthy", 0>>)

(* An application that stays stopped has no alert standing, also when the  *)
(* sampler decided one from a list that predates the stop (forgetAlerts,   *)
(* checkMemory); and an outage of Docker that is over is no alert.         *)
AlertsEnd ==
    /\ (<>[](wanted = "stopped")) => <>[](\A k \in OfApplication : ~Active(k))
    /\ (<>[]docker) => <>[](~Active(<<"docker", 0>>))

(* A memory alert is told once for its episode, and the end of an          *)
(* application's trouble is told, once unless the recovery was noticed     *)
(* between the two notes of a tick (checkAlerts, clearAlert).              *)
EpisodesTold == OneAlertPerEpisode /\ EndIsTold
=============================================================================
