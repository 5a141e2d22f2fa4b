------------------------------ MODULE AppLock ------------------------------
(***************************************************************************)
(* The application lock and the count of running operations of the deploy  *)
(* engine (agent/internal/deploy/engine.go), with everything that is       *)
(* counted by it: user operations, deployments that outlive their request, *)
(* operations without a lock (jobs, backups, transfers), containers that   *)
(* drain in the background (drain.go), the supervisor and its probes       *)
(* (supervisor.go), and Shutdown, which waits for all of them before main  *)
(* closes Docker and the database.                                         *)
(*                                                                         *)
(* Every action is one critical section of Engine.mu, or one step taken    *)
(* between two of them.  Closing the channel appLock.released is modelled  *)
(* by waking everyone who waits for the application: whoever waits does so *)
(* on the channel of the lock that is held now.                            *)
(***************************************************************************)
EXTENDS Integers, FiniteSets

CONSTANTS
    Apps,      \* names of applications
    Callers,   \* API requests, and the goroutines they leave behind
    Slots      \* containers of one application that may be retired

ASSUME FiniteAssumption ==
    /\ IsFiniteSet(Callers)
    /\ IsFiniteSet(Apps)
    /\ IsFiniteSet(Slots)

VARIABLES
    closed,    \* Engine.closed
    ops,       \* Engine.ops
    locks,     \* Engine.locks: what kind of holder, if any
    pc, app,   \* per caller: where it is, and the application it is about
    sup,       \* the supervisor's loop
    drains,    \* Engine.drains, and the goroutine behind each entry
    probes,    \* probes in flight: the WaitGroup supervisor.probes
    down       \* how far Shutdown got

vars == <<closed, ops, locks, pc, app, sup, drains, probes, down>>

Containers == Apps \X Slots

\* Caller states between a successful tryLock or beginOp and its opDone.
\* "holding" is the request's own goroutine, "running" the one launch starts;
\* each may be waiting for drains.
HoldingStates == {"holding", "holdingAwaits", "running", "runningAwaits"}
CountedStates == HoldingStates \cup {"released", "settled", "unlocked", "counted"}

TypeOK ==
    /\ closed \in BOOLEAN
    /\ ops \in Int
    /\ locks \in [Apps -> {"free", "user", "supervisor"}]
    /\ pc \in [Callers -> {"idle", "trying", "waiting"} \cup CountedStates]
    /\ app \in [Callers -> Apps]
    /\ sup \in [at : {"idle", "holding", "unlocked", "exited"}, app : Apps]
    /\ drains \in [Containers -> {"none", "draining", "ending"}]
    /\ probes \in SUBSET Containers
    /\ down \in {"up", "ops", "bg", "probes", "done", "expired"}

Init ==
    /\ closed = FALSE
    /\ ops = 0
    /\ locks = [a \in Apps |-> "free"]
    /\ pc = [c \in Callers |-> "idle"]
    /\ app \in [Callers -> Apps]
    /\ \E a \in Apps : sup = [at |-> "idle", app |-> a]
    /\ drains = [k \in Containers |-> "none"]
    /\ probes = {}
    /\ down = "up"

----------------------------------------------------------------------------
(* The lock.                                                               *)

\* tryLock succeeds: the lock is recorded and the operation counted in one
\* critical section.
TryLock(a, kind) ==
    /\ ~closed
    /\ locks[a] = "free"
    /\ locks' = [locks EXCEPT ![a] = kind]
    /\ ops' = ops + 1

\* release closes the channel: whoever waits for the application tries again.
Release(a) ==
    /\ locks' = [locks EXCEPT ![a] = "free"]

Woken(a, states) ==
    [c \in Callers |-> IF app[c] = a /\ states[c] = "waiting" THEN "trying" ELSE states[c]]

OpDone == ops' = ops - 1

\* A request arrives that needs the application (deploy, stop, start, delete).
Request(c, a) ==
    /\ pc[c] = "idle"
    /\ pc' = [pc EXCEPT ![c] = "trying"]
    /\ app' = [app EXCEPT ![c] = a]
    /\ UNCHANGED <<closed, ops, locks, sup, drains, probes, down>>

LockTaken(c) ==
    /\ pc[c] = "trying"
    /\ TryLock(app[c], "user")
    /\ pc' = [pc EXCEPT ![c] = "holding"]
    /\ UNCHANGED <<closed, app, sup, drains, probes, down>>

\* ErrShuttingDown, or ErrBusy because a user operation holds it.
LockRefused(c) ==
    /\ pc[c] = "trying"
    /\ closed \/ locks[app[c]] = "user"
    /\ pc' = [pc EXCEPT ![c] = "idle"]
    /\ UNCHANGED <<closed, ops, locks, app, sup, drains, probes, down>>

\* Held by the supervisor: wait on its channel.
LockWaits(c) ==
    /\ pc[c] = "trying"
    /\ ~closed /\ locks[app[c]] = "supervisor"
    /\ pc' = [pc EXCEPT ![c] = "waiting"]
    /\ UNCHANGED <<closed, ops, locks, app, sup, drains, probes, down>>

\* Faulty variant: the wait begins anew whenever it times out.
LockTriesAgain(c) ==
    /\ pc[c] = "waiting"
    /\ pc' = [pc EXCEPT ![c] = "trying"]
    /\ UNCHANGED <<closed, ops, locks, app, sup, drains, probes, down>>

\* LockWait has passed, or the client went away.
LockGivesUp(c) ==
    /\ pc[c] = "waiting"
    /\ pc' = [pc EXCEPT ![c] = "idle"]
    /\ UNCHANGED <<closed, ops, locks, app, sup, drains, probes, down>>

----------------------------------------------------------------------------
(* What a holder does.                                                     *)

\* start hands its lock over to the goroutine that runs the deployment.
Launch(c) ==
    /\ pc[c] = "holding"
    /\ pc' = [pc EXCEPT ![c] = "running"]
    /\ UNCHANGED <<closed, ops, locks, app, sup, drains, probes, down>>

\* unlock, first half: every operation that is not a deployment, and every
\* deployment that was refused before it was launched.
Unlock(c) ==
    /\ pc[c] = "holding"
    /\ Release(app[c])
    /\ pc' = Woken(app[c], [pc EXCEPT ![c] = "unlocked"])
    /\ UNCHANGED <<closed, ops, app, sup, drains, probes, down>>

\* run has returned: the lock goes before completed_at becomes visible.
ReleaseDeployment(c) ==
    /\ pc[c] = "running"
    /\ Release(app[c])
    /\ pc' = Woken(app[c], [pc EXCEPT ![c] = "released"])
    /\ UNCHANGED <<closed, ops, app, sup, drains, probes, down>>

\* settle writes completed_at; an interrupted deployment skips it.
Settle(c) ==
    /\ pc[c] = "released"
    /\ pc' = [pc EXCEPT ![c] = "settled"]
    /\ UNCHANGED <<closed, ops, locks, app, sup, drains, probes, down>>

\* The deferred opDone of launch, the second half of unlock, the opDone of
\* an operation begun by beginOp.
End(c) ==
    /\ \/ pc[c] \in {"settled", "unlocked", "counted"}
       \/ pc[c] = "released" /\ closed
    /\ OpDone
    /\ pc' = [pc EXCEPT ![c] = "idle"]
    /\ UNCHANGED <<closed, locks, app, sup, drains, probes, down>>

\* beginOp: counted, without a lock.
BeginOp(c) ==
    /\ pc[c] = "idle"
    /\ ~closed
    /\ ops' = ops + 1
    /\ pc' = [pc EXCEPT ![c] = "counted"]
    /\ UNCHANGED <<closed, locks, app, sup, drains, probes, down>>

\* awaitDrains: a rollout, a rollback or a delete waits until none of the
\* application's containers is draining ...
AwaitDrains(c) ==
    /\ pc[c] \in {"holding", "running"}
    /\ pc' = [pc EXCEPT ![c] = IF @ = "holding" THEN "holdingAwaits" ELSE "runningAwaits"]
    /\ UNCHANGED <<closed, ops, locks, app, sup, drains, probes, down>>

Awaited(c) == pc' = [pc EXCEPT ![c] = IF @ = "holdingAwaits" THEN "holding" ELSE "running"]

DrainsGone(c) ==
    /\ pc[c] \in {"holdingAwaits", "runningAwaits"}
    /\ \A s \in Slots : drains[<<app[c], s>>] # "draining"
    /\ Awaited(c)
    /\ UNCHANGED <<closed, ops, locks, app, sup, drains, probes, down>>

\* ... or its context is done: a timeout, a shutdown, a client that left.
AwaitGivesUp(c) ==
    /\ pc[c] \in {"holdingAwaits", "runningAwaits"}
    /\ Awaited(c)
    /\ UNCHANGED <<closed, ops, locks, app, sup, drains, probes, down>>

----------------------------------------------------------------------------
(* Draining.                                                               *)

\* Whoever may touch the application's containers: a rollout or an
\* operation that holds its lock, or the supervisor while it does.
MayRetire(a) ==
    \/ \E c \in Callers : app[c] = a /\ pc[c] \in {"holding", "running"}
    \/ sup.at = "holding" /\ sup.app = a

\* Faulty variant: the goroutine is not counted.
RetireUncounted(k) ==
    /\ MayRetire(k[1])
    /\ ~closed
    /\ drains[k] = "none"
    /\ drains' = [drains EXCEPT ![k] = "draining"]
    /\ UNCHANGED <<closed, ops, locks, pc, app, sup, probes, down>>

\* retireInBackground starts a goroutine, unless the agent is shutting down
\* or the container is draining already.
RetireInBackground(k) ==
    /\ MayRetire(k[1])
    /\ ~closed
    /\ drains[k] = "none"
    /\ drains' = [drains EXCEPT ![k] = "draining"]
    /\ ops' = ops + 1
    /\ UNCHANGED <<closed, locks, pc, app, sup, probes, down>>

\* Faulty variant: a drain does not notice that the agent shuts down.
DrainDoneUnlessClosed(k) ==
    /\ ~closed
    /\ drains[k] = "draining"
    /\ drains' = [drains EXCEPT ![k] = "ending"]
    /\ UNCHANGED <<closed, ops, locks, pc, app, sup, probes, down>>

\* Stopped and removed, or given up on at shutdown: the entry goes and its
\* channel is closed ...
DrainDone(k) ==
    /\ drains[k] = "draining"
    /\ drains' = [drains EXCEPT ![k] = "ending"]
    /\ UNCHANGED <<closed, ops, locks, pc, app, sup, probes, down>>

\* ... and the deferred opDone runs last.
DrainEnd(k) ==
    /\ drains[k] = "ending"
    /\ OpDone
    /\ drains' = [drains EXCEPT ![k] = "none"]
    /\ UNCHANGED <<closed, locks, pc, app, sup, probes, down>>

----------------------------------------------------------------------------
(* The supervisor.                                                         *)

\* A tick takes an application's lock if it is free, and never waits.
SupervisorLocks(a) ==
    /\ sup.at = "idle"
    /\ TryLock(a, "supervisor")
    /\ sup' = [at |-> "holding", app |-> a]
    /\ UNCHANGED <<closed, pc, app, drains, probes, down>>

SupervisorProbes(s) ==
    /\ sup.at = "holding"
    /\ probes' = probes \cup {<<sup.app, s>>}
    /\ UNCHANGED <<closed, ops, locks, pc, app, sup, drains, down>>

ProbeDone(k) ==
    /\ k \in probes
    /\ probes' = probes \ {k}
    /\ UNCHANGED <<closed, ops, locks, pc, app, sup, drains, down>>

SupervisorReleases ==
    /\ sup.at = "holding"
    /\ Release(sup.app)
    /\ pc' = Woken(sup.app, pc)
    /\ sup' = [sup EXCEPT !.at = "unlocked"]
    /\ UNCHANGED <<closed, ops, app, drains, probes, down>>

SupervisorUnlocked ==
    /\ sup.at = "unlocked"
    /\ OpDone
    /\ sup' = [sup EXCEPT !.at = "idle"]
    /\ UNCHANGED <<closed, locks, pc, app, drains, probes, down>>

\* Between two ticks the loop finds the engine's context cancelled.
SupervisorExits ==
    /\ sup.at = "idle"
    /\ closed
    /\ sup' = [sup EXCEPT !.at = "exited"]
    /\ UNCHANGED <<closed, ops, locks, pc, app, drains, probes, down>>

----------------------------------------------------------------------------
(* Shutdown.                                                               *)

ShutdownBegins ==
    /\ down = "up"
    /\ closed' = TRUE
    /\ down' = "ops"
    /\ UNCHANGED <<ops, locks, pc, app, sup, drains, probes>>

\* Wait: Engine.ops has come to zero.
ShutdownSeesIdle ==
    /\ down = "ops"
    /\ ops = 0
    /\ down' = "bg"
    /\ UNCHANGED <<closed, ops, locks, pc, app, sup, drains, probes>>

\* The background goroutines have ended: no more probes after this.
ShutdownSeesLoopEnd ==
    /\ down = "bg"
    /\ sup.at = "exited"
    /\ down' = "probes"
    /\ UNCHANGED <<closed, ops, locks, pc, app, sup, drains, probes>>

ShutdownSeesProbesEnd ==
    /\ down = "probes"
    /\ probes = {}
    /\ down' = "done"
    /\ UNCHANGED <<closed, ops, locks, pc, app, sup, drains, probes>>

\* Shutdown's own context expires first.
ShutdownExpires ==
    /\ down \in {"ops", "bg", "probes"}
    /\ down' = "expired"
    /\ UNCHANGED <<closed, ops, locks, pc, app, sup, drains, probes>>

----------------------------------------------------------------------------

CallerStep(c) ==
    \/ \E a \in Apps : Request(c, a)
    \/ LockTaken(c) \/ LockRefused(c) \/ LockWaits(c) \/ LockGivesUp(c)
    \/ Launch(c) \/ Unlock(c) \/ ReleaseDeployment(c) \/ Settle(c) \/ End(c)
    \/ BeginOp(c) \/ AwaitDrains(c) \/ DrainsGone(c) \/ AwaitGivesUp(c)

SupervisorStep ==
    \/ \E a \in Apps : SupervisorLocks(a)
    \/ \E s \in Slots : SupervisorProbes(s)
    \/ SupervisorReleases \/ SupervisorUnlocked \/ SupervisorExits

ContainerStep(k) == RetireInBackground(k) \/ DrainDone(k) \/ DrainEnd(k) \/ ProbeDone(k)

ShutdownStep ==
    \/ ShutdownBegins \/ ShutdownSeesIdle \/ ShutdownSeesLoopEnd
    \/ ShutdownSeesProbesEnd \/ ShutdownExpires

Next ==
    \/ \E c \in Callers : CallerStep(c)
    \/ SupervisorStep
    \/ \E k \in Containers : ContainerStep(k)
    \/ ShutdownStep

Spec == Init /\ [][Next]_vars

\* What was begun goes on to its end: operations run under timeouts, a drain
\* under its grace period, a probe under its own.  Nothing is assumed of
\* requests arriving, of the supervisor taking a lock, or of Shutdown being
\* asked for, and not one wait for drains may be cut short by its deadline.
\* The timer behind LockGivesUp runs on while the lock is tried again and
\* again, hence strong fairness; so does the deadline of the operation that
\* keeps waiting for drains.
Fairness ==
    /\ \A c \in Callers :
        /\ WF_vars(LockTaken(c) \/ LockRefused(c) \/ LockWaits(c))
        /\ SF_vars(LockGivesUp(c))
        /\ SF_vars(Unlock(c) \/ ReleaseDeployment(c))
        /\ WF_vars(Settle(c) \/ End(c))
        /\ WF_vars(DrainsGone(c))
    /\ \A k \in Containers : WF_vars(DrainDone(k)) /\ WF_vars(DrainEnd(k)) /\ WF_vars(ProbeDone(k))
    /\ WF_vars(SupervisorReleases \/ SupervisorUnlocked \/ SupervisorExits)
    /\ WF_vars(ShutdownSeesIdle \/ ShutdownSeesLoopEnd \/ ShutdownSeesProbesEnd)

FairSpec == Spec /\ Fairness

----------------------------------------------------------------------------
(* Properties.                                                             *)

Holders(a) == {c \in Callers : app[c] = a /\ pc[c] \in HoldingStates}

\* One operation per application: a deployment, a user operation and the
\* supervisor never work on the same application at once, and the lock is
\* free exactly when nobody does (release does not ask who holds it, so a
\* release too many would free somebody else's lock).
OneOperationPerApp ==
    \A a \in Apps :
        /\ \A c, d \in Holders(a) : c = d
        /\ (sup.at = "holding" /\ sup.app = a) => Holders(a) = {}
        /\ locks[a] = "user" <=> Holders(a) # {}
        /\ locks[a] = "supervisor" <=> (sup.at = "holding" /\ sup.app = a)

\* Engine.ops counts exactly what is under way: it never misses an operation
\* that Shutdown has to wait for, and never keeps it waiting for nothing.
Counted == {c \in Callers : pc[c] \in CountedStates}
Draining == {k \in Containers : drains[k] # "none"}
OpsCountsOperations ==
    ops = Cardinality(Counted) + Cardinality(Draining)
            + (IF sup.at \in {"holding", "unlocked"} THEN 1 ELSE 0)

\* Once Shutdown has returned without an error, nothing that uses Docker or
\* the database runs, now or later: main closes both.
QuietAfterShutdown ==
    down = "done" =>
        /\ Counted = {}
        /\ Draining = {}
        /\ sup.at = "exited"
        /\ probes = {}

\* A user operation waits behind the supervisor only while the supervisor
\* holds that application: no waiter is left behind by a release.
NoLostWakeup ==
    \A c \in Callers : pc[c] = "waiting" => locks[app[c]] = "supervisor"

\* What the lock and the count promise at every moment (tryLock, release,
\* beginOp, opDone, Shutdown).
LockSafety ==
    TypeOK /\ OneOperationPerApp /\ OpsCountsOperations /\ QuietAfterShutdown /\ NoLostWakeup

\* Whoever asks for an application is answered.
RequestsAreAnswered ==
    \A c \in Callers : (pc[c] = "waiting") ~> (pc[c] \in {"idle", "holding"})

\* Shutdown comes to an end; and with its deadline or without, every
\* operation, drain and tick that was under way when it began does too.
ShutdownEnds ==
    /\ (down = "ops") ~> (down \in {"done", "expired"})
    /\ closed ~> [](ops = 0 /\ sup.at = "exited" /\ probes = {})
=============================================================================
