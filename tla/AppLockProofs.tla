--------------------------- MODULE AppLockProofs ---------------------------
(***************************************************************************)
(* Proofs about AppLock, for any finite sets of applications, callers and  *)
(* containers.                                                             *)
(***************************************************************************)
EXTENDS AppLock, FiniteSetTheorems, TLAPS

\* Engine.locks, Engine.ops and the goroutines always have the values the
\* code can give them.
THEOREM TypeCorrect == Spec => []TypeOK
<1>1. Init => TypeOK
  <2> SUFFICES ASSUME Init PROVE TypeOK
    OBVIOUS
  <2>1. PICK a \in Apps : sup = [at |-> "idle", app |-> a]
    BY DEF Init
  <2>2. sup \in [at : {"idle", "holding", "unlocked", "exited"}, app : Apps]
    BY <2>1
  <2>3. closed \in BOOLEAN
    BY Zenon DEF Init
  <2>7. ops \in Int
    BY DEF Init
  <2>4. /\ locks \in [Apps -> {"free", "user", "supervisor"}]
        /\ pc \in [Callers -> {"idle", "trying", "waiting"} \cup CountedStates]
        /\ app \in [Callers -> Apps]
    BY DEF Init, CountedStates, HoldingStates
  <2>5. /\ drains \in [Containers -> {"none", "draining", "ending"}]
        /\ probes \in SUBSET Containers
    BY DEF Init
  <2>6. down \in {"up", "ops", "bg", "probes", "done", "expired"}
    BY DEF Init
  <2> QED BY <2>2, <2>3, <2>4, <2>5, <2>6, <2>7 DEF TypeOK
<1>2. TypeOK /\ [Next]_vars => TypeOK'
  <2> SUFFICES ASSUME TypeOK, [Next]_vars PROVE TypeOK'
    OBVIOUS
  <2> USE DEF TypeOK, CountedStates, HoldingStates
  <2>1. ASSUME NEW c \in Callers, CallerStep(c) PROVE TypeOK'
    <3>1. CASE \E a \in Apps : Request(c, a)
      BY <3>1 DEF Request
    <3>2. CASE LockTaken(c)
      BY <3>2 DEF LockTaken, TryLock
    <3>3. CASE LockRefused(c) \/ LockWaits(c) \/ LockGivesUp(c)
      BY <3>3 DEF LockRefused, LockWaits, LockGivesUp
    <3>4. CASE Launch(c) \/ Settle(c)
      BY <3>4 DEF Launch, Settle
    <3>5. CASE Unlock(c) \/ ReleaseDeployment(c)
      BY <3>5 DEF Unlock, ReleaseDeployment, Release, Woken
    <3>6. CASE End(c) \/ BeginOp(c)
      BY <3>6 DEF End, BeginOp, OpDone
    <3>7. CASE AwaitDrains(c) \/ DrainsGone(c) \/ AwaitGivesUp(c)
      BY <3>7 DEF AwaitDrains, DrainsGone, AwaitGivesUp, Awaited
    <3> QED BY <2>1, <3>1, <3>2, <3>3, <3>4, <3>5, <3>6, <3>7 DEF CallerStep
  <2>2. CASE SupervisorStep
    <3>1. CASE \E a \in Apps : SupervisorLocks(a)
      BY <3>1 DEF SupervisorLocks, TryLock
    <3>2. CASE \E s \in Slots : SupervisorProbes(s)
      BY <3>2 DEF SupervisorProbes, Containers
    <3>3. CASE SupervisorReleases
      BY <3>3 DEF SupervisorReleases, Release, Woken
    <3>4. CASE SupervisorUnlocked \/ SupervisorExits
      BY <3>4 DEF SupervisorUnlocked, SupervisorExits, OpDone
    <3> QED BY <2>2, <3>1, <3>2, <3>3, <3>4 DEF SupervisorStep
  <2>3. ASSUME NEW k \in Containers, ContainerStep(k) PROVE TypeOK'
    BY <2>3 DEF ContainerStep, RetireInBackground, DrainDone, DrainEnd, ProbeDone, OpDone
  <2>4. CASE ShutdownStep
    BY <2>4 DEF ShutdownStep, ShutdownBegins, ShutdownSeesIdle, ShutdownSeesLoopEnd,
                ShutdownSeesProbesEnd, ShutdownExpires
  <2>5. CASE UNCHANGED vars
    BY <2>5 DEF vars
  <2> QED BY <2>1, <2>2, <2>3, <2>4, <2>5 DEF Next
<1> QED BY <1>1, <1>2, PTL DEF Spec

\* The shutdown's waits, in order: ops came to zero after closed was set and
\* stays there, the supervisor's loop has ended, the probes have.
ShutdownInOrder ==
    /\ down = "up" <=> ~closed
    /\ down \in {"bg", "probes", "done"} => ops = 0
    /\ down \in {"probes", "done"} => sup.at = "exited"
    /\ down = "done" => probes = {}

\* One operation per application, whatever the interleaving of requests,
\* deployments that outlive their request, the supervisor and Shutdown.
THEOREM MutualExclusion == Spec => []OneOperationPerApp
<1>1. Init => OneOperationPerApp
  <2> SUFFICES ASSUME Init PROVE OneOperationPerApp
    OBVIOUS
  <2>1. \A a \in Apps : Holders(a) = {} /\ locks[a] = "free"
    BY DEF Init, Holders, HoldingStates
  <2>2. sup.at = "idle"
    BY DEF Init
  <2> QED BY <2>1, <2>2 DEF OneOperationPerApp
<1>2. TypeOK /\ OneOperationPerApp /\ [Next]_vars => OneOperationPerApp'
  <2> SUFFICES ASSUME TypeOK, OneOperationPerApp, [Next]_vars PROVE OneOperationPerApp'
    OBVIOUS
  <2> USE DEF TypeOK, HoldingStates, CountedStates, OneOperationPerApp, Holders
  <2>1. ASSUME NEW c \in Callers, CallerStep(c) PROVE OneOperationPerApp'
    <3>1. CASE \E a \in Apps : Request(c, a)
      BY <3>1 DEF Request
    <3>2. CASE LockTaken(c)
      BY <3>2 DEF LockTaken, TryLock
    <3>3. CASE LockRefused(c) \/ LockWaits(c) \/ LockGivesUp(c)
      BY <3>3 DEF LockRefused, LockWaits, LockGivesUp
    <3>4. CASE Launch(c) \/ Settle(c)
      BY <3>4 DEF Launch, Settle
    <3>5. CASE Unlock(c) \/ ReleaseDeployment(c)
      BY <3>5 DEF Unlock, ReleaseDeployment, Release, Woken
    <3>6. CASE End(c) \/ BeginOp(c)
      BY <3>6 DEF End, BeginOp
    <3>7. CASE AwaitDrains(c) \/ DrainsGone(c) \/ AwaitGivesUp(c)
      BY <3>7 DEF AwaitDrains, DrainsGone, AwaitGivesUp, Awaited
    <3> QED BY <2>1, <3>1, <3>2, <3>3, <3>4, <3>5, <3>6, <3>7 DEF CallerStep
  <2>2. CASE SupervisorStep
    <3>1. CASE \E a \in Apps : SupervisorLocks(a)
      BY <3>1 DEF SupervisorLocks, TryLock
    <3>2. CASE \E s \in Slots : SupervisorProbes(s)
      BY <3>2 DEF SupervisorProbes
    <3>3. CASE SupervisorReleases
      BY <3>3 DEF SupervisorReleases, Release, Woken
    <3>4. CASE SupervisorUnlocked \/ SupervisorExits
      BY <3>4 DEF SupervisorUnlocked, SupervisorExits
    <3> QED BY <2>2, <3>1, <3>2, <3>3, <3>4 DEF SupervisorStep
  <2>3. ASSUME NEW k \in Containers, ContainerStep(k) PROVE OneOperationPerApp'
    BY <2>3 DEF ContainerStep, RetireInBackground, DrainDone, DrainEnd, ProbeDone
  <2>4. CASE ShutdownStep
    BY <2>4 DEF ShutdownStep, ShutdownBegins, ShutdownSeesIdle, ShutdownSeesLoopEnd,
                ShutdownSeesProbesEnd, ShutdownExpires
  <2>5. CASE UNCHANGED vars
    BY <2>5 DEF vars
  <2> QED BY <2>1, <2>2, <2>3, <2>4, <2>5 DEF Next
<1> QED BY <1>1, <1>2, TypeCorrect, PTL DEF Spec

\* What is counted is finite, and a count is a natural number.
LEMMA FiniteCounts ==
    /\ IsFiniteSet(Counted) /\ Cardinality(Counted) \in Nat
    /\ IsFiniteSet(Draining) /\ Cardinality(Draining) \in Nat
<1>1. IsFiniteSet(Containers)
  BY FiniteAssumption, FS_Product DEF Containers
<1>2. Counted \in SUBSET Callers /\ Draining \in SUBSET Containers
  BY DEF Counted, Draining
<1>3. IsFiniteSet(Counted) /\ IsFiniteSet(Draining)
  BY <1>1, <1>2, FiniteAssumption, FS_Subset
<1> QED BY <1>3, FS_CardinalityType

\* Engine.ops is exactly the number of operations, drains and ticks under way.
THEOREM OpsCorrect == Spec => []OpsCountsOperations
<1> DEFINE Sup == IF sup.at \in {"holding", "unlocked"} THEN 1 ELSE 0
<1>1. Init => OpsCountsOperations
  <2> SUFFICES ASSUME Init PROVE OpsCountsOperations
    OBVIOUS
  <2>1. Counted = {} /\ Draining = {}
    BY DEF Init, Counted, Draining, CountedStates, HoldingStates
  <2>2. Sup = 0
    BY DEF Init
  <2> QED BY <2>1, <2>2, FS_EmptySet DEF Init, OpsCountsOperations
<1>2. TypeOK /\ OpsCountsOperations /\ [Next]_vars => OpsCountsOperations'
  <2> SUFFICES ASSUME TypeOK, OpsCountsOperations, [Next]_vars PROVE OpsCountsOperations'
    OBVIOUS
  <2>0. /\ Cardinality(Counted) \in Nat
        /\ Cardinality(Draining) \in Nat
        /\ ops = Cardinality(Counted) + Cardinality(Draining) + Sup
    BY FiniteCounts DEF OpsCountsOperations
  <2>a. SUFFICES ops' = Cardinality(Counted') + Cardinality(Draining') + Sup'
    BY DEF OpsCountsOperations
  <2> USE DEF TypeOK, HoldingStates, CountedStates
  <2>1. ASSUME NEW c \in Callers, CallerStep(c)
        PROVE  ops' = Cardinality(Counted') + Cardinality(Draining') + Sup'
    <3>0. Draining' = Draining /\ Sup' = Sup
      BY <2>1 DEF CallerStep, Request, LockTaken, LockRefused, LockWaits, LockGivesUp, Launch,
                  Unlock, ReleaseDeployment, Settle, End, BeginOp, AwaitDrains, DrainsGone,
                  AwaitGivesUp, Draining
    <3>1. CASE (\E a \in Apps : Request(c, a)) \/ LockRefused(c) \/ LockWaits(c) \/ LockGivesUp(c)
      <4>1. Counted' = Counted /\ ops' = ops
        BY <3>1 DEF Request, LockRefused, LockWaits, LockGivesUp, Counted
      <4> QED BY <2>0, <3>0, <4>1
    <3>2. CASE LockTaken(c) \/ BeginOp(c)
      <4>1. c \notin Counted /\ Counted' = Counted \cup {c} /\ ops' = ops + 1
        BY <3>2 DEF LockTaken, BeginOp, TryLock, Counted
      <4>2. Cardinality(Counted') = Cardinality(Counted) + 1
        BY <4>1, FiniteCounts, FS_AddElement
      <4> QED BY <2>0, <3>0, <4>1, <4>2
    <3>3. CASE Launch(c) \/ Settle(c)
      <4>1. Counted' = Counted /\ ops' = ops
        BY <3>3 DEF Launch, Settle, Counted
      <4> QED BY <2>0, <3>0, <4>1
    <3>4. CASE Unlock(c) \/ ReleaseDeployment(c)
      <4>1. Counted' = Counted /\ ops' = ops
        BY <3>4 DEF Unlock, ReleaseDeployment, Woken, Counted
      <4> QED BY <2>0, <3>0, <4>1
    <3>5. CASE End(c)
      <4>1. c \in Counted /\ Counted' = Counted \ {c} /\ ops' = ops - 1
        BY <3>5 DEF End, OpDone, Counted
      <4>2. Cardinality(Counted') = Cardinality(Counted) - 1
        BY <4>1, FiniteCounts, FS_RemoveElement
      <4> QED BY <2>0, <3>0, <4>1, <4>2
    <3>6. CASE AwaitDrains(c) \/ DrainsGone(c) \/ AwaitGivesUp(c)
      <4>1. Counted' = Counted /\ ops' = ops
        BY <3>6 DEF AwaitDrains, DrainsGone, AwaitGivesUp, Awaited, Counted
      <4> QED BY <2>0, <3>0, <4>1
    <3> QED BY <2>1, <3>1, <3>2, <3>3, <3>4, <3>5, <3>6 DEF CallerStep
  <2>2. CASE SupervisorStep
    <3>1. Counted' = Counted /\ Draining' = Draining
      BY <2>2 DEF SupervisorStep, SupervisorLocks, SupervisorProbes, SupervisorReleases,
                  SupervisorUnlocked, SupervisorExits, Woken, Counted, Draining
    <3>2. ops' - Sup' = ops - Sup
      BY <2>2 DEF SupervisorStep, SupervisorLocks, SupervisorProbes, SupervisorReleases,
                  SupervisorUnlocked, SupervisorExits, TryLock, OpDone
    <3>3. ops \in Int /\ ops' \in Int /\ Sup \in Int /\ Sup' \in Int
      BY <2>2 DEF SupervisorStep, SupervisorLocks, SupervisorProbes, SupervisorReleases,
                  SupervisorUnlocked, SupervisorExits, TryLock, OpDone
    <3> HIDE DEF Sup
    <3> QED BY <2>0, <3>1, <3>2, <3>3
  <2>3. ASSUME NEW k \in Containers, ContainerStep(k)
        PROVE  ops' = Cardinality(Counted') + Cardinality(Draining') + Sup'
    <3>0. Counted' = Counted /\ Sup' = Sup
      BY <2>3 DEF ContainerStep, RetireInBackground, DrainDone, DrainEnd, ProbeDone, Counted
    <3>1. CASE RetireInBackground(k)
      <4>1. k \notin Draining /\ Draining' = Draining \cup {k} /\ ops' = ops + 1
        BY <3>1 DEF RetireInBackground, Draining
      <4>2. Cardinality(Draining') = Cardinality(Draining) + 1
        BY <4>1, FiniteCounts, FS_AddElement
      <4> QED BY <2>0, <3>0, <4>1, <4>2
    <3>2. CASE DrainEnd(k)
      <4>1. k \in Draining /\ Draining' = Draining \ {k} /\ ops' = ops - 1
        BY <3>2 DEF DrainEnd, OpDone, Draining
      <4>2. Cardinality(Draining') = Cardinality(Draining) - 1
        BY <4>1, FiniteCounts, FS_RemoveElement
      <4> QED BY <2>0, <3>0, <4>1, <4>2
    <3>3. CASE DrainDone(k) \/ ProbeDone(k)
      <4>1. Draining' = Draining /\ ops' = ops
        BY <3>3 DEF DrainDone, ProbeDone, Draining
      <4> QED BY <2>0, <3>0, <4>1
    <3> QED BY <2>3, <3>1, <3>2, <3>3 DEF ContainerStep
  <2>4. CASE ShutdownStep \/ UNCHANGED vars
    <3>1. Counted' = Counted /\ Draining' = Draining /\ ops' = ops /\ Sup' = Sup
      BY <2>4 DEF ShutdownStep, ShutdownBegins, ShutdownSeesIdle, ShutdownSeesLoopEnd,
                  ShutdownSeesProbesEnd, ShutdownExpires, Counted, Draining, vars
    <3> QED BY <2>0, <3>1
  <2> QED BY <2>1, <2>2, <2>3, <2>4 DEF Next
<1> QED BY <1>1, <1>2, TypeCorrect, PTL DEF Spec

\* When Shutdown returns without an error, no operation, drain, tick or probe
\* is under way and none can begin: Docker and the database may be closed.
THEOREM ShutdownIsQuiet == Spec => []QuietAfterShutdown
<1>1. Init => ShutdownInOrder
  BY DEF Init, ShutdownInOrder
<1>2. TypeOK /\ OpsCountsOperations /\ ShutdownInOrder /\ [Next]_vars => ShutdownInOrder'
  <2> SUFFICES ASSUME TypeOK, OpsCountsOperations, ShutdownInOrder, [Next]_vars
               PROVE  ShutdownInOrder'
    OBVIOUS
  <2>0. ops = 0 => Counted = {} /\ Draining = {} /\ sup.at \notin {"holding", "unlocked"}
    BY FiniteCounts, FS_EmptySet DEF OpsCountsOperations
  <2> USE DEF TypeOK, ShutdownInOrder
  <2>1. ASSUME NEW c \in Callers, CallerStep(c) PROVE ShutdownInOrder'
    <3>1. closed' = closed /\ down' = down /\ sup' = sup /\ probes' = probes
      BY <2>1 DEF CallerStep, Request, LockTaken, LockRefused, LockWaits, LockGivesUp, Launch,
                  Unlock, ReleaseDeployment, Settle, End, BeginOp, AwaitDrains, DrainsGone, AwaitGivesUp
    <3>2. ops' # ops => ~closed \/ c \in Counted
      BY <2>1 DEF CallerStep, Request, LockTaken, LockRefused, LockWaits, LockGivesUp, Launch,
                  Unlock, ReleaseDeployment, Settle, End, BeginOp, AwaitDrains, DrainsGone, AwaitGivesUp,
                  TryLock, Counted, CountedStates
    <3> QED BY <2>0, <3>1, <3>2
  <2>2. CASE SupervisorStep
    BY <2>0, <2>2 DEF SupervisorStep, SupervisorLocks, SupervisorProbes, SupervisorReleases,
                SupervisorUnlocked, SupervisorExits, TryLock
  <2>3. ASSUME NEW k \in Containers, ContainerStep(k) PROVE ShutdownInOrder'
    <3>1. closed' = closed /\ down' = down /\ sup' = sup /\ probes' \in SUBSET probes
      BY <2>3 DEF ContainerStep, RetireInBackground, DrainDone, DrainEnd, ProbeDone
    <3>2. ops' # ops => ~closed \/ k \in Draining
      BY <2>3 DEF ContainerStep, RetireInBackground, DrainDone, DrainEnd, ProbeDone, Draining
    <3> QED BY <2>0, <3>1, <3>2
  <2>4. CASE ShutdownStep
    BY <2>4 DEF ShutdownStep, ShutdownBegins, ShutdownSeesIdle, ShutdownSeesLoopEnd,
                ShutdownSeesProbesEnd, ShutdownExpires
  <2>5. CASE UNCHANGED vars
    BY <2>5 DEF vars
  <2> QED BY <2>1, <2>2, <2>3, <2>4, <2>5 DEF Next
<1>3. OpsCountsOperations /\ ShutdownInOrder => QuietAfterShutdown
  BY FiniteCounts, FS_EmptySet DEF OpsCountsOperations, ShutdownInOrder, QuietAfterShutdown
<1> QED BY <1>1, <1>2, <1>3, TypeCorrect, OpsCorrect, PTL DEF Spec

\* A release wakes everybody who waits for that application, and nobody can
\* begin to wait for one the supervisor does not hold (lock, release).
THEOREM WakeupsAreKept == Spec => []NoLostWakeup
<1>1. Init => NoLostWakeup
  BY DEF Init, NoLostWakeup
<1>2. TypeOK /\ OneOperationPerApp /\ NoLostWakeup /\ [Next]_vars => NoLostWakeup'
  <2> SUFFICES ASSUME TypeOK, OneOperationPerApp, NoLostWakeup, [Next]_vars
               PROVE  NoLostWakeup'
    OBVIOUS
  <2> USE DEF TypeOK, NoLostWakeup
  <2>1. ASSUME NEW c \in Callers, CallerStep(c) PROVE NoLostWakeup'
    <3>1. CASE \E a \in Apps : Request(c, a)
      BY <3>1 DEF Request
    <3>2. CASE LockTaken(c)
      BY <3>2 DEF LockTaken, TryLock
    <3>3. CASE LockRefused(c) \/ LockWaits(c) \/ LockGivesUp(c)
      BY <3>3 DEF LockRefused, LockWaits, LockGivesUp
    <3>4. CASE Unlock(c) \/ ReleaseDeployment(c)
      BY <3>4 DEF Unlock, ReleaseDeployment, Release, Woken
    <3>5. CASE Launch(c) \/ Settle(c) \/ End(c) \/ BeginOp(c)
      BY <3>5 DEF Launch, Settle, End, BeginOp
    <3>6. CASE AwaitDrains(c) \/ DrainsGone(c) \/ AwaitGivesUp(c)
      BY <3>6 DEF AwaitDrains, DrainsGone, AwaitGivesUp, Awaited
    <3> QED BY <2>1, <3>1, <3>2, <3>3, <3>4, <3>5, <3>6 DEF CallerStep
  <2>2. CASE SupervisorStep
    <3>1. CASE \E a \in Apps : SupervisorLocks(a)
      BY <3>1 DEF SupervisorLocks, TryLock
    <3>2. CASE SupervisorReleases
      BY <3>2 DEF SupervisorReleases, Release, Woken
    <3>3. CASE SupervisorUnlocked \/ SupervisorExits \/ \E s \in Slots : SupervisorProbes(s)
      BY <3>3 DEF SupervisorUnlocked, SupervisorExits, SupervisorProbes
    <3> QED BY <2>2, <3>1, <3>2, <3>3 DEF SupervisorStep
  <2>3. ASSUME NEW k \in Containers, ContainerStep(k) PROVE NoLostWakeup'
    BY <2>3 DEF ContainerStep, RetireInBackground, DrainDone, DrainEnd, ProbeDone
  <2>4. CASE ShutdownStep \/ UNCHANGED vars
    BY <2>4 DEF ShutdownStep, ShutdownBegins, ShutdownSeesIdle, ShutdownSeesLoopEnd,
                ShutdownSeesProbesEnd, ShutdownExpires, vars
  <2> QED BY <2>1, <2>2, <2>3, <2>4 DEF Next
<1> QED BY <1>1, <1>2, TypeCorrect, MutualExclusion, PTL DEF Spec

\* All of it at once, for any number of applications, callers and containers:
\* what the run of MCAppLock checks on its instance.
THEOREM LockIsSafe == Spec => []LockSafety
BY TypeCorrect, MutualExclusion, OpsCorrect, ShutdownIsQuiet, WakeupsAreKept, PTL DEF LockSafety
=============================================================================
