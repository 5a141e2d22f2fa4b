----------------------------- MODULE DeployMany -----------------------------
(* shipwick deploy with a shipwick.yaml: the command deploys its           *)
(* applications in dependency order, several at a time, each in a goroutine*)
(* that sends what must be sent, starts the deployment and polls the agent *)
(* until it is done (cli/internal/commands: multi.go, select.go, deploy.go,*)
(* build.go, static.go; pkg/spec/multi.go).  The agent may be away, its    *)
(* answers may be lost, and Ctrl-C ends the waiting at any time.           *)
EXTENDS Naturals, FiniteSets

CONSTANTS Entries,          \* how many applications the file has
          Afters,           \* what its after: lists may say: [1..Entries -> SUBSET Nat]
          Selections,       \* the names given to the command; {}: none
          Limits,           \* --parallel
          MaxPollFailures,  \* failed polls in a row before the wait ends
          ManyBudgets       \* bounds on faults

ASSUME EntriesAssumption == Entries \in Nat \ {0} /\ MaxPollFailures \in Nat \ {0}

VARIABLES command,   \* the command: its phase, flags and exit code
          outcomes,  \* schedule.state: where each application stands
          flights,   \* the goroutine of each application
          server,    \* the deployment each has on the server
          agentUp,   \* the agent answers
          faults     \* what may still go wrong

manyVars == <<command, outcomes, flights, server, agentUp, faults>>

Apps == 1..Entries
Settled == {"ACTIVE", "FAILED", "ROLLED_BACK"}
NoDeployment == [status |-> "none", completed |-> FALSE]
NoFlight == [pc |-> "none", failures |-> 0, outcome |-> "none"]

ManyInit ==
    /\ \E after \in Afters, names \in Selections, limit \in Limits, noWait \in BOOLEAN :
         command = [phase |-> "loading", after |-> after, names |-> names, limit |-> limit,
                    noWait |-> noWait, halted |-> FALSE, interrupted |-> FALSE, exit |-> "none"]
    /\ outcomes = [i \in Apps |-> "left out"]
    /\ flights = [i \in Apps |-> NoFlight]
    /\ server = [i \in Apps |-> NoDeployment]
    /\ agentUp = TRUE
    /\ faults \in ManyBudgets

-----------------------------------------------------------------------------
(* The file, and the applications the command was asked for.               *)

(* The depth-first search of validateAfter finds an application that waits *)
(* for itself, directly or through others; every name must be of the file. *)
Reach[n \in Nat] ==
    IF n = 0 THEN [i \in Apps |-> command.after[i] \cap Apps]
    ELSE LET r == Reach[n - 1] IN [i \in Apps |-> r[i] \union UNION {r[j] : j \in r[i]}]

validateAfter == \A i \in Apps : command.after[i] \subseteq Apps /\ i \notin Reach[Entries][i]

(* An after: that names an application left out is dropped.                *)
Chosen == IF command.names = {} THEN Apps ELSE command.names
After(i) == command.after[i] \cap Chosen

loadMany ==
    /\ command.phase = "loading"
    /\ IF validateAfter /\ command.names \subseteq Apps
       THEN /\ command' = [command EXCEPT !.phase = "scheduling",
                              !.limit = IF command.noWait THEN Cardinality(Chosen) ELSE @]
            /\ outcomes' = [i \in Apps |-> IF i \in Chosen THEN "pending" ELSE "left out"]
       ELSE command' = [command EXCEPT !.phase = "ended", !.exit = "refused"] /\ UNCHANGED outcomes
    /\ UNCHANGED <<flights, server, agentUp, faults>>

-----------------------------------------------------------------------------
(* The schedule.                                                           *)

Count(states, outcome) == Cardinality({i \in Apps : states[i] = outcome})
inFlight(states) == Count(states, "running")

(* A skip can cascade: repeated until nothing changes.                     *)
Skips[n \in Nat] ==
    IF n = 0 THEN outcomes
    ELSE LET s == Skips[n - 1] IN
         [i \in Apps |-> IF s[i] = "pending" /\ \E d \in After(i) : s[d] \in {"failed", "skipped"}
                         THEN "skipped" ELSE s[i]]

Ready(states, i) == \A d \in After(i) : states[d] = "deployed"

(* In file order, while a slot is free.                                    *)
Starts[i \in Nat] ==
    IF i = 0 THEN Skips[Entries]
    ELSE LET s == Starts[i - 1] IN
         IF s[i] = "pending" /\ inFlight(s) < command.limit /\ Ready(s, i)
         THEN [s EXCEPT ![i] = "running"] ELSE s

next == IF command.halted THEN Skips[Entries] ELSE Starts[Entries]

(* What makes the exit code non-zero.                                      *)
Unsuccessful(states) == Count(states, "failed") + Count(states, "skipped") + Count(states, "interrupted")

(* One round of runMany: the skips, the new goroutines; the command ends   *)
(* when nothing is in flight.                                              *)
runMany ==
    /\ command.phase = "scheduling"
    /\ outcomes' = next
    /\ flights' = [i \in Apps |-> IF next[i] = "running" /\ outcomes[i] = "pending"
                                  THEN [NoFlight EXCEPT !.pc = "asking"] ELSE flights[i]]
    /\ command' = IF inFlight(next) > 0
                  THEN [command EXCEPT !.phase = "waiting", !.halted = @ \/ command.noWait]
                  ELSE [command EXCEPT !.phase = "ended", !.halted = @ \/ command.noWait,
                                       !.exit = IF Unsuccessful(next) > 0 THEN "failure" ELSE "success"]
    /\ UNCHANGED <<server, agentUp, faults>>

(* A result is received: finish; after Ctrl-C nothing new starts.          *)
finish(i) ==
    /\ command.phase = "waiting" /\ flights[i].pc = "done"
    /\ outcomes' = [outcomes EXCEPT ![i] = flights[i].outcome]
    /\ flights' = [flights EXCEPT ![i] = NoFlight]
    /\ command' = [command EXCEPT !.phase = "scheduling", !.halted = @ \/ command.interrupted]
    /\ UNCHANGED <<server, agentUp, faults>>

-----------------------------------------------------------------------------
(* One application: deployEntry.                                           *)

Flies(i, pc) == flights[i].pc = pc
Goes(i, pc) == flights' = [flights EXCEPT ![i].pc = pc]
Ends(i, outcome) == flights' = [flights EXCEPT ![i].pc = "done", ![i].outcome = outcome]
(* An error after Ctrl-C is an interruption; but not of a build.           *)
Errs(i) == Ends(i, IF command.interrupted THEN "interrupted" ELSE "failed")
Fault == faults > 0 /\ faults' = faults - 1

(* askFirst; then what is built here is built and sent, a folder uploaded. *)
askFirst(i) ==
    /\ Flies(i, "asking") /\ ~command.interrupted
    /\ \/ agentUp /\ Goes(i, "sending") /\ UNCHANGED faults
       \/ agentUp /\ Fault /\ Ends(i, "failed")      \* the agent refuses it
       \/ ~agentUp /\ Ends(i, "failed") /\ UNCHANGED faults
    /\ UNCHANGED <<command, outcomes, server, agentUp>>

buildImage(i) ==
    /\ Flies(i, "sending") /\ ~command.interrupted
    /\ \/ agentUp /\ Goes(i, "starting") /\ UNCHANGED faults
       \/ Fault /\ Ends(i, "failed")
       \/ ~agentUp /\ Ends(i, "failed") /\ UNCHANGED faults
    /\ UNCHANGED <<command, outcomes, server, agentUp>>

(* A build that Ctrl-C ends fails; an upload or a request is interrupted.  *)
SendInterrupted(i) ==
    /\ command.interrupted /\ (Flies(i, "asking") \/ Flies(i, "sending"))
    /\ Ends(i, "failed") \/ Ends(i, "interrupted")
    /\ UNCHANGED <<command, outcomes, server, agentUp, faults>>

(* Follow it, or with --no-wait be done.                                   *)
Followed(i) == IF command.noWait THEN Ends(i, "begun") ELSE Goes(i, "polling")

(* The request arrives and is answered, is refused because the application *)
(* is busy, or its answer is lost on the way.                              *)
startDeployment(i) ==
    /\ Flies(i, "starting")
    /\ \/ /\ agentUp /\ ~command.interrupted
          /\ server' = [server EXCEPT ![i].status = "running"] /\ Followed(i) /\ UNCHANGED faults
       \/ /\ agentUp /\ Fault
          /\ server' = [server EXCEPT ![i].status = "running"] /\ Errs(i)
       \/ /\ (agentUp /\ Fault) \/ ((~agentUp \/ command.interrupted) /\ UNCHANGED faults)
          /\ Errs(i) /\ UNCHANGED server
    /\ UNCHANGED <<command, outcomes, agentUp>>

(* Mutant: the wait ends with the first settled status.                    *)
AnsweredSettled(i) == server[i].status \in Settled

(* "Done" is completed_at.                                                 *)
Answered(i) == server[i].completed

(* awaitDeployment: one poll.                                              *)
awaitDeployment(i) ==
    /\ Flies(i, "polling")
    /\ \/ /\ ~command.interrupted /\ agentUp
          /\ IF ~Answered(i) THEN flights' = [flights EXCEPT ![i].failures = 0]
             ELSE Ends(i, IF server[i].status = "ACTIVE" THEN "deployed" ELSE "failed")
          /\ UNCHANGED faults
       \/ /\ ~command.interrupted /\ ((agentUp /\ Fault) \/ (~agentUp /\ UNCHANGED faults))
          /\ IF flights[i].failures + 1 >= MaxPollFailures THEN Ends(i, "failed")
             ELSE flights' = [flights EXCEPT ![i].failures = @ + 1]
       \/ ~command.interrupted /\ agentUp /\ Fault /\ Ends(i, "failed")   \* deleted meanwhile
       \/ command.interrupted /\ Ends(i, "interrupted") /\ UNCHANGED faults
    /\ UNCHANGED <<command, outcomes, server, agentUp>>

-----------------------------------------------------------------------------
(* Around the command.                                                     *)

Interrupt ==
    /\ command.phase \in {"scheduling", "waiting"} /\ ~command.interrupted /\ Fault
    /\ command' = [command EXCEPT !.interrupted = TRUE]
    /\ UNCHANGED <<outcomes, flights, server, agentUp>>

(* The agent carries a deployment out: it settles, then it is complete.    *)
Settle(i) ==
    /\ agentUp /\ server[i].status = "running"
    /\ \/ server' = [server EXCEPT ![i].status = "ACTIVE"] /\ UNCHANGED faults
       \/ Fault /\ \E status \in Settled \ {"ACTIVE"} : server' = [server EXCEPT ![i].status = status]
    /\ UNCHANGED <<command, outcomes, flights, agentUp>>

Complete(i) ==
    /\ agentUp /\ server[i].status \in Settled /\ ~server[i].completed
    /\ server' = [server EXCEPT ![i].completed = TRUE]
    /\ UNCHANGED <<command, outcomes, flights, agentUp, faults>>

AgentAway == agentUp /\ Fault /\ agentUp' = FALSE /\ UNCHANGED <<command, outcomes, flights, server>>
AgentBack == ~agentUp /\ agentUp' = TRUE /\ UNCHANGED <<command, outcomes, flights, server, faults>>

Flight(i) == askFirst(i) \/ buildImage(i) \/ SendInterrupted(i) \/ startDeployment(i) \/ awaitDeployment(i)

ManyNext ==
    \/ loadMany \/ runMany \/ Interrupt \/ AgentAway \/ AgentBack
    \/ \E i \in Apps : Flight(i) \/ finish(i) \/ Settle(i) \/ Complete(i)

-----------------------------------------------------------------------------
(* Properties.                                                             *)

(* A deployment begins on the server only when every application it waits  *)
(* for, of those chosen, has deployed there to its end: "After names the   *)
(* applications of the same file that must have deployed before this one   *)
(* starts" (spec/multi.go), through polls that fail, answers that are lost *)
(* and Ctrl-C.                                                             *)
DependenciesFirst == \A i \in Apps : server[i].status # "none" =>
    \A d \in After(i) : server[d] = [status |-> "ACTIVE", completed |-> TRUE]

(* A pipeline may trust the exit code: unless someone pressed Ctrl-C, a    *)
(* command that ends without an error has deployed everything it was asked *)
(* for, and with --no-wait has begun what waits for nothing.               *)
ExitSaysIt == command.exit = "success" /\ ~command.interrupted =>
    \A i \in Chosen :
       IF command.noWait THEN After(i) = {} => server[i].status # "none"
       ELSE server[i] = [status |-> "ACTIVE", completed |-> TRUE]

(* The command deploys in the order the file asks for and its exit code    *)
(* says how that went (multi.go, runMany).                           *)
DeploysAsAsked == DependenciesFirst /\ ExitSaysIt
=============================================================================
