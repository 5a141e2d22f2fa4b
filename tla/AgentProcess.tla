---------------------------- MODULE AgentProcess ----------------------------
(***************************************************************************)
(* The life of the agent's process (agent/cmd/shipwick-agent/main.go): it  *)
(* opens what it needs, recovers, starts its loops and serves; a signal    *)
(* ends it in an order of its own.  Handlers, operations, loops and probes *)
(* run beside each other all the while and use the database, Docker and    *)
(* the webhook until they end.  Two loops are looked at closer: the look   *)
(* at an application's own hostname after a deployment (deploy/loop.go),   *)
(* and the daily question for a newer release (deploy/updates.go), whose   *)
(* answer outlives the process in a file.                                  *)
(***************************************************************************)
EXTENDS Integers, Sequences, FiniteSets

CONSTANTS
    Handlers,        \* requests being answered
    Operations,      \* engine operations in the background
    MaxProbes,       \* health probes in flight
    RedirectAttempts,\* deploy.redirectAttempts
    Day,             \* deploy.updateInterval
    MaxClock,        \* the last moment
    ProcessBudgets   \* the scenarios: [requests, deploys, signals, faults, backs, starts]

VARIABLES
    phase,      \* "down", "starting", "serving", "closing", "settling", "leaving"
    step,       \* how far the start has come
    open,       \* what is open, in the order it was opened
    handler,    \* what each handler does: "none", "short", "long" or "stream"
    operation,  \* each operation: 0, running; or asking the hostname for the nth time
    loops,      \* the loops that run
    probing,    \* health probes in flight
    ending,     \* [streams, requests, engine, time, gaveUp]: what has been told to
                \* end, whether the time for it ran out, or nobody was told
    clock,      \* the server's clock, which may be set back
    update,     \* updateCheck.state: when the agent last asked, or Never
    asking,     \* whether the question is on its way
    stateFile,  \* the state file
    asked,      \* the last two questions, unless the clock was set back or the
                \* process cut off over one: for the properties
    processLeft \* what is left of the scenario's events

processVars == <<phase, step, open, handler, operation, loops, probing, ending, clock, update, asking,
                 stateFile, asked, processLeft>>

Never == -1
NoOperation == -1

(* run, up to its first request; the steps that may fail end it.           *)
Steps == <<"store", "docker", "listeners", "webhook", "recover", "proxy", "supervisor", "backups",
           "transfers", "updates", "cloudflare", "serve">>
Fatal == {"store", "docker", "listeners", "webhook", "recover"}
Opens == {"store", "docker", "webhook"}
Loops == {"supervisor", "backups", "transfers", "updates", "cloudflare"}
NothingEnds == [streams |-> FALSE, requests |-> FALSE, engine |-> FALSE, time |-> FALSE, gaveUp |-> FALSE]

Working == {h \in Handlers : handler[h] # "none"}
Running == {o \in Operations : operation[o] # NoOperation}
Up == phase # "down"

ProcessInit ==
    /\ phase = "down" /\ step = 0 /\ open = <<>>
    /\ handler = [h \in Handlers |-> "none"]
    /\ operation = [o \in Operations |-> NoOperation]
    /\ loops = {} /\ probing = 0 /\ ending = NothingEnds
    /\ clock = 0 /\ update = Never /\ asking = FALSE /\ stateFile = Never /\ asked = <<>>
    /\ processLeft \in ProcessBudgets

SpendProcess(what) == processLeft[what] > 0 /\ processLeft' = [processLeft EXCEPT ![what] = @ - 1]

-----------------------------------------------------------------------------
(* The start.                                                              *)

(* main: the agent without arguments runs.                                 *)
Begin ==
    /\ phase = "down" /\ SpendProcess("starts")
    /\ phase' = "starting" /\ step' = 1 /\ ending' = NothingEnds
    /\ UNCHANGED <<open, handler, operation, loops, probing, clock, update, asking, stateFile, asked>>

(* loadUpdateState, before the loop that asks starts.                      *)
LoadUpdateState == stateFile

(* One step of run: a resource that is opened, Recover, or a loop.         *)
StartStep ==
    LET s == Steps[step] IN
    /\ phase = "starting"
    /\ open' = IF s \in Opens THEN Append(open, s) ELSE open
    /\ loops' = IF s \in Loops THEN loops \cup {s} ELSE loops
    /\ update' = IF s = "updates" THEN LoadUpdateState ELSE update
    /\ IF s = "serve" THEN phase' = "serving" /\ UNCHANGED step
       ELSE step' = step + 1 /\ UNCHANGED phase
    (* Recover resumes a deployment the agent before left unfinished.      *)
    /\ \/ UNCHANGED operation
       \/ /\ s = "recover"
          /\ \E o \in Operations : operation' = [operation EXCEPT ![o] = 0]
    /\ UNCHANGED <<handler, probing, ending, clock, asking, stateFile, asked, processLeft>>

(* A step that fails ends the process: what was opened so far is closed.   *)
StartFails ==
    /\ phase = "starting" /\ Steps[step] \in Fatal \ {"recover"}
    /\ SpendProcess("faults") /\ phase' = "leaving"
    /\ UNCHANGED <<step, open, handler, operation, loops, probing, ending, clock, update, asking, stateFile, asked>>

(* A Recover that fails, whose drains and resumed deployment may run, and  *)
(* a server that cannot serve end it too: run returns without              *)
(* Engine.Shutdown, and what runs is told nothing.                         *)
GivesUp ==
    /\ \/ /\ phase = "starting" /\ Steps[step] = "recover"
          /\ \/ UNCHANGED operation
             \/ \E o \in Operations : operation' = [operation EXCEPT ![o] = 0]
       \/ phase = "serving" /\ UNCHANGED operation
    /\ SpendProcess("faults")
    /\ phase' = "leaving" /\ ending' = [ending EXCEPT !.gaveUp = TRUE]
    /\ UNCHANGED <<step, open, handler, loops, probing, clock, update, asking, stateFile, asked>>

-----------------------------------------------------------------------------
(* Requests and operations.                                                *)

(* Until the listeners are closed requests are taken; a stream that begins *)
(* once Close was called ends at its first look.                           *)
Accept(h, kind) ==
    /\ phase \in {"serving", "closing"} /\ ~ending.requests
    /\ handler[h] = "none" /\ SpendProcess("requests")
    /\ handler' = [handler EXCEPT ![h] = kind]
    /\ UNCHANGED <<phase, step, open, operation, loops, probing, ending, clock, update, asking, stateFile, asked>>

(* A long one, an upload or a stop that waits, takes its time.             *)
Respond(h) ==
    /\ Up /\ handler[h] # "none"
    /\ handler' = [handler EXCEPT ![h] = "none"]
    /\ UNCHANGED <<phase, step, open, operation, loops, probing, ending, clock, update, asking, stateFile, asked, processLeft>>

(* A request starts a deployment, which runs on once it was answered.      *)
LaunchDeploy(h, o) ==
    /\ Up /\ handler[h] \in {"short", "long"} /\ operation[o] = NoOperation
    /\ ~ending.engine /\ SpendProcess("deploys")
    /\ operation' = [operation EXCEPT ![o] = 0]
    /\ UNCHANGED <<phase, step, open, handler, loops, probing, ending, clock, update, asking, stateFile, asked>>

(* It ends, or is interrupted; one that is active and routed is followed   *)
(* by checkRedirectLoop, still as an operation.                            *)
OperationEnds(o) ==
    /\ Up /\ operation[o] = 0
    /\ \/ operation' = [operation EXCEPT ![o] = NoOperation]
       \/ ~ending.engine /\ operation' = [operation EXCEPT ![o] = 1]
    /\ UNCHANGED <<phase, step, open, handler, loops, probing, ending, clock, update, asking, stateFile, asked, processLeft>>

(* checkRedirectLoop: an answer is recorded; without one it asks again,    *)
(* up to its last attempt or until the engine ends.                        *)
AskHostname(o) ==
    /\ Up /\ operation[o] > 0
    /\ \/ operation' = [operation EXCEPT ![o] = NoOperation]
       \/ /\ ~ending.engine /\ operation[o] < RedirectAttempts
          /\ operation' = [operation EXCEPT ![o] = @ + 1]
    /\ UNCHANGED <<phase, step, open, handler, loops, probing, ending, clock, update, asking, stateFile, asked, processLeft>>

Probe ==
    /\ Up /\ "supervisor" \in loops
    /\ probing < MaxProbes /\ probing' = probing + 1
    /\ UNCHANGED <<phase, step, open, handler, operation, loops, ending, clock, update, asking, stateFile, asked, processLeft>>

ProbeAnswers ==
    /\ Up /\ probing > 0 /\ probing' = probing - 1
    /\ UNCHANGED <<phase, step, open, handler, operation, loops, ending, clock, update, asking, stateFile, asked, processLeft>>

(* A loop ends when the engine does; the one that asks, not before its     *)
(* question is over.                                                       *)
LoopEnds(l) ==
    /\ Up /\ l \in loops /\ ending.engine
    /\ l = "updates" => ~asking
    /\ loops' = loops \ {l}
    /\ UNCHANGED <<phase, step, open, handler, operation, probing, ending, clock, update, asking, stateFile, asked, processLeft>>

-----------------------------------------------------------------------------
(* The daily question.                                                     *)

(* checkForUpdate: never asked, a day ago, or a clock that was set back.   *)
Due == update = Never \/ clock >= update + Day \/ clock < update

Ask ==
    /\ Up /\ "updates" \in loops /\ ~asking /\ Due
    /\ update' = clock /\ asking' = TRUE
    /\ asked' = IF asked = <<>> THEN <<clock>> ELSE <<asked[Len(asked)], clock>>
    /\ UNCHANGED <<phase, step, open, handler, operation, loops, probing, ending, clock, stateFile, processLeft>>

(* Answered or not, when it was asked is kept, renamed into place.  The    *)
(* directory is taken to be writable.                                      *)
Answered ==
    /\ Up /\ asking /\ asking' = FALSE
    /\ stateFile' = update
    /\ UNCHANGED <<phase, step, open, handler, operation, loops, probing, ending, clock, update, asked, processLeft>>

-----------------------------------------------------------------------------
(* The end.                                                                *)

(* The first signal: Close ends the streams before the server waits for    *)
(* its handlers.                                                           *)
Signal ==
    /\ phase = "serving" /\ SpendProcess("signals")
    /\ phase' = "closing" /\ ending' = [ending EXCEPT !.streams = TRUE]
    /\ UNCHANGED <<step, open, handler, operation, loops, probing, clock, update, asking, stateFile, asked>>

(* http.Server.Shutdown: no further request, then it waits.                *)
StopAccepting ==
    /\ phase = "closing" /\ ~ending.requests
    /\ ending' = [ending EXCEPT !.requests = TRUE]
    /\ UNCHANGED <<phase, step, open, handler, operation, loops, probing, clock, update, asking, stateFile, asked, processLeft>>

HandlersDone ==
    /\ phase = "closing" /\ ending.requests
    /\ Working = {} \/ ending.time
    /\ phase' = "settling" /\ ending' = [ending EXCEPT !.engine = TRUE]
    /\ UNCHANGED <<step, open, handler, operation, loops, probing, clock, update, asking, stateFile, asked, processLeft>>

(* Mutant: the operations are waited for, and nothing else.                *)
SettledOperations == Running = {}

(* Engine.Shutdown waits for operations, loops and probes.                 *)
Settled == Running = {} /\ loops = {} /\ probing = 0

EngineDone ==
    /\ phase = "settling" /\ (Settled \/ ending.time)
    /\ phase' = "leaving"
    /\ UNCHANGED <<step, open, handler, operation, loops, probing, ending, clock, update, asking, stateFile, asked, processLeft>>

(* shutdownTimeout, one for both.                                          *)
TimeOut ==
    /\ phase \in {"closing", "settling"} /\ ~ending.time
    /\ SpendProcess("faults")
    /\ ending' = [ending EXCEPT !.time = TRUE]
    /\ UNCHANGED <<phase, step, open, handler, operation, loops, probing, clock, update, asking, stateFile, asked>>

Gone ==
    /\ phase' = "down" /\ step' = 0 /\ open' = <<>>
    /\ handler' = [h \in Handlers |-> "none"] /\ operation' = [o \in Operations |-> NoOperation]
    /\ loops' = {} /\ probing' = 0 /\ asking' = FALSE /\ update' = Never
    /\ asked' = IF asking THEN <<>> ELSE asked
    /\ UNCHANGED <<ending, clock, stateFile>>

(* What was opened is closed, the last first, and the process ends.        *)
Leave ==
    /\ phase = "leaving"
    /\ IF open = <<>> THEN Gone /\ UNCHANGED processLeft
       ELSE /\ open' = SubSeq(open, 1, Len(open) - 1)
            /\ UNCHANGED <<phase, step, handler, operation, loops, probing, ending, clock, update, asking, stateFile, asked, processLeft>>

(* The second signal, or a crash.                                          *)
Killed == Up /\ SpendProcess("faults") /\ Gone

(* Time passes, or somebody sets the clock back.                           *)
Pass ==
    /\ clock < MaxClock /\ clock' = clock + 1
    /\ UNCHANGED <<phase, step, open, handler, operation, loops, probing, ending, update, asking, stateFile, asked, processLeft>>

SetBack ==
    /\ clock > 0 /\ SpendProcess("backs") /\ clock' = 0 /\ asked' = <<>>
    /\ UNCHANGED <<phase, step, open, handler, operation, loops, probing, ending, update, asking, stateFile>>

ProcessNext ==
    \/ Begin \/ StartStep \/ StartFails \/ GivesUp
    \/ \E h \in Handlers : Respond(h) \/ \E kind \in {"short", "long", "stream"} : Accept(h, kind)
    \/ \E h \in Handlers, o \in Operations : LaunchDeploy(h, o)
    \/ \E o \in Operations : OperationEnds(o) \/ AskHostname(o)
    \/ Probe \/ ProbeAnswers \/ \E l \in Loops : LoopEnds(l)
    \/ Ask \/ Answered
    \/ Signal \/ StopAccepting \/ HandlersDone \/ EngineDone \/ TimeOut \/ Leave \/ Killed
    \/ Pass \/ SetBack

(* Everything that can happen to the process, without fairness.            *)
ProcessSpec == ProcessInit /\ [][ProcessNext]_processVars

-----------------------------------------------------------------------------
(* Properties.                                                             *)

(* What is opened first is closed last: while a handler, an operation, a   *)
(* loop or a probe of this process lives, the database, Docker and the     *)
(* webhook are open, from the first one on that could use them: through a  *)
(* start that fails before Recover and through every shutdown (run: "and   *)
(* only then (deferred) close Docker and the database").  Two ends are     *)
(* excepted, where the code closes them under what still runs: a shutdown  *)
(* whose time ran out, and a process that gives up (GivesUp).              *)
ClosedLast ==
    Up /\ ~ending.time /\ ~ending.gaveUp /\ (Working # {} \/ Running # {} \/ loops # {} \/ probing > 0)
        => {open[i] : i \in DOMAIN open} = Opens

(* Questions for a newer release are a day apart, restarts or not: only a  *)
(* process cut off while its question was on its way, or a clock set back, *)
(* makes the agent ask sooner (checkForUpdate; "a restart, or a row of     *)
(* them, asks nothing").                                                   *)
AskedOncePerDay == Len(asked) = 2 => asked[2] >= asked[1] + Day

(* The order of a process's life: what is used is open, and what was       *)
(* asked today is not asked again (run, checkForUpdate).                   *)
ProcessOrder == ClosedLast /\ AskedOncePerDay
=============================================================================
