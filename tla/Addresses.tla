----------------------------- MODULE Addresses -----------------------------
(***************************************************************************)
(* Addresses on the services network.  Docker gives the address of a       *)
(* container that is gone to the next one that asks, and the proxy goes on *)
(* using what it learned about a name for a while.  Two programs keep a    *)
(* request for one application from a container of another: the agent lets *)
(* an address rest (agent/internal/docker/rest.go, and the operations of   *)
(* runtime.go that take or give up an address), and the proxy's table of   *)
(* names (caddy/table.go) forgets what the agent tells it to.              *)
(* The requests, the name and the lookups are those of application "a".    *)
(* A DNS answer and a timer arrive within the unit of the clock, or never; *)
(* Rest is Keep + Dial, as in the code, and nothing less would do.         *)
(***************************************************************************)
EXTENDS Integers, FiniteSets, FiniteSetsExt

CONSTANTS
    Refresh, Wait, Keep,     \* settings of the table
    Dial,                    \* the proxy's dial timeout
    Rest, ForgottenRest,     \* AddressRest, ForgottenRest
    RestAttempts,            \* restAttempts
    LastTick,                 \* bound of the clock
    AddressBudgets           \* scenarios: how often each event may happen

VARIABLES
    time, chances,
    box,        \* the containers: [app, running, names, addr, finished]
    op,         \* what the agent does to each: [kind, phase, at, attempt, was]
    began, released, resting, confirmed,     \* addressRest
    nameTable,      \* the entry of the name: [addrs, answered, asked, failing, dropped]
    lookup,     \* the lookup in flight: [phase, dropped, answer, n]
    request,    \* a request: [phase, kept, dropped, until, on, addrs, at]
    unasked,    \* history: who holds an address nobody asked about since it was taken
    strangers   \* history: another application's container answered, though it was asked about

agentVars == <<op, began, released, resting, confirmed>>
proxyVars == <<nameTable, lookup, request>>
addressVars == <<time, chances, box, agentVars, proxyVars, unasked, strangers>>

LongAgo == -100
Boxes == {"a1", "b1"}
BothApps == {"a", "b"}
AddressSet == {1, 2}
Costs(what) == chances[what] > 0 /\ chances' = [chances EXCEPT ![what] = @ - 1]

NoOp == [kind |-> "none", phase |-> "none", at |-> 0, attempt |-> 0, was |-> FALSE]
NoLookup == [phase |-> "none", dropped |-> 0, answer |-> {}]
NoRequest == [phase |-> "none", kept |-> {}, dropped |-> 0, until |-> LongAgo, addrs |-> {}, at |-> 0]

AddressInit ==
    /\ time = 0 /\ chances \in AddressBudgets
    /\ box = [c \in Boxes |-> IF c = "a1"
                THEN [app |-> "a", running |-> TRUE, names |-> TRUE, addr |-> 1, finished |-> LongAgo]
                ELSE [app |-> "b", running |-> FALSE, names |-> FALSE, addr |-> 0, finished |-> LongAgo]]
    /\ op = [c \in Boxes |-> NoOp]
    /\ began = LongAgo /\ released = [p \in BothApps |-> LongAgo] /\ resting = {}
    /\ confirmed = [c \in Boxes |-> LongAgo]
    /\ nameTable = [addrs |-> {1}, answered |-> 0, asked |-> 0, failing |-> FALSE, dropped |-> 0]
    /\ lookup = NoLookup /\ request = NoRequest /\ unasked = {} /\ strangers = FALSE

-----------------------------------------------------------------------------
(* The agent: addressRest.                                                 *)

(* exitedByApp: when each application's containers last stopped, without   *)
(* the ones the proxy has confirmed it forgot.                             *)
Exited(app) ==
    Max({LongAgo} \cup {box[c].finished : c \in {d \in Boxes :
            /\ box[d].app = app /\ ~box[d].running
            /\ ~(confirmed[d] # LongAgo /\ box[d].finished <= confirmed[d])}})

(* restsUntil *)
RestsUntil(app) ==
    Max({began + Rest} \cup {r.until : r \in {s \in resting : s.app # app}}
                       \cup {Exited(p) + Rest : p \in BothApps \ {app}})

(* Mutant: what other containers gave up meanwhile is not asked about.     *)
TookDuringNever(app, t) == FALSE

(* tookDuring: somebody else gave up an address at or after t.             *)
TookDuring(app, t) ==
    \/ Max({began} \cup {released[p] : p \in BothApps \ {app}} \cup {Exited(p) : p \in BothApps \ {app}}) >= t
    \/ \E r \in resting : r.app # app /\ r.at >= t /\ r.until > time

(* release: the address rests in full from now, unless the container was   *)
(* stopped by this process and forgotten by the proxy since.               *)
NothingLeft(c, was) == ~was /\ confirmed[c] # LongAgo /\ box[c].finished # LongAgo /\ box[c].finished <= confirmed[c]

Release(c, was) ==
    IF NothingLeft(c, was) THEN UNCHANGED <<released, resting>>
    ELSE /\ released' = [released EXCEPT ![box[c].app] = time]
         /\ resting' = {r \in resting : r.until > time}
                         \cup {[app |-> box[c].app, told |-> was, at |-> time, until |-> time + Rest]}

ShortRest(r) == IF time + ForgottenRest < r.until THEN time + ForgottenRest ELSE r.until

(* The second half of release: the proxy confirmed.                        *)
Confirm(c, at, names) ==
    LET mine == {r \in resting : r.app = box[c].app /\ r.told /\ r.at = at} IN
    /\ resting' = (resting \ mine) \cup {[r EXCEPT !.until = IF names THEN ShortRest(r) ELSE time] : r \in mine}
    /\ released' = [released EXCEPT ![box[c].app] = IF @ = at THEN LongAgo ELSE @]
    /\ confirmed' = [confirmed EXCEPT ![c] = time]

-----------------------------------------------------------------------------
(* StopContainer: the holder is looked at, Docker stops it, and its        *)
(* address is released; for one that ran, the proxy is told.               *)
AtRest(c) == op[c].phase = "none"

StopBegins(c) ==
    /\ AtRest(c) /\ box[c].running /\ Costs("stops")
    /\ op' = [op EXCEPT ![c] = [NoOp EXCEPT !.kind = "stop", !.phase = "stop", !.was = box[c].running]]
    /\ UNCHANGED <<time, box, began, released, resting, confirmed, proxyVars, unasked, strangers>>

Off(b, t) == [b EXCEPT !.running = FALSE, !.addr = 0, !.finished = IF b.running THEN t ELSE @]

DockerStops(c) ==
    /\ op[c].phase = "stop"
    /\ box' = [box EXCEPT ![c] = Off(@, time)]
    /\ op' = [op EXCEPT ![c].phase = "release"]
    /\ unasked' = unasked \ {c}
    /\ UNCHANGED <<time, chances, began, released, resting, confirmed, proxyVars, strangers>>

(* A stop ends with the release; a container that left takes an address.   *)
Forgotten(o) == IF o.kind = "stop" THEN NoOp ELSE [o EXCEPT !.phase = "wait"]

Releasing(c) ==
    /\ Release(c, op[c].was)
    /\ op' = [op EXCEPT ![c] = IF @.was THEN [@ EXCEPT !.phase = "forget", !.at = time] ELSE Forgotten(@)]

StopReleases(c) ==
    /\ op[c].phase = "release"
    /\ Releasing(c)
    /\ UNCHANGED <<time, chances, box, began, confirmed, proxyVars, unasked, strangers>>

(* table.drop *)
Dropped(t) == [t EXCEPT !.addrs = {}, !.answered = LongAgo, !.asked = LongAgo, !.dropped = @ + 1]

(* Forget: the proxy is not reached, or drops the name and its answer is   *)
(* lost, or it is heard.  Only a container that carried the name has one.  *)
Forgets(c, reached) ==
    /\ op[c].phase = "forget"
    /\ nameTable' = IF reached /\ box[c].names /\ box[c].app = "a" THEN Dropped(nameTable) ELSE nameTable
    /\ op' = [op EXCEPT ![c] = IF reached THEN [@ EXCEPT !.phase = "confirm"] ELSE Forgotten(@)]
    /\ UNCHANGED <<time, chances, box, began, released, resting, confirmed, lookup, request, unasked, strangers>>

Confirms(c, heard) ==
    /\ op[c].phase = "confirm"
    /\ IF heard THEN Confirm(c, op[c].at, box[c].names) ELSE UNCHANGED <<released, resting, confirmed>>
    /\ op' = [op EXCEPT ![c] = Forgotten(@)]
    /\ UNCHANGED <<time, chances, box, began, proxyVars, unasked, strangers>>

(* startNameless: a container that stopped with its names loses them first *)
(* (which releases the address it had), and is started then.               *)
StartBegins(c) ==
    /\ AtRest(c) /\ ~box[c].running /\ Costs("starts")
    /\ op' = [op EXCEPT ![c] = IF box[c].names
                THEN [NoOp EXCEPT !.kind = "clear", !.phase = "leave", !.attempt = 1]
                ELSE [NoOp EXCEPT !.kind = "start", !.phase = "wait"]]
    /\ UNCHANGED <<time, box, began, released, resting, confirmed, proxyVars, unasked, strangers>>

(* SetServiceNames of a container that is ready.                           *)
NamesBegin(c) ==
    /\ AtRest(c) /\ box[c].running /\ ~box[c].names /\ Costs("renames")
    /\ op' = [op EXCEPT ![c] = [NoOp EXCEPT !.kind = "names", !.phase = "leave", !.attempt = 1, !.was = TRUE]]
    /\ UNCHANGED <<time, box, began, released, resting, confirmed, proxyVars, unasked, strangers>>

(* addressRest.wait *)
Rested(c) == RestsUntil(box[c].app) <= time

Waits(c) ==
    /\ op[c].phase = "wait" /\ Rested(c)
    /\ op' = [op EXCEPT ![c].phase = "take", ![c].at = time]
    /\ UNCHANGED <<time, chances, box, began, released, resting, confirmed, proxyVars, unasked, strangers>>

(* Docker does not say who exited: the container is left as it is.         *)
WaitsInVain(c) ==
    /\ op[c].phase = "wait" /\ Costs("mute")
    /\ op' = [op EXCEPT ![c] = NoOp]
    /\ UNCHANGED <<time, box, began, released, resting, confirmed, proxyVars, unasked, strangers>>

FreeAddresses == AddressSet \ {box[d].addr : d \in Boxes}

(* Starting, or joining the network again with other names: a container    *)
(* that does not run takes no address by joining.                          *)
Takes(c, x) ==
    LET runs == op[c].kind = "start" \/ box[c].running
    IN /\ op[c].phase = "take" /\ IF runs THEN x \in FreeAddresses ELSE x = 0
       /\ box' = [box EXCEPT ![c].running = runs, ![c].addr = x, ![c].names = op[c].kind = "names"]
       /\ op' = [op EXCEPT ![c].phase = "check"]
       /\ unasked' = IF runs THEN unasked \cup {c} ELSE unasked
       /\ UNCHANGED <<time, chances, began, released, resting, confirmed, proxyVars, strangers>>

(* An address somebody else gave up meanwhile is given back, a bounded     *)
(* number of times; when Docker cannot be asked who did, it is kept.  A    *)
(* container that was only renamed is started now.                         *)
WillAsk(c) == op[c].kind = "start" \/ op[c].attempt < RestAttempts

Checks(c, heard) ==
    LET took == TookDuring(box[c].app, op[c].at)
        again == WillAsk(c) /\ heard /\ took
    IN /\ op[c].phase = "check"
       /\ IF heard THEN UNCHANGED chances ELSE WillAsk(c) /\ Costs("mute")
       /\ op' = [op EXCEPT ![c] =
            CASE again /\ @.kind # "start" -> [@ EXCEPT !.phase = "leave", !.attempt = @ + 1]
              [] again /\ @.kind = "start" /\ box[c].running ->
                    [NoOp EXCEPT !.kind = "names", !.phase = "leave", !.attempt = 1, !.was = TRUE]
              [] ~again /\ @.kind = "clear" -> [NoOp EXCEPT !.kind = "start", !.phase = "wait"]
              [] OTHER -> NoOp]
       /\ unasked' = IF WillAsk(c) /\ heard /\ ~took THEN unasked \ {c} ELSE unasked
       /\ UNCHANGED <<time, box, began, released, resting, confirmed, proxyVars, strangers>>

(* leaveServices: the release is recorded before anybody who takes the     *)
(* address next has it and has asked, which takes two calls to Docker.     *)
Leaves(c) ==
    /\ op[c].phase = "leave"
    /\ box' = [box EXCEPT ![c].addr = 0]
    /\ Releasing(c)
    /\ unasked' = unasked \ {c}
    /\ UNCHANGED <<time, chances, began, confirmed, proxyVars, strangers>>

(* A container exits by itself.                                            *)
Dies(c) ==
    /\ box[c].running /\ Costs("deaths")
    /\ box' = [box EXCEPT ![c] = Off(@, time)]
    /\ unasked' = unasked \ {c}
    /\ UNCHANGED <<time, agentVars, proxyVars, strangers>>

(* The agent ends anywhere and starts again; what Docker was asked to stop *)
(* is stopped, or was not yet.                                             *)
AgentRestarts ==
    /\ Costs("restarts")
    /\ began' = time /\ released' = [p \in BothApps |-> LongAgo] /\ resting' = {}
    /\ confirmed' = [c \in Boxes |-> LongAgo]
    /\ \E stopped \in SUBSET {c \in Boxes : op[c].phase = "stop"} :
          /\ box' = [c \in Boxes |-> IF c \in stopped THEN Off(box[c], time) ELSE box[c]]
          /\ unasked' = unasked \ stopped
    /\ op' = [c \in Boxes |-> NoOp]
    /\ UNCHANGED <<time, proxyVars, strangers>>

-----------------------------------------------------------------------------
(* The proxy: addresses, lookup.                                           *)

Kept == IF time - nameTable.answered < Keep THEN nameTable.addrs ELSE {}
Flying == lookup.phase # "none"

Hands(addrs) ==
    request' = IF addrs = {} THEN NoRequest
               ELSE [NoRequest EXCEPT !.phase = "dialling", !.addrs = addrs, !.at = time]

(* addresses, up to the first wait.                                        *)
RequestAsks ==
    LET fresh == ~nameTable.failing /\ time - nameTable.answered < Refresh
        asks == ~Flying /\ time - nameTable.asked >= Refresh
        asked == IF asks THEN time ELSE nameTable.asked
        patience == Wait - (time - asked)
    IN /\ request.phase = "none" /\ Costs("requests")
       /\ IF fresh THEN Hands(nameTable.addrs) /\ UNCHANGED <<nameTable, lookup>>
          ELSE /\ nameTable' = [nameTable EXCEPT !.asked = asked]
               /\ lookup' = IF asks THEN [NoLookup EXCEPT !.phase = "ask"] ELSE lookup
               /\ IF ~(Flying \/ asks) \/ (Kept # {} /\ (nameTable.failing \/ patience <= 0))
                  THEN Hands(Kept)
                  ELSE request' = [NoRequest EXCEPT !.phase = "waiting", !.kept = Kept, !.dropped = nameTable.dropped,
                                       !.until = IF Kept = {} THEN LongAgo ELSE time + patience]
       /\ UNCHANGED <<time, box, agentVars, unasked, strangers>>

Current == request.dropped = nameTable.dropped

(* Out of patience: the last answer, unless it was dropped meanwhile.      *)
Due == request.phase = "waiting" /\ request.until # LongAgo /\ time >= request.until

FallsBack ==
    /\ Due /\ Flying
    /\ IF Current THEN Hands(request.kept) ELSE request' = [request EXCEPT !.until = LongAgo]
    /\ UNCHANGED <<time, chances, box, agentVars, nameTable, lookup, unasked, strangers>>

(* The lookup it waited for has ended.                                     *)
Hears ==
    /\ request.phase = "waiting" /\ ~Flying
    /\ Hands(IF nameTable.failing THEN Kept ELSE nameTable.addrs)
    /\ UNCHANGED <<time, chances, box, agentVars, nameTable, lookup, unasked, strangers>>

LookupAsks ==
    /\ lookup.phase = "ask"
    /\ lookup' = [lookup EXCEPT !.phase = "out", !.dropped = nameTable.dropped]
    /\ UNCHANGED <<time, chances, box, agentVars, nameTable, request, unasked, strangers>>

(* Docker's DNS: who runs, is on the network and carries the name.         *)
Carriers == {box[c].addr : c \in {d \in Boxes : box[d].running /\ box[d].names /\ box[d].app = "a"}} \ {0}

LookupAnswered ==
    /\ lookup.phase = "out"
    /\ lookup' = [lookup EXCEPT !.phase = "answered", !.answer = Carriers]
    /\ UNCHANGED <<time, chances, box, agentVars, nameTable, request, unasked, strangers>>

LookupUnanswered ==
    /\ lookup.phase = "out" /\ Costs("silences")
    /\ lookup' = [lookup EXCEPT !.phase = "failed"]
    /\ UNCHANGED <<time, box, agentVars, nameTable, request, unasked, strangers>>

Believed == lookup.dropped = nameTable.dropped

LookupEnds ==
    /\ lookup.phase \in {"answered", "failed"}
    /\ IF ~Believed
       THEN nameTable' = [nameTable EXCEPT !.asked = time] /\ lookup' = [NoLookup EXCEPT !.phase = "ask"]
       ELSE /\ lookup' = NoLookup
            /\ nameTable' = IF lookup.phase = "failed" THEN [nameTable EXCEPT !.failing = TRUE]
                        ELSE [nameTable EXCEPT !.addrs = lookup.answer, !.answered = time, !.failing = FALSE]
    /\ UNCHANGED <<time, chances, box, agentVars, request, unasked, strangers>>

(* The connection is made while the proxy tries, and whoever holds the     *)
(* address answers.                                                        *)
Connects(x) ==
    /\ request.phase = "dialling" /\ x \in request.addrs /\ time - request.at < Dial
    /\ strangers' = (strangers \/ \E c \in Boxes \ unasked : box[c].app # "a" /\ box[c].addr = x)
    /\ request' = NoRequest
    /\ UNCHANGED <<time, chances, box, agentVars, nameTable, lookup, unasked>>

DialFails ==
    /\ request.phase = "dialling" /\ time - request.at >= Dial
    /\ request' = NoRequest
    /\ UNCHANGED <<time, chances, box, agentVars, nameTable, lookup, unasked, strangers>>

(* What takes no time is done before the clock goes on: a stop, a start,   *)
(* the proxy's and the DNS's answers, a rest and a connection take some.   *)
Ticks ==
    /\ time < LastTick /\ time' = time + 1
    /\ lookup.phase \notin {"ask", "answered", "failed"} /\ ~Due
    /\ ~(request.phase = "waiting" /\ ~Flying)
    /\ \A c \in Boxes : op[c].phase \notin {"release", "check", "leave"}
    /\ ~(request.phase = "dialling" /\ time - request.at >= Dial)
    /\ UNCHANGED <<chances, box, agentVars, proxyVars, unasked, strangers>>

AddressNext ==
    \/ \E c \in Boxes : StopBegins(c) \/ DockerStops(c) \/ StopReleases(c) \/ StartBegins(c)
            \/ NamesBegin(c) \/ Waits(c) \/ WaitsInVain(c) \/ Leaves(c) \/ Dies(c)
    \/ \E c \in Boxes, said \in BOOLEAN : Forgets(c, said) \/ Confirms(c, said) \/ Checks(c, said)
    \/ \E c \in Boxes, x \in AddressSet \cup {0} : Takes(c, x)
    \/ \E x \in AddressSet : Connects(x)
    \/ RequestAsks \/ FallsBack \/ Hears \/ LookupAsks \/ LookupAnswered \/ LookupUnanswered \/ LookupEnds
    \/ DialFails \/ AgentRestarts \/ Ticks

-----------------------------------------------------------------------------
(* No request for one application is answered by a container of another,   *)
(* once the agent has asked whether the address it took was given up       *)
(* meanwhile: stopped by the agent or by itself, while a lookup is out,    *)
(* while the DNS is silent (addressRest, tookDuring, table.addresses,      *)
(* table.drop).  Between joining and that question it may be, and after an *)
(* agent that ended there or a Docker that did not say, which the code     *)
(* accepts ("the address was taken after a full rest").                    *)
NoStranger == ~strangers
=============================================================================
