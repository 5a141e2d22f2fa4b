----------------------------- MODULE CertStatus -----------------------------
(***************************************************************************)
(* What the agent says about the certificate of one hostname               *)
(* (agent/internal/deploy/certstatus.go, certfailures.go).  One loop looks *)
(* at the certificate the proxy presents, another follows what the proxy   *)
(* logs about failures; both write the same state.  Caddy's log and the    *)
(* certificates it obtains are external.                                   *)
(* A certificate is a number, its remaining life a stage.                  *)
(***************************************************************************)
EXTENDS Integers, Sequences, SequencesExt

CONSTANTS
    CertReasons,     \* what an authority may answer
    Minute,          \* a line inherits the challenge of the one before it this long
    CertBudgets      \* scenarios: how often each event may happen

Stages == <<"long", "expiring", "urgent">>

VARIABLES
    certLeft,
    certNow,         \* the clock of the log
    presented,       \* the proxy's certificate: [number, stage], number 0 is none
    gated,           \* the hostname waits for DNS
    askable,         \* the proxy can be reached
    proxyLog,        \* the failures Caddy logged: [at, reason, bare]
    stream,          \* the follower: [open, next, last]
    certState,           \* certState
    probed,          \* a look under way: [phase, number, stage]
    told,            \* the events recorded, latest last
    good             \* history: the newest certificate that was seen with a long life

certVars == <<certLeft, certNow, presented, gated, askable, proxyLog, stream, certState, probed, told, good>>
worldVars == <<presented, gated, askable, proxyLog>>

CertSpends(what) == certLeft[what] > 0 /\ certLeft' = [certLeft EXCEPT ![what] = @ - 1]
NoFailure == [at |-> -1, reason |-> "", bare |-> FALSE]
NotLooking == [phase |-> "none", number |-> 0, stage |-> 1]

CertInit ==
    /\ certLeft \in CertBudgets /\ certNow = 0
    /\ presented = [number |-> 0, stage |-> 1] /\ gated = FALSE /\ askable = TRUE
    /\ proxyLog = <<>> /\ stream = [open |-> TRUE, next |-> 1, last |-> 0]
    /\ certState = [status |-> "", pending |-> FALSE, number |-> 0, warned |-> 0,
                failure |-> NoFailure, failureTold |-> ""]
    /\ probed = NotLooking /\ told = <<>> /\ good = 0

-----------------------------------------------------------------------------
(* External: Caddy obtains, renews and fails; time and DNS go on.          *)
(* One that is supplied may be close to its end already; what replaces a   *)
(* certificate lives longer than it.                                       *)
Obtains(stage) ==
    /\ CertSpends("issues") /\ ~gated
    /\ presented.number = 0 \/ stage <= presented.stage
    /\ presented' = [number |-> presented.number + 1, stage |-> stage]
    /\ UNCHANGED <<certNow, gated, askable, proxyLog, stream, certState, probed, told, good>>

(* A stage takes days or weeks, a look at a certificate a minute: no stage  *)
(* goes by unseen.                                                         *)
GrowsOld ==
    /\ presented.number > 0 /\ presented.stage < 3 /\ CertSpends("aging")
    /\ certState.number = presented.number /\ certState.status = Stages[presented.stage]
    /\ presented' = [presented EXCEPT !.stage = @ + 1]
    /\ UNCHANGED <<certNow, gated, askable, proxyLog, stream, certState, probed, told, good>>

FailsWith(reason, bare) ==
    /\ CertSpends("failures")
    /\ certNow' = certNow + 1
    /\ proxyLog' = Append(proxyLog, [at |-> certNow + 1, reason |-> reason, bare |-> bare])
    /\ UNCHANGED <<presented, gated, askable, stream, certState, probed, told, good>>

GateMoves ==
    /\ CertSpends("gates") /\ gated' = ~gated
    /\ UNCHANGED <<certNow, presented, askable, proxyLog, stream, certState, probed, told, good>>

ProxyLost ==
    /\ askable /\ CertSpends("outages") /\ askable' = FALSE
    /\ UNCHANGED <<certNow, presented, gated, proxyLog, stream, certState, probed, told, good>>

ProxyBack ==
    /\ ~askable /\ askable' = TRUE
    /\ UNCHANGED <<certLeft, certNow, presented, gated, proxyLog, stream, certState, probed, told, good>>

-----------------------------------------------------------------------------
(* The follower of the proxy's log.                                        *)

(* noteProxyError: a line older than the failure kept is ignored.          *)
Newer(f) == certState.failure = NoFailure \/ f.at > certState.failure.at

(* A line without the challenge inherits it from the one a moment before.  *)
Inherited(f) ==
    IF f.bare /\ certState.failure # NoFailure /\ f.at - certState.failure.at < Minute
    THEN [f EXCEPT !.reason = certState.failure.reason] ELSE f

Follows ==
    LET f == proxyLog[stream.next] IN
    /\ stream.open /\ stream.next <= Len(proxyLog)
    /\ certState' = IF Newer(f) THEN [certState EXCEPT !.failure = Inherited(f)] ELSE certState
    /\ stream' = [stream EXCEPT !.next = @ + 1, !.last = IF Newer(f) /\ f.at > @ THEN f.at ELSE @]
    /\ UNCHANGED <<certLeft, certNow, worldVars, probed, told, good>>

StreamEnds ==
    /\ stream.open /\ CertSpends("cuts")
    /\ stream' = [stream EXCEPT !.open = FALSE]
    /\ UNCHANGED <<certNow, worldVars, certState, probed, told, good>>

(* followProxyErrorsOnce, again, from the last line that was read: Docker  *)
(* repeats the lines of that moment.                                       *)
StreamReopens ==
    /\ ~stream.open
    /\ stream' = [stream EXCEPT !.open = TRUE,
            !.next = 1 + Len(SelectSeq(proxyLog, LAMBDA f : f.at < stream.last))]
    /\ UNCHANGED <<certLeft, certNow, worldVars, certState, probed, told, good>>

-----------------------------------------------------------------------------
(* checkCertificates: gated, there is nothing to ask the proxy; otherwise  *)
(* the certificate is probed without the lock and noted under it.          *)
Waits ==
    /\ probed.phase = "none" /\ gated
    /\ certState' = [certState EXCEPT !.pending = TRUE]
    /\ probed' = [NotLooking EXCEPT !.phase = "report"]
    /\ UNCHANGED <<certLeft, certNow, worldVars, stream, told, good>>

Probes ==
    /\ probed.phase = "none" /\ ~gated
    /\ probed' = IF askable THEN [phase |-> "note", number |-> presented.number, stage |-> presented.stage]
                 ELSE [NotLooking EXCEPT !.phase = "lost"]
    /\ UNCHANGED <<certLeft, certNow, worldVars, stream, certState, told, good>>

News(kind, what) == [kind |-> kind, what |-> what, number |-> probed.number]

(* Mutant: every look at a certificate that runs out is reported.          *)
WarnLevelAlways(stage) == stage - 1

(* How far the expiry is reported by this look; 0 when it was already.     *)
WarnLevel(stage) == IF stage - 1 > certState.warned THEN stage - 1 ELSE 0

(* What has been reported afterwards: nothing, once a certificate is good. *)
Warned(stage) == IF stage = 1 THEN 0 ELSE IF stage - 1 > certState.warned THEN stage - 1 ELSE certState.warned

(* noteCertificate.  A newer certificate ends what failed before it.       *)
Notes ==
    LET p == probed
        ends == certState.pending \/ p.number > certState.number
    IN /\ probed.phase \in {"note", "lost"}
       /\ probed' = [probed EXCEPT !.phase = "report"]
       /\ certState' = CASE p.phase = "lost" -> [certState EXCEPT !.status = "unknown"]
                     [] p.phase = "note" /\ p.number = 0 ->
                            [certState EXCEPT !.status = "obtaining", !.pending = TRUE, !.number = 0]
                     [] OTHER ->
                            [certState EXCEPT !.status = Stages[p.stage], !.pending = FALSE,
                                          !.number = p.number, !.warned = Warned(p.stage),
                                          !.failure = IF ends THEN NoFailure ELSE @,
                                          !.failureTold = IF ends THEN "" ELSE @]
       /\ good' = IF p.phase = "note" /\ p.number # 0 /\ p.stage = 1 THEN p.number ELSE good
       /\ told' = IF p.phase = "lost" \/ p.number = 0 THEN told
                  ELSE told \o (IF certState.pending THEN <<News("obtained", "")>> ELSE <<>>)
                            \o (IF WarnLevel(p.stage) > 0 THEN <<News("expiring", Stages[p.stage])>> ELSE <<>>)
       /\ UNCHANGED <<certLeft, certNow, worldVars, stream>>

IsTold(reason) == certState.failureTold = reason

(* reportCertificateFailures: once per reason.                             *)
Reports ==
    LET f == certState.failure IN
    /\ probed.phase = "report"
    /\ probed' = NotLooking
    /\ certState' = IF f = NoFailure THEN certState ELSE [certState EXCEPT !.failureTold = f.reason]
    /\ told' = IF f = NoFailure \/ IsTold(f.reason) THEN told
               ELSE Append(told, [kind |-> "failed", what |-> f.reason, number |-> certState.number])
    /\ UNCHANGED <<certLeft, certNow, worldVars, stream, good>>

CertNext ==
    \/ (\E stage \in 1..3 : Obtains(stage)) \/ GrowsOld \/ GateMoves \/ ProxyLost \/ ProxyBack
    \/ \E r \in CertReasons, bare \in BOOLEAN : FailsWith(r, bare)
    \/ Follows \/ StreamEnds \/ StreamReopens
    \/ Waits \/ Probes \/ Notes \/ Reports

(* Everything that can happen to a certificate, without fairness.          *)
CertSpec == CertInit /\ [][CertNext]_certVars

-----------------------------------------------------------------------------
(* The same event in between of which the hostname was told otherwise: that *)
(* a certificate was obtained, or that it failed for another reason.        *)
ToldOtherwise(i, j) ==
    \E k \in (i + 1)..(j - 1) :
        told[k].kind = "obtained" \/ (told[k].kind = "failed" /\ told[k].what # told[i].what)

(* The events of a hostname tell something new each time.  A level of the  *)
(* expiry is told once about a certificate; a failure is told again about  *)
(* the same certificate only after another reason, or after the            *)
(* certificate was obtained, whatever the two loops, a repeated line of    *)
(* the log, the DNS gate and an unreachable proxy do in between            *)
(* (noteProxyError, noteCertificate, reportCertificateFailures).           *)
OnlyNews ==
    \A i, j \in DOMAIN told :
        i < j /\ told[i] = told[j] /\ told[i].kind # "obtained" =>
            told[i].kind = "failed" /\ ToldOtherwise(i, j)

(* The loop goes on.                                                       *)
CheckSteps == Waits \/ Probes \/ Notes \/ Reports

(* A certificate that is about to end is reported as urgent, or one before *)
(* it was and no certificate with a long life was seen since: the operator *)
(* hears of it while there is time, whatever was reported of an earlier    *)
(* certificate before (noteCertificate).                                   *)
ExpiryIsTold ==
    [](presented.stage = 3 /\ ~gated /\ askable =>
        <>(presented.stage # 3 \/ gated \/ ~askable
           \/ \E i \in DOMAIN told : /\ told[i].kind = "expiring" /\ told[i].what = "urgent"
                                     /\ told[i].number >= good))
=============================================================================
