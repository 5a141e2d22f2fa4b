------------------------------ MODULE Transfer ------------------------------
(***************************************************************************)
(* A standby (deploy/import.go, standby.go and promotion.go).  The server  *)
(* it stands by for publishes exports (ExportFeed); the standby imports    *)
(* them with every application left stopped, and a promotion starts what   *)
(* was imported.  An uploaded export is imported by the same code, with    *)
(* the options of the request.                                             *)
(*                                                                         *)
(* The id of an entry stands for its configuration and for the data of its *)
(* volumes; `key' says that the configuration uses a key the standby's     *)
(* agent does not know.  Every application has a volume, which is the case *)
(* that can lose something.                                                *)
(***************************************************************************)
EXTENDS ExportFeed, Integers, SequencesExt, FiniteSets

CONSTANTS Applications,     \* the applications, in the order of an export
          MaxImports,       \* bound: uploads and fetches of an export
          MaxPromotions,    \* bound: promotions asked for
          MaxUpsets,        \* bound: ends of the standby's agent, calls that
                            \* fail, and starts and stops by hand
          StopsInCommit     \* the agent may end between the commit of a
                            \* deployment and the note that it stays stopped

ASSUME TransferAssumption ==
    /\ Applications \in Seq(STRING) /\ Len(Applications) > 0
    /\ \A i, j \in DOMAIN Applications : i # j => Applications[i] # Applications[j]
    /\ Contents \subseteq [requires : BOOLEAN,
                           read : [DOMAIN Applications -> [id : Nat \ {0}, key : BOOLEAN, stopped : BOOLEAN]]]
    /\ StopsInCommit \in BOOLEAN
    /\ {MaxImports, MaxPromotions, MaxUpsets} \subseteq Nat

App == Range(Applications)

VARIABLES
    up,         \* the standby's agent runs
    app,        \* the standby: each application, as store and Docker have it
    roll,       \* the standby: each application's deployment in flight
    lock,       \* the standby: who holds each application's lock
    order,      \* the standby: the applications by the id of their deployment
    secrets,    \* the standby: the export its secrets come from; 0: its own
    imp,        \* transfer.importing and the import that runs, in memory
    impRec,     \* the import's record in the store
    promo,      \* transfer.promoting and the application it is at, in memory
    promoRec,   \* the promotion's record in the store
    pull,       \* the record of the last fetch
    asked,      \* history: applications somebody asked to be started since they were imported
    blind,      \* history: applications started although they had no container,
                \* and not imported since
    used        \* how much of each bound is spent

importVars == <<imp, impRec, pull, secrets>>
promoVars == <<promo, promoRec>>
standbyVars == <<up, app, roll, lock, order, asked, blind>>
transferVars == <<feedVars, importVars, promoVars, standbyVars, used>>

Budget == [imports |-> MaxImports, promotions |-> MaxPromotions, upsets |-> MaxUpsets]
Spend(what) == used[what] < Budget[what] /\ used' = [used EXCEPT ![what] = @ + 1]

(* A call that can fail either works, or uses up one of the upsets.        *)
Goes(ok) == IF ok THEN UNCHANGED used ELSE Spend("upsets")

NotImporting == [on |-> FALSE]
NotPromoting == [on |-> FALSE]
NoRoll == [at |-> "none"]
Half == -1      \* a volume that was emptied and not filled

(* An application the standby does not know.                               *)
Unknown == [dep |-> 0, key |-> FALSE, kind |-> "none", desired |-> "stopped", box |-> "none", vol |-> 0]

TransferInit ==
    /\ FeedInit
    /\ up = TRUE /\ app = [a \in App |-> Unknown] /\ roll = [a \in App |-> NoRoll]
    /\ lock = [a \in App |-> "free"] /\ order = <<>> /\ asked = {} /\ blind = {}
    /\ imp = NotImporting /\ impRec = [status |-> "none", fetched |-> FALSE, apps |-> [a \in App |-> "none"]]
    /\ promo = NotPromoting /\ promoRec = [status |-> "none", apps |-> [a \in App |-> "none"]]
    /\ pull = [last |-> 0, error |-> FALSE] /\ secrets = 0
    /\ used = [what \in DOMAIN Budget |-> 0]

---------------------------------------------------------------------------
(* The standby: imports.                                                   *)

(* Mutant: an import does not ask whether a promotion runs.                *)
MayImportAnyway == ~imp.on

(* beginImport's conditions, under the transfer's mutex.                   *)
MayImport == ~imp.on /\ ~promo.on

BeginImport(n, fetched, stopped, overwrite) ==
    /\ imp' = [on |-> TRUE, at |-> "manifest", n |-> n, fetched |-> fetched, stopped |-> stopped,
               overwrite |-> overwrite, next |-> 1]
    /\ impRec' = [status |-> "running", fetched |-> fetched, apps |-> [a \in App |-> "none"]]

(* handleImport: a file with any export the source wrote, and any options. *)
Upload ==
    /\ up /\ Spend("imports") /\ MayImport
    /\ \E n \in DOMAIN bucket, stopped, overwrite \in BOOLEAN : BeginImport(n, FALSE, stopped, overwrite)
    /\ UNCHANGED <<feedVars, promoVars, standbyVars, pull, secrets>>

Seen == pull.last = Len(bucket) /\ ~pull.error

(* scheduleTransfers: a scheduled fetch that is refused because an import  *)
(* runs is noted as failed; one refused because the server is being        *)
(* promoted is not.                                                        *)
RefusedPull(onlyNew) == IF onlyNew /\ imp.on THEN [pull EXCEPT !.error = TRUE] ELSE pull

(* pullStandby on its schedule (onlyNew) and on request.                   *)
Pull(onlyNew) ==
    /\ up /\ Spend("imports") /\ bucket # <<>>
    /\ ~(onlyNew /\ Seen)
    /\ IF MayImport
       THEN BeginImport(Len(bucket), TRUE, TRUE, TRUE) /\ UNCHANGED pull
       ELSE /\ pull' = RefusedPull(onlyNew)
            /\ UNCHANGED <<imp, impRec>>
    /\ UNCHANGED <<feedVars, promoVars, standbyVars, secrets>>

Active(a) == app[a].dep # 0
Runs(a) == Active(a) /\ app[a].desired = "running"

(* importRun.promoted: this server runs an application of the export.      *)
Promoted == imp.stopped /\ \E a \in App : Runs(a)

(* serverSecrets: what exists is kept unless the import overwrites and     *)
(* the server has not taken over.                                          *)
StoredSecrets == IF (imp.overwrite /\ ~Promoted) \/ secrets = 0 THEN imp.n ELSE secrets

(* The record when the import ends with what went wrong, or nothing.       *)
Ended(rec, ok) ==
    [status |-> IF ok /\ \A a \in App : rec.apps[a] # "failed" THEN "succeeded" ELSE "failed",
     fetched |-> rec.fetched,
     apps |-> [a \in App |-> IF rec.apps[a] \in {"pending", "running"} THEN "failed" ELSE rec.apps[a]]]

(* notePull: what a fetch came to, for the next one.                       *)
NotePull(rec) == IF ~imp.fetched THEN pull ELSE [last |-> imp.n, error |-> rec.status = "failed"]

(* importRun.run's end, the record and the note together.                  *)
EndImport(rec) ==
    /\ imp' = NotImporting /\ impRec' = rec /\ pull' = NotePull(rec)

(* unknownKeys.                                                            *)
Refused == bucket[imp.n].requires

(* An export that is to be fetched may have been removed meanwhile.        *)
Gone == imp.fetched /\ imp.n \in removed

(* read, up to the first application: an export that needs what this agent *)
(* does not know, or cannot be read, is refused before anything is taken.  *)
ReadManifest(ok) ==
    /\ up /\ imp.on /\ imp.at = "manifest" /\ IF Gone THEN ~ok /\ UNCHANGED used ELSE Goes(ok)
    /\ IF ~ok \/ Refused
       THEN EndImport(Ended(impRec, FALSE)) /\ UNCHANGED secrets
       ELSE /\ impRec' = [impRec EXCEPT !.apps = [a \in App |-> "pending"]]
            /\ secrets' = StoredSecrets
            /\ imp' = [imp EXCEPT !.at = "next"] /\ UNCHANGED pull
    /\ UNCHANGED <<feedVars, promoVars, standbyVars>>

Current == Applications[imp.next]
InRecord(a, status) == impRec' = [impRec EXCEPT !.apps[a] = status]
Goto(at) == imp' = [imp EXCEPT !.at = at]
Done(a, status) == InRecord(a, status) /\ imp' = [imp EXCEPT !.at = "next", !.next = @ + 1]

(* replaceable: a name without an active deployment, or one the import may *)
(* overwrite; a stopped import leaves alone what runs.                     *)
Replaceable(a) == ~Active(a) \/ (imp.overwrite /\ ~(imp.stopped /\ Runs(a)))

(* The loop of read: the next app.json, checkImported and mayReplace, asked*)
(* before anything is read; loading the image may fail.                    *)
NextApplication(ok) ==
    /\ up /\ imp.on /\ imp.at = "next" /\ imp.next <= Len(Applications)
    /\ IF ~Replaceable(Current)
       THEN ok /\ Done(Current, "skipped") /\ UNCHANGED used
       ELSE /\ Goes(ok)
            /\ IF ok THEN Goto("resolve") /\ InRecord(Current, "running") ELSE Done(Current, "failed")
    /\ UNCHANGED <<feedVars, promoVars, standbyVars, pull, secrets>>

(* start's resolve under the lock: asked again, then clear.  The stop is   *)
(* recorded first; a name that has a volume left is refused unless the     *)
(* import overwrites; the image is pulled before anything goes.            *)
Resolve(ok) ==
    /\ up /\ imp.on /\ imp.at = "resolve"
    /\ LET a == Current
           skip == lock[a] = "free" /\ ~Replaceable(a)
           fail == lock[a] # "free" \/ (~imp.overwrite /\ app[a].vol # 0)
       IN IF skip \/ fail
          THEN /\ ok /\ Done(a, IF skip THEN "skipped" ELSE "failed")
               /\ UNCHANGED <<standbyVars, used>>
          ELSE /\ Goes(ok)
               /\ IF ok THEN /\ Goto("clear") /\ UNCHANGED impRec
                             /\ lock' = [lock EXCEPT ![a] = "import"]
                             /\ app' = [app EXCEPT ![a].desired = "stopped"]
                        ELSE Done(a, "failed") /\ UNCHANGED <<lock, app>>
               /\ UNCHANGED <<up, roll, order, asked, blind>>
    /\ UNCHANGED <<feedVars, promoVars, pull, secrets>>

ReleasedFrom(a) == lock' = [lock EXCEPT ![a] = "free"]

(* clear and RemoveVolume: the containers are stopped and go, then the     *)
(* volume, emptied and not yet filled.  It may fail before, between and    *)
(* after that.                                                             *)
Cleared(a) == {[app[a] EXCEPT !.box = "none", !.vol = Half]}
ClearedInPart(a) ==
    Cleared(a) \union {app[a], [app[a] EXCEPT !.box = "none"], [app[a] EXCEPT !.box = IF @ = "none" THEN @ ELSE "created"]}

Clear(ok) ==
    /\ up /\ imp.on /\ imp.at = "clear" /\ Goes(ok)
    /\ LET a == Current
       IN /\ \E left \in IF ok THEN Cleared(a) ELSE ClearedInPart(a) : app' = [app EXCEPT ![a] = left]
          /\ IF ok THEN Goto("fill") /\ UNCHANGED <<lock, impRec>>
                   ELSE Done(a, "failed") /\ ReleasedFrom(a)
    /\ UNCHANGED <<feedVars, promoVars, up, roll, order, asked, blind, pull, secrets>>

Filled(a, v) == [app EXCEPT ![a].vol = v]

(* restoreVolumes' archive through a container that is never started, then *)
(* the deployment's record and the mark that it is dormant.                *)
FillAndCreate(ok) ==
    /\ up /\ imp.on /\ imp.at = "fill" /\ Goes(ok)
    /\ LET a == Current
           entry == bucket[imp.n].read[imp.next]
           dormant == imp.stopped \/ entry.stopped
       IN IF ok
          THEN /\ app' = Filled(a, entry.id)
               /\ roll' = [roll EXCEPT ![a] =
                    [at |-> "created", id |-> entry.id, key |-> entry.key, dormant |-> dormant,
                     kind |-> IF imp.stopped THEN "standby" ELSE "import"]]
               /\ lock' = [lock EXCEPT ![a] = "deployment"]
               /\ asked' = IF dormant THEN asked \ {a} ELSE asked \union {a}
               /\ blind' = blind \ {a}
               /\ Goto("await") /\ UNCHANGED impRec
          ELSE /\ Done(a, "failed") /\ ReleasedFrom(a) /\ UNCHANGED <<app, roll, asked, blind>>
    /\ UNCHANGED <<feedVars, promoVars, up, order, pull, secrets>>

(* awaitDeployment and the application's outcome.                          *)
AwaitDeployment ==
    /\ up /\ imp.on /\ imp.at = "await" /\ roll[Current].at \in {"done", "failed"}
    /\ Done(Current, IF roll[Current].at = "done" THEN "imported" ELSE "failed")
    /\ roll' = [roll EXCEPT ![Current] = NoRoll]
    /\ UNCHANGED <<feedVars, promoVars, up, app, lock, order, asked, blind, pull, secrets, used>>

FinishImport ==
    /\ up /\ imp.on /\ imp.at = "next" /\ imp.next > Len(Applications)
    /\ EndImport(Ended(impRec, TRUE))
    /\ UNCHANGED <<feedVars, promoVars, standbyVars, secrets, used>>

(* The upload, or the download, ends early: whatever the import was doing  *)
(* for an application fails; a deployment it had begun goes on.            *)
BreakOff ==
    /\ up /\ imp.on /\ imp.at # "manifest" /\ Spend("upsets")
    /\ EndImport(Ended(impRec, FALSE))
    /\ lock' = IF imp.at \in {"clear", "fill"} THEN [lock EXCEPT ![Current] = "free"] ELSE lock
    /\ UNCHANGED <<feedVars, promoVars, up, app, roll, order, asked, blind, secrets>>

---------------------------------------------------------------------------
(* The standby: the deployment an import began.                            *)

RollOnly == UNCHANGED <<feedVars, importVars, promoVars, up, asked, blind>>

(* execute and executeDormant up to the containers.  A dormant deployment  *)
(* records the application as stopped before its first container exists.   *)
CreateReplicas(a) ==
    /\ up /\ roll[a].at = "created"
    /\ app' = [app EXCEPT ![a].desired = IF roll[a].dormant THEN "stopped" ELSE @,
                          ![a].box = IF roll[a].dormant THEN "created" ELSE "running"]
    /\ roll' = [roll EXCEPT ![a].at = "boxed"]
    /\ UNCHANGED <<lock, order, used>> /\ RollOnly

(* ActivateDeployment: the commit says "running" whatever the deployment.  *)
Activate(a) ==
    /\ up /\ roll[a].at = "boxed"
    /\ app' = [app EXCEPT ![a].dep = roll[a].id, ![a].key = roll[a].key, ![a].kind = roll[a].kind,
                          ![a].desired = "running"]
    /\ order' = Append(SelectSeq(order, LAMBDA b : b # a), a)
    /\ IF roll[a].dormant
       THEN roll' = [roll EXCEPT ![a].at = "active"] /\ UNCHANGED lock
       ELSE roll' = [roll EXCEPT ![a].at = "done"] /\ ReleasedFrom(a)
    /\ UNCHANGED used /\ RollOnly

(* Mutant: the commit's word is left standing.                             *)
KeptStoppedNot(a) == app

KeptStopped(a) == [app EXCEPT ![a].desired = "stopped"]

(* keepStopped, and the lock goes.                                         *)
KeepStopped(a) ==
    /\ up /\ roll[a].at = "active"
    /\ app' = KeptStopped(a)
    /\ roll' = [roll EXCEPT ![a].at = "done"] /\ ReleasedFrom(a)
    /\ UNCHANGED <<order, used>> /\ RollOnly

(* abort: what the deployment created goes, what was active stays so.      *)
Abort(a) ==
    /\ up /\ roll[a].at \in {"created", "boxed"} /\ Spend("upsets")
    /\ app' = [app EXCEPT ![a].box = "none"]
    /\ roll' = [roll EXCEPT ![a].at = "failed"] /\ ReleasedFrom(a)
    /\ UNCHANGED order /\ RollOnly

---------------------------------------------------------------------------
(* The standby: starting, stopping and supervising.                        *)

(* Stop by hand.                                                           *)
Stop(a) ==
    /\ up /\ lock[a] = "free" /\ Active(a) /\ Spend("upsets")
    /\ app' = [app EXCEPT ![a].desired = "stopped", ![a].box = IF @ = "none" THEN @ ELSE "created"]
    /\ UNCHANGED <<feedVars, importVars, promoVars, up, roll, lock, order, asked, blind>>

(* Start under the lock: the containers first, those there are - none when *)
(* an import removed them and failed - ...                                 *)
Started(a) ==
    /\ app' = [app EXCEPT ![a].box = IF @ = "none" THEN @ ELSE "running"]
    /\ lock' = [lock EXCEPT ![a] = "start"]
    /\ asked' = asked \union {a}
    /\ blind' = IF app[a].box = "none" THEN blind \union {a} ELSE blind

(* ... then the desired state.                                             *)
RecordStarted(a) ==
    /\ up /\ lock[a] = "start"
    /\ app' = [app EXCEPT ![a].desired = "running"] /\ ReleasedFrom(a)
    /\ UNCHANGED <<feedVars, importVars, promoVars, up, roll, order, asked, blind, used>>

CanStart(a) == lock[a] = "free" /\ Active(a)

Start(a) ==
    /\ up /\ CanStart(a) /\ Spend("upsets")
    /\ Started(a)
    /\ UNCHANGED <<feedVars, importVars, promoVars, up, roll, order>>

(* The supervisor brings up what is meant to run, and creates the          *)
(* containers that are not there.                                          *)
Supervise(a) ==
    /\ up /\ lock[a] = "free" /\ Runs(a) /\ app[a].box # "running"
    /\ app' = [app EXCEPT ![a].box = "running"]
    /\ UNCHANGED <<feedVars, importVars, promoVars, up, roll, lock, order, asked, blind, used>>

---------------------------------------------------------------------------
(* The standby: promotions.                                                *)

(* standbyApplications, in the order of their deployments.                 *)
Waiting == SelectSeq(order, LAMBDA a : app[a].kind = "standby" /\ app[a].desired = "stopped")

MayPromote == ~promo.on /\ ~imp.on

(* handleStandbyPromote: the request only begins the promotion.            *)
PromoteRequest == up /\ Spend("promotions")

(* StartPromotion: the record exists before anything is started.           *)
StartPromotion ==
    /\ PromoteRequest /\ MayPromote /\ Waiting # <<>>
    /\ promo' = [on |-> TRUE, at |-> "next", order |-> Waiting]
    /\ promoRec' = [status |-> "running", order |-> Waiting,
                    apps |-> [a \in App |-> IF a \in Range(Waiting) THEN "pending" ELSE "none"]]
    /\ UNCHANGED <<feedVars, importVars, standbyVars>>

Left == SelectSeq(promo.order, LAMBDA a : promoRec.apps[a] \in {"pending", "starting"})
Set(a, status) == promoRec' = [promoRec EXCEPT !.apps[a] = status]

(* promote's loop: the next application that has no outcome, and the first *)
(* half of promoteApplication: one that runs is only waited for, one that  *)
(* is busy or gone is recorded as failed.                                  *)
PromoteNext ==
    /\ up /\ promo.on /\ promo.at = "next" /\ Left # <<>>
    /\ LET a == Head(Left)
       IN IF Runs(a) \/ CanStart(a)
          THEN /\ promo' = [promo EXCEPT !.at = a] /\ Set(a, "starting")
               /\ IF Runs(a) THEN UNCHANGED <<app, lock, asked, blind>> ELSE Started(a)
          ELSE Set(a, "failed") /\ UNCHANGED <<promo, app, lock, asked, blind>>
    /\ UNCHANGED <<feedVars, importVars, up, roll, order, used>>

(* awaitStarted and the outcome: ready, or not ready in time.              *)
PromoteOutcome ==
    /\ up /\ promo.on /\ promo.at # "next" /\ lock[promo.at] # "start"
    /\ \E status \in {"running", "started"} : Set(promo.at, status)
    /\ promo' = [promo EXCEPT !.at = "next"]
    /\ UNCHANGED <<feedVars, importVars, standbyVars, used>>

FinishPromotion ==
    /\ up /\ promo.on /\ promo.at = "next" /\ Left = <<>>
    /\ promoRec' = [promoRec EXCEPT !.status =
                        IF \E a \in App : promoRec.apps[a] = "failed" THEN "failed" ELSE "succeeded"]
    /\ promo' = NotPromoting
    /\ UNCHANGED <<feedVars, importVars, standbyVars, used>>

---------------------------------------------------------------------------
(* The standby's agent ends and starts again.                              *)

StopAgent ==
    /\ up /\ Spend("upsets")
    /\ ~StopsInCommit => \A a \in App : roll[a].at # "active"
    /\ up' = FALSE
    /\ imp' = NotImporting /\ promo' = NotPromoting
    /\ lock' = [a \in App |-> "free"]
    /\ UNCHANGED <<feedVars, impRec, pull, secrets, promoRec, app, roll, order, asked, blind>>

(* recoverTransfers: an unfinished promotion goes on from its record.      *)
Resumed == IF promoRec.status = "running"
           THEN [on |-> TRUE, at |-> "next", order |-> promoRec.order] ELSE NotPromoting

(* Mutant: an import found running is left as it was recorded.             *)
SettledNot == impRec

(* recoverTransfers: an import ended with the agent that ran it.           *)
Settled == IF impRec.status = "running" THEN Ended(impRec, FALSE) ELSE impRec

(* Recover: a deployment in flight takes its lock back and goes on; one    *)
(* that is active is over.                                                 *)
Recover ==
    /\ ~up /\ up' = TRUE
    /\ roll' = [a \in App |-> IF roll[a].at \in {"created", "boxed"} THEN roll[a] ELSE NoRoll]
    /\ lock' = [a \in App |-> IF roll[a].at \in {"created", "boxed"} THEN "deployment" ELSE "free"]
    /\ impRec' = Settled /\ promo' = Resumed
    /\ UNCHANGED <<feedVars, imp, pull, secrets, promoRec, app, order, asked, blind, used>>

---------------------------------------------------------------------------
ImportStep ==
    \/ \E ok \in BOOLEAN : ReadManifest(ok) \/ NextApplication(ok) \/ Resolve(ok) \/ Clear(ok) \/ FillAndCreate(ok)
    \/ AwaitDeployment \/ FinishImport

RollStep == \E a \in App : CreateReplicas(a) \/ Activate(a) \/ KeepStopped(a) \/ RecordStarted(a) \/ Supervise(a)

PromotionStep == PromoteNext \/ PromoteOutcome \/ FinishPromotion

AgentStep == ImportStep \/ RollStep \/ PromotionStep \/ Recover

TransferNext ==
    \/ AgentStep
    \/ (Publish \/ Retire) /\ UNCHANGED <<importVars, promoVars, standbyVars, used>>
    \/ \E a \in App : Abort(a) \/ Stop(a) \/ Start(a)
    \/ Upload \/ \E onlyNew \in BOOLEAN : Pull(onlyNew)
    \/ BreakOff \/ StartPromotion \/ StopAgent

TransferSpec == TransferInit /\ [][TransferNext]_transferVars

(* Fairness: the agent's goroutines run, and systemd or Docker starts it   *)
(* again.  Nobody has to ask for anything, and no call has to fail.        *)
TransferFairSpec == TransferSpec /\ WF_transferVars(AgentStep)

---------------------------------------------------------------------------
Ids == {x.read[i].id : x \in Contents, i \in DOMAIN Applications}
Holders == {"free", "import", "deployment", "start"}

(* The types, and a lock that is held by the import only while it replaces *)
(* that application.                                                       *)
TransferTypeOK ==
    /\ app \in [App -> [dep : Ids \union {0}, key : BOOLEAN, kind : {"none", "standby", "import"},
                        desired : {"running", "stopped"}, box : {"none", "created", "running"},
                        vol : Ids \union {0, Half}]]
    /\ lock \in [App -> Holders]
    /\ \A a \in App : lock[a] = "import" => imp.on /\ Current = a /\ imp.at \in {"clear", "fill"}
    /\ \A a \in App : up /\ roll[a].at \in {"created", "boxed", "active"} <=> lock[a] = "deployment"
    /\ impRec.status \in {"none", "running", "succeeded", "failed"}
    /\ promoRec.status \in {"none", "running", "succeeded", "failed"}

(* No application is deployed without a key its configuration had: the     *)
(* export names what a reader must know for exactly the configurations it  *)
(* carries, although they are listed before they are locked (exportkeys.go,*)
(* exportApplication, read).                                               *)
NothingDropped == \A a \in App : ~app[a].key /\ (roll[a].at # "none" => ~roll[a].key)

(* No import, commit, failure or restart brings a process up on data that  *)
(* is not its deployment's: on a volume an import emptied and did not fill,*)
(* or on that of another export.  Only whoever starts an application whose *)
(* containers an import removed, and did not replace, gets that: Start     *)
(* finds nothing to start, and the supervisor creates it.                  *)
WholeData ==
    \A a \in App \ blind : app[a].box = "running" =>
        app[a].vol = IF roll[a].at \in {"created", "boxed", "active"} THEN roll[a].id ELSE app[a].dep

(* What was imported stopped is not started by anything but somebody who   *)
(* asks for it: not by the commit of its deployment, not by the supervisor,*)
(* not by a restart of the agent (executeDormant, keepStopped).            *)
DormantStaysDown == \A a \in App : app[a].box = "running" => a \in asked

(* A fetch that is recorded as a success is one that need not be repeated: *)
(* every application holds the data of that export, whole, unless it was   *)
(* found running and skipped, or somebody started it.                      *)
FetchedIsHere ==
    up /\ Seen /\ pull.last # 0 /\ impRec.fetched /\ impRec.status = "succeeded" =>
        \A i \in DOMAIN Applications :
            LET a == Applications[i]
            IN a \in asked \/ impRec.apps[a] = "skipped" \/ app[a].vol = bucket[pull.last].read[i].id

(* A standby that took over is safe from the imports it still makes: only  *)
(* a stop by hand, or an import that was asked to replace what runs, takes *)
(* an application down that somebody started.                              *)
TakenOverStays ==
    [][\A a \in App : Runs(a) /\ a \in asked /\ app'[a].desired = "stopped" =>
            \/ used'.upsets > used.upsets
            \/ imp.on /\ imp.overwrite /\ ~imp.stopped]_transferVars

(* What a promotion is about to start, or has started, is not replaced     *)
(* under it.                                                               *)
NotUnderPromotion ==
    [][\A a \in App : promo.on /\ promoRec.apps[a] # "none" => app'[a].vol = app[a].vol]_transferVars

(* The secrets of a standby that was promoted and serves are not those of  *)
(* a later export of the server it replaced.                               *)
SecretsStay ==
    [][secrets' # secrets /\ imp.stopped =>
            \A a \in App : ~(promoRec.apps[a] \in {"running", "started"} /\ Runs(a))]_transferVars

(* A promotion that was begun ends with an outcome for every application,  *)
(* across ends of the agent.                                               *)
PromotionEnds == promoRec.status = "running" ~> promoRec.status # "running"

(* The record of an import does not stay `running', whatever ended it.     *)
ImportEnds == impRec.status = "running" ~> impRec.status # "running"

(* A standby has what the export had, and has it waiting                   *)
(* (importApplication, executeDormant).                                    *)
TransferSafe == TransferTypeOK /\ NothingDropped /\ WholeData /\ DormantStaysDown /\ FetchedIsHere

(* A standby that took over is not undone by the imports it still makes    *)
(* (importApplication, promote).                                           *)
StandbyKept == TakenOverStays /\ NotUnderPromotion /\ SecretsStay

(* Promotions and imports end with a record that says how                  *)
(* (recoverTransfers).                                                     *)
TransferEnds == PromotionEnds /\ ImportEnds
=============================================================================
