------------------------------ MODULE Versions ------------------------------
(* What a deployment serves and what is kept of the ones before it: the    *)
(* images of container applications (deploy/images.go, localimages.go) and *)
(* the folders of static ones (deploy/static.go), uploaded to the agent,   *)
(* copied into the proxy, routed to, and swept.  One application; its lock *)
(* lets one operation run at a time, and an image is loaded without it.    *)
EXTENDS Naturals, FiniteSets, Sequences

CONSTANTS Digests,        \* folders, by the digest of their archive
          NoIndex,        \* those without index.html (or without the fallback)
          Registry,       \* images a registry has
          Local,          \* images built on a developer's machine
          MaxRecords,     \* bound: deployments
          VersionBudgets  \* bounds on faults, see Budget

(* No folder has an empty digest: it is the SHA-256 of an archive           *)
(* (static.go: uploadInfo).                                                 *)
ASSUME VersionsAssumption == "" \notin Digests

VARIABLES records,    \* the deployments, oldest first
          images,     \* the images Docker has
          stamped,    \* local images whose stamp is older than orphanAge
          sent,       \* local images a CLI has sent and not deployed yet
          folders,    \* directories of the application in the proxy
          parts,      \* the ones being extracted: <digest>.part
          complete,   \* digests whose extraction last ran to its end
          uploads,    \* archives the agent keeps
          notes,      \* and the notes of what is in them
          route,      \* what the proxy's configuration names for the domain
          override,   \* what a rollout says it shall name; Off: the database
          op,         \* the operation that holds the lock
          halfGone,   \* a deletion has removed files and not the records
          allowed     \* faults, stops and deletions that may still happen

versionVars == <<records, images, stamped, sent, folders, parts, complete, uploads, notes,
                 route, override, op, halfGone, allowed>>

Off == [to |-> "database", ref |-> ""]
Nowhere == [to |-> "nowhere", ref |-> ""]
Idle == [pc |-> "idle", kind |-> "", ref |-> "", present |-> FALSE]

ById(status) == {i \in DOMAIN records : records[i].status = status}
Newest(ids) == CHOOSE i \in ids : \A j \in ids : j <= i
HasRecord(status) == ById(status) # {}
ActiveRecord == records[Newest(ById("active"))]

(* What SyncProxy writes: the rollout's word, or the active deployment.    *)
Serves(record) == [to |-> record.source, ref |-> record.ref]
Wanted == IF override # Off THEN override
          ELSE IF HasRecord("active") THEN Serves(ActiveRecord) ELSE Nowhere

VersionInit ==
    /\ records = <<>> /\ images = {} /\ stamped = {} /\ sent = {} /\ folders = {} /\ parts = {} /\ complete = {}
    /\ uploads = {} /\ notes = {} /\ route = Nowhere /\ override = Off /\ op = Idle /\ halfGone = FALSE
    /\ allowed \in VersionBudgets

Fault == allowed.faults > 0 /\ allowed' = [allowed EXCEPT !.faults = @ - 1]

-----------------------------------------------------------------------------
(* What the CLI sends first.                                               *)

(* LoadImage takes no lock.  The stamp in the tag is of the moment the     *)
(* build began; slow says that it is older than orphanAge on arrival.      *)
LoadImage(image, slow) ==
    /\ image \notin images /\ image \notin {records[i].ref : i \in DOMAIN records}
    /\ slow => allowed.slow > 0
    /\ allowed' = IF slow THEN [allowed EXCEPT !.slow = @ - 1] ELSE allowed
    /\ images' = images \union {image}
    /\ sent' = sent \union {image}
    /\ stamped' = IF slow THEN stamped \union {image} ELSE stamped
    /\ UNCHANGED <<complete, records, folders, parts, uploads, notes, route, override, op, halfGone>>

(* The CLI ends without deploying what it sent, and the image grows old.   *)
SenderGone(image) ==
    /\ image \in sent
    /\ sent' = sent \ {image} /\ stamped' = stamped \union {image}
    /\ UNCHANGED <<complete, records, images, folders, parts, uploads, notes, route, override, op, halfGone, allowed>>

(* StoreStatic, under the lock: the archive, then the note, then the rest  *)
(* of the directory goes.                                                  *)
StoreArchive(digest) ==
    /\ op = Idle
    /\ uploads' = uploads \union {digest}
    /\ op' = [Idle EXCEPT !.pc = "note", !.ref = digest]
    /\ UNCHANGED <<complete, records, images, stamped, sent, folders, parts, notes, route, override, halfGone, allowed>>

StoreNote ==
    /\ op.pc = "note"
    /\ notes' = notes \union {op.ref}
    /\ op' = [op EXCEPT !.pc = "prune"]
    /\ UNCHANGED <<complete, records, images, stamped, sent, folders, parts, uploads, route, override, halfGone, allowed>>

pruneUploads ==
    /\ op.pc = "prune"
    /\ uploads' = {op.ref} /\ notes' = {op.ref} /\ op' = Idle
    /\ UNCHANGED <<complete, records, images, stamped, sent, folders, parts, route, override, halfGone, allowed>>

-----------------------------------------------------------------------------
(* Deployments begin.                                                      *)

Begins(source, ref, kind) ==
    /\ op = Idle /\ Len(records) < MaxRecords
    /\ records' = Append(records, [source |-> source, ref |-> ref, status |-> "running"])
    /\ op' = [Idle EXCEPT !.pc = "building", !.kind = kind, !.ref = ref]
    /\ UNCHANGED <<complete, images, stamped, folders, parts, uploads, notes, route, override, halfGone, allowed>>

(* uploadInfo: the note must be there, nothing is recorded without it.     *)
DeployStatic(digest) == digest \in notes /\ Begins("folder", digest, "deploy") /\ UNCHANGED sent

DeployImage(image) ==
    /\ image \in Local => image \in sent
    /\ Begins("image", image, "deploy")
    /\ sent' = sent \ {image}

Redeploy ==
    /\ HasRecord("active")
    /\ Begins(ActiveRecord.source, ActiveRecord.ref, "redeploy") /\ UNCHANGED sent

(* The most recent superseded deployment, or one that is named.            *)
Rollback(i) ==
    /\ HasRecord("active") /\ i \in ById("superseded")
    /\ Begins(records[i].source, records[i].ref, "rollback") /\ UNCHANGED sent

-----------------------------------------------------------------------------
(* The rollout.  Its record is the last one.                               *)

Mine == Len(records)
IsFolder == records[Mine].source = "folder"
MineBecomes(status) == [records EXCEPT ![Mine].status = status]

(* The image: refreshed from its registry, or else the copy that is here;  *)
(* a local one is here or nowhere.                                         *)
pullImage ==
    /\ op.pc = "building" /\ ~IsFolder
    /\ \/ op.ref \in Registry /\ images' = images \union {op.ref} /\ UNCHANGED allowed
       \/ op.ref \in Local /\ op.ref \in images /\ UNCHANGED <<images, allowed>>
       \/ op.ref \in Registry \cap images /\ Fault /\ UNCHANGED images
    /\ op' = [op EXCEPT !.pc = "starting"]
    /\ UNCHANGED <<complete, records, stamped, sent, folders, parts, uploads, notes, route, override, halfGone>>

(* The replicas, whose own story is module Application: they use the image,*)
(* and until the first is ready the rollout says the former keeps serving. *)
StartReplicas ==
    /\ op.pc = "starting" /\ ~IsFolder
    /\ override' = IF HasRecord("active") THEN Serves(ActiveRecord) ELSE Off
    /\ op' = [op EXCEPT !.pc = "healthy"]
    /\ UNCHANGED <<complete, records, images, stamped, sent, folders, parts, uploads, notes, route, halfGone, allowed>>

(* The folder: a directory of that digest needs no upload.                 *)
LookForFolder ==
    /\ op.pc = "building" /\ IsFolder
    /\ op.ref \in folders \union uploads
    /\ op' = [op EXCEPT !.pc = IF op.ref \in folders THEN "checking" ELSE "starting", !.present = op.ref \in folders]
    /\ UNCHANGED <<complete, records, images, stamped, sent, folders, parts, uploads, notes, route, override, halfGone, allowed>>

(* Extracted next to its final name: the directory first, empty.           *)
MakePart ==
    /\ op.pc = "starting" /\ IsFolder
    /\ parts' = parts \union {op.ref} /\ complete' = complete \ {op.ref}
    /\ op' = [op EXCEPT !.pc = "importing"]
    /\ UNCHANGED <<records, images, stamped, sent, folders, uploads, notes, route, override, halfGone, allowed>>

ImportPath ==
    /\ op.pc = "importing" /\ op.ref \in uploads
    /\ complete' = complete \union {op.ref}
    /\ op' = [op EXCEPT !.pc = "checking"]
    /\ UNCHANGED <<records, images, stamped, sent, folders, parts, uploads, notes, route, override, halfGone, allowed>>

(* index.html is there; the folder gets its name.                          *)
CheckFolder ==
    /\ op.pc = "checking" /\ op.ref \notin NoIndex
    /\ folders' = folders \union {op.ref}
    /\ parts' = IF op.present THEN parts ELSE parts \ {op.ref}
    /\ op' = [op EXCEPT !.pc = "healthy"]
    /\ UNCHANGED <<complete, records, images, stamped, sent, uploads, notes, route, override, halfGone, allowed>>

(* routeVia and SyncProxy.                                                 *)
SwitchRoute ==
    /\ op.pc = "healthy"
    /\ override' = Serves(records[Mine]) /\ route' = Serves(records[Mine])
    /\ op' = [op EXCEPT !.pc = "commit"]
    /\ UNCHANGED <<complete, records, images, stamped, sent, folders, parts, uploads, notes, halfGone, allowed>>

(* ActivateDeployment and clearRouteOverride.                              *)
ActivateDeployment ==
    /\ op.pc = "commit"
    /\ records' = [i \in DOMAIN records |->
                      IF i = Mine THEN [records[i] EXCEPT !.status = "active"]
                      ELSE IF records[i].status = "active" THEN [records[i] EXCEPT !.status = "superseded"]
                      ELSE records[i]]
    /\ override' = Off
    /\ op' = [op EXCEPT !.pc = "sweep"]
    /\ UNCHANGED <<complete, images, stamped, sent, folders, parts, uploads, notes, route, halfGone, allowed>>

(* A step that may fail did: an image that is nowhere, an upload that is   *)
(* gone, a command in the proxy, a replica, a route, the database.         *)
CanFail ==
    \/ op.pc = "building" /\ IsFolder /\ op.ref \notin folders \union uploads
    \/ op.pc = "building" /\ op.ref \in Local /\ op.ref \notin images
    \/ op.pc = "checking" /\ op.ref \in NoIndex
    \/ op.pc \in {"building", "starting", "importing", "checking", "healthy", "commit"} /\ allowed.faults > 0

-----------------------------------------------------------------------------
(* What is kept.                                                           *)

(* Mutant: the image a rollback would need is not kept.                    *)
keptImagesActive == IF HasRecord("active") THEN {ActiveRecord.ref} ELSE {}

keptImages == (IF HasRecord("active") THEN {ActiveRecord.ref} ELSE {})
              \union (IF HasRecord("superseded") THEN {records[Newest(ById("superseded"))].ref} ELSE {})

deployedImages == {records[i].ref : i \in {j \in DOMAIN records : records[j].source = "image"}}

(* The orphans too, once they are old: all of them when all of it goes.    *)
Named == {records[i].ref : i \in DOMAIN records}
pruneCandidates(everything) ==
    deployedImages \union {l \in Local \cap images : l \notin Named /\ (everything \/ l \in stamped)}

(* The daemon refuses an image a container uses.                           *)
InUse == IF HasRecord("active") THEN {ActiveRecord.ref} ELSE {}
pruneImages(candidates) == images \ (candidates \ (keptImages \union InUse))

(* The image of a deployment that failed goes unless something keeps it.   *)
removeFailedImage == IF IsFolder THEN images ELSE pruneImages({op.ref})

(* The active folder, and the most recent other one among the superseded;  *)
(* for an application of containers only if it was replaced just now.      *)
SupersededFolders(digest) == {i \in ById("superseded") : records[i].source = "folder" /\ records[i].ref # digest}
keptFolders ==
    LET active == ActiveRecord
        digest == IF active.source = "folder" THEN active.ref ELSE ""
        others == SupersededFolders(digest)
        former == IF others = {} THEN {} ELSE {records[Newest(others)].ref} IN
    IF active.source = "folder" THEN {digest} \union former
    ELSE IF HasRecord("superseded") /\ records[Newest(ById("superseded"))].source = "folder" THEN former
    ELSE {}

(* The sweep of a deployment that succeeded: best effort, each removal of  *)
(* its own; candidates of a static one are what its deployments named.     *)
retireStaticDirs ==
    \/ folders' = folders \cap keptFolders /\ parts' = {} /\ UNCHANGED allowed
    \/ Fault /\ UNCHANGED <<folders, parts>>

Sweep ==
    /\ op.pc = "sweep"
    /\ images' = pruneImages(IF IsFolder THEN deployedImages ELSE pruneCandidates(FALSE))
    /\ stamped' = stamped \cap images'
    /\ retireStaticDirs
    /\ op' = Idle
    /\ UNCHANGED <<complete, records, sent, uploads, notes, route, override, halfGone>>

(* abort: the record, the part of this rollout, the image of this one if   *)
(* nothing keeps it; the route follows the database again, or does with    *)
(* the supervisor's next tick.                                             *)
Abort ==
    /\ CanFail
    /\ LET after == MineBecomes("failed") IN
       /\ records' = after
       /\ override' = Off
       /\ parts' = IF IsFolder /\ ~op.present THEN parts \ {op.ref} ELSE parts
       /\ images' = removeFailedImage
       /\ \/ route' = (IF HasRecord("active") THEN Serves(ActiveRecord) ELSE Nowhere)
          \/ UNCHANGED route
    /\ allowed' = [allowed EXCEPT !.faults = IF @ > 0 THEN @ - 1 ELSE 0]
    /\ op' = Idle
    /\ UNCHANGED <<complete, stamped, sent, folders, uploads, notes, halfGone>>

-----------------------------------------------------------------------------
(* Everything else.                                                        *)

(* SyncProxy, on the supervisor's tick.                                    *)
TickSync ==
    /\ route # Wanted
    /\ route' = Wanted
    /\ UNCHANGED <<complete, records, images, stamped, sent, folders, parts, uploads, notes, override, op, halfGone, allowed>>

(* Delete: the files, then the records, then the route and the images.     *)
removeStaticFiles ==
    /\ op = Idle /\ records # <<>> /\ allowed.deletes > 0
    /\ allowed' = [allowed EXCEPT !.deletes = @ - 1]
    /\ uploads' = {} /\ notes' = {}
    /\ IF \E i \in DOMAIN records : records[i].source = "folder"
       THEN folders' = {} /\ parts' = {} ELSE UNCHANGED <<folders, parts>>
    /\ halfGone' = TRUE
    /\ op' = [Idle EXCEPT !.pc = "delete"]
    /\ UNCHANGED <<complete, records, images, stamped, sent, route, override>>

DeleteApplication ==
    /\ op.pc = "delete"
    /\ images' = images \ pruneCandidates(TRUE)
    /\ stamped' = stamped \cap images'
    /\ records' = <<>> /\ halfGone' = FALSE /\ op' = Idle
    /\ \/ route' = Nowhere
       \/ UNCHANGED route
    /\ UNCHANGED <<complete, sent, folders, parts, uploads, notes, override, allowed>>

(* The records could not be deleted: the application is left, its files    *)
(* are not.                                                                *)
DeleteFails ==
    /\ op.pc = "delete" /\ Fault
    /\ op' = Idle
    /\ UNCHANGED <<complete, records, images, stamped, sent, folders, parts, uploads, notes, route, override, halfGone>>

(* The agent stops and starts: a rollout of containers that had begun      *)
(* resumes, any other is marked failed; parts and images stay behind.      *)
Resumes == ~IsFolder /\ op.pc \in {"starting", "healthy", "commit"}
Restart ==
    /\ op # Idle /\ allowed.stops > 0
    /\ allowed' = [allowed EXCEPT !.stops = @ - 1]
    /\ override' = Off
    /\ IF op.kind # "" /\ op.pc # "sweep"
       THEN /\ op' = IF Resumes THEN [op EXCEPT !.pc = "starting"] ELSE Idle
            /\ records' = IF Resumes THEN records ELSE MineBecomes("failed")
       ELSE op' = Idle /\ UNCHANGED records
    /\ UNCHANGED <<complete, images, stamped, sent, folders, parts, uploads, notes, route, halfGone>>

VersionNext ==
    \/ \E l \in Local : SenderGone(l) \/ \E slow \in BOOLEAN : LoadImage(l, slow)
    \/ \E d \in Digests : StoreArchive(d) \/ DeployStatic(d)
    \/ StoreNote \/ pruneUploads
    \/ \E i \in Registry \union Local : DeployImage(i)
    \/ Redeploy \/ \E i \in DOMAIN records : Rollback(i)
    \/ pullImage \/ StartReplicas \/ LookForFolder \/ MakePart \/ ImportPath \/ CheckFolder
    \/ SwitchRoute \/ ActivateDeployment \/ Sweep \/ Abort
    \/ TickSync \/ removeStaticFiles \/ DeleteApplication \/ DeleteFails \/ Restart

(* Everything that can happen to the versions of an application.            *)
VersionSpec == VersionInit /\ [][VersionNext]_versionVars

-----------------------------------------------------------------------------
(* Properties.                                                             *)

(* The proxy's configuration never names a folder that is not there or     *)
(* was not extracted to its end and checked, whatever stops or fails half- *)
(* way ("a crash half-way never leaves a directory that looks complete");  *)
(* a deletion that could not delete the records is the one exception.      *)
ServedIsWhole == route.to = "folder" /\ ~halfGone /\ HasRecord("active") =>
    route.ref \in (folders \cap complete) \ NoIndex

(* What runs and what a rollback would go back to are on the server: the   *)
(* image and the folder of the active deployment and of its most recent    *)
(* predecessor survive every sweep (images.go, static.go).                 *)
IsThere(record) == record.ref \in IF record.source = "folder" THEN folders ELSE images
RollbackReady == ~halfGone =>
    /\ HasRecord("active") => IsThere(ActiveRecord)
    /\ HasRecord("superseded") => IsThere(records[Newest(ById("superseded"))])

(* What is served and what a rollback would serve are on the server, whole *)
(* (serveStatic, pruneImages, retireStaticDirs).                           *)
VersionsThere == ServedIsWhole /\ RollbackReady
=============================================================================
