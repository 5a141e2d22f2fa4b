------------------------------- MODULE Export -------------------------------
(***************************************************************************)
(* Writing an export (deploy/export.go, exportfile.go, exportkeys.go).     *)
(*                                                                         *)
(* The list of applications and the keys a reader must know are written    *)
(* before any application is locked; then each is read under its lock, one *)
(* after the other, while the server goes on deploying.  A deployment      *)
(* stands for its configuration and for the data of its volumes; `key'     *)
(* says that the configuration uses a key an older agent does not know.    *)
(***************************************************************************)
EXTENDS Naturals, Sequences, SequencesExt, FiniteSets

CONSTANTS Hosted,           \* the applications: name -> [age, domain], see exportOrder
          ExportsKept,      \* how many exports are kept
          FailuresKept,     \* backupFailuresKept
          MaxDeploys,       \* bound: deployments while exports are written
          MaxWritten,       \* bound: exports that are begun
          MaxCopyFaults     \* bound: calls that fail

ASSUME ExportAssumption ==
    /\ \A a \in DOMAIN Hosted : Hosted[a].age \in Nat /\ Hosted[a].domain \in BOOLEAN
    /\ "none" \notin DOMAIN Hosted
    /\ {ExportsKept, FailuresKept, MaxDeploys, MaxWritten, MaxCopyFaults} \subseteq Nat
    /\ ExportsKept > 0

VARIABLES
    source,     \* each application's active deployment
    held,       \* the application the export has locked, or "none"
    writing,    \* transfer.exporting and the export that is being written
    runs,       \* the records of the exports, as a backup's
    written,    \* the exports that were written, oldest first
    file,       \* which of them each record is of
    pruned,     \* those that retention removed again
    spent       \* deployments and failed calls so far

exportVars == <<source, held, writing, runs, written, file, pruned, spent>>
kept == <<file, pruned>>

Name == DOMAIN Hosted
NotWriting == [on |-> FALSE]

ExportInit ==
    /\ source = [a \in Name |-> [id |-> 1, key |-> FALSE, stopped |-> FALSE]]
    /\ held = "none" /\ writing = NotWriting /\ runs = <<>> /\ written = <<>>
    /\ file = [n \in 1 .. MaxWritten |-> 0] /\ pruned = {}
    /\ spent = [deploys |-> 0, faults |-> 0]

Worked(ok) ==
    IF ok THEN UNCHANGED spent
    ELSE spent.faults < MaxCopyFaults /\ spent' = [spent EXCEPT !.faults = @ + 1]

(* start on the same server: refused while the export holds the lock.  The *)
(* application may be stopped by then, or use a key that is new.           *)
DeployAtSource(a) ==
    /\ held # a /\ spent.deploys < MaxDeploys
    /\ spent' = [spent EXCEPT !.deploys = @ + 1]
    /\ \E key, stopped \in BOOLEAN :
          source' = [source EXCEPT ![a] = [id |-> @.id + 1, key |-> key, stopped |-> stopped]]
    /\ UNCHANGED <<held, writing, runs, written, kept>>

(* exportOrder: what has no hostname first, among equals the older first.  *)
Before(a, b) ==
    \/ ~Hosted[a].domain /\ Hosted[b].domain
    \/ Hosted[a].domain = Hosted[b].domain /\ Hosted[a].age <= Hosted[b].age

ExportOrder == SetToSortSeq(Name, Before)

(* What sort.Slice is trusted with: the sorted list holds applications.    *)
ASSUME OrderAssumption == ExportOrder \in Seq(Name)

(* requiredKeys: what the listed configurations use, at any depth.         *)
RequiredKeys(listed) == \E a \in Name : listed[a].key

(* Export up to the manifest: the deployments of the moment, the secrets   *)
(* of the server and what a reader must know.                              *)
Manifest == [on |-> TRUE, listed |-> source, requires |-> RequiredKeys(source), read |-> <<>>,
             failed |-> FALSE, ended |-> FALSE]

(* StartExport, one at a time.                                             *)
StartExport ==
    /\ ~writing.on /\ Len(runs) < MaxWritten
    /\ runs' = Append(runs, "running")
    /\ writing' = Manifest
    /\ UNCHANGED <<source, held, written, kept, spent>>

Remaining == SubSeq(ExportOrder, Len(writing.read) + 1, Len(ExportOrder))

(* Mutant: an application is exported as it is, whatever was listed.       *)
StillListedAlways(a) == TRUE

StillListed(a) == source[a].id = writing.listed[a].id

(* exportApplication: the lock, and the deployment that was listed.  One   *)
(* that was replaced since fails the export.                               *)
LockApplication ==
    /\ writing.on /\ ~writing.ended /\ ~writing.failed /\ held = "none" /\ Remaining # <<>>
    /\ LET a == Head(Remaining)
       IN IF StillListed(a) THEN held' = a /\ UNCHANGED writing
                            ELSE writing' = [writing EXCEPT !.failed = TRUE] /\ UNCHANGED held
    /\ UNCHANGED <<source, runs, written, kept, spent>>

(* app.json, the image, the folder and the volumes, in parts (stream).     *)
CopyApplication(ok) ==
    /\ writing.on /\ held # "none" /\ Worked(ok)
    /\ writing' = IF ok THEN [writing EXCEPT !.read = Append(@, source[held])]
                        ELSE [writing EXCEPT !.failed = TRUE]
    /\ held' = "none"
    /\ UNCHANGED <<source, runs, written, kept>>

(* writeExport, Storage.Write and finishExport: a file is shown once it is *)
(* whole.  The bucket may have it although the directory has not; then the *)
(* export failed, and its file goes if it can be removed.                  *)
FinishExport(ok) ==
    /\ writing.on /\ ~writing.ended /\ held = "none" /\ (writing.failed \/ Remaining = <<>>)
    /\ Worked(ok \/ writing.failed)
    /\ LET good == ok /\ ~writing.failed
       IN \E shown \in IF writing.failed THEN {FALSE} ELSE IF ok THEN {TRUE} ELSE BOOLEAN :
            /\ written' = IF shown THEN Append(written, [requires |-> writing.requires, read |-> writing.read])
                                   ELSE written
            /\ file' = IF good THEN [file EXCEPT ![Len(runs)] = Len(written) + 1] ELSE file
            /\ runs' = [runs EXCEPT ![Len(runs)] = IF good THEN "succeeded" ELSE "failed"]
    /\ writing' = [writing EXCEPT !.ended = TRUE]
    /\ UNCHANGED <<source, held, pruned>>

Later(n) == {m \in DOMAIN runs : m > n /\ runs[m] = runs[n]}

(* What pruneBackups takes of the exports: beyond the newest ExportsKept   *)
(* that succeeded, and beyond the last FailuresKept that failed.           *)
Overdue(n, status) ==
    runs[n] = status /\ Cardinality(Later(n)) >= IF status = "succeeded" THEN ExportsKept ELSE FailuresKept

(* finishExport's end.  Files that cannot be removed may be gone in part,  *)
(* and their record stays; a failed export has only its record.            *)
PruneExports ==
    /\ writing.on /\ writing.ended
    /\ LET old == {n \in DOMAIN runs : Overdue(n, "succeeded")}
       IN \E stay \in SUBSET old :
            /\ Worked(stay = {})
            /\ \E half \in SUBSET stay : pruned' = pruned \union {file[n] : n \in (old \ stay) \union half}
            /\ runs' = [n \in DOMAIN runs |->
                          IF n \in old \ stay \/ Overdue(n, "failed") THEN "gone" ELSE runs[n]]
    /\ writing' = NotWriting
    /\ UNCHANGED <<source, held, written, file>>

WriterStep ==
    \/ LockApplication \/ PruneExports
    \/ \E ok \in BOOLEAN : CopyApplication(ok) \/ FinishExport(ok)

ExportNext ==
    \/ \E a \in Name : DeployAtSource(a)
    \/ StartExport \/ WriterStep

(* The goroutine that writes runs; nobody has to ask for an export.        *)
ExportSpec == ExportInit /\ [][ExportNext]_exportVars /\ WF_exportVars(WriterStep)

---------------------------------------------------------------------------
Versions == 1 .. (MaxDeploys + 1)
Entry == [id : Versions, key : BOOLEAN, stopped : BOOLEAN]
Whole == [requires : BOOLEAN, read : [1 .. Len(ExportOrder) -> Entry]]

Feed == INSTANCE ExportFeed WITH bucket <- written, removed <- pruned, Contents <- Whole, MaxExports <- MaxWritten

(* Exports are written as ExportFeed promises: only whole ones are seen,   *)
(* a configuration that uses a key is announced in the manifest, although  *)
(* the manifest is written before the applications are locked and each may *)
(* be replaced before its turn, and retention never takes the newest.      *)
FeedsReaders == Feed!FeedSpec

(* An export that is begun is recorded with an outcome, whatever failed.   *)
ExportEnds ==
    (\E n \in DOMAIN runs : runs[n] = "running") ~> (\A n \in DOMAIN runs : runs[n] # "running")
=============================================================================
