------------------------------- MODULE Upload -------------------------------
(* A file of a backup on its way to the bucket (agent/internal/backup/      *)
(* multipart.go and the upload part of Storage.Write): in one PUT or in     *)
(* parts, noted next to the file before the first part goes, aborted when   *)
(* it fails, and by the next agent when this one did not live to.  Sizes    *)
(* are in units of a quarter of the rounding step partSizeFor uses.         *)
EXTENDS Naturals, FiniteSets

CONSTANTS UsualPart,    \* defaultPartSize
          MaxParts,     \* maxParts
          PartStep,     \* the MiB parts are rounded to
          Attempts,     \* partAttempts
          FileSizes, MaxObject, \* maxObjectBytes
          MaxAgentStops, MaxRefusals \* requests the bucket may fail

ASSUME UploadAssumption ==
  /\ {UsualPart, MaxParts, PartStep, Attempts} \subseteq Nat \ {0}
  /\ FileSizes \subseteq Nat /\ {MaxObject, MaxAgentStops, MaxRefusals} \subseteq Nat

VARIABLES
  fsize,     \* the size of the file
  upc,       \* where the upload is
  sent,      \* the parts the service took under the upload's id
  tries,     \* attempts at the next part
  pending,   \* the service holds the upload, neither completed nor aborted
  note,      \* <file>.upload: "none", "empty" (cut off) or "id"
  object,    \* the object exists in the bucket
  left       \* bounds: [stops, refusals]

uploadVars == <<fsize, upc, sent, tries, pending, note, object, left>>

(* partSizeFor, with &^ as subtraction of the remainder.                    *)
PartSizeFor(size) ==
  IF size <= UsualPart * MaxParts THEN UsualPart
  ELSE LET p == size \div MaxParts + PartStep IN p - (p % PartStep)

Parts == LET p == PartSizeFor(fsize) IN 1..((fsize + p - 1) \div p)

UploadInit ==
  /\ fsize \in FileSizes /\ upc = "write" /\ sent = {} /\ tries = 0
  /\ pending = FALSE /\ note = "none" /\ object = FALSE
  /\ left = [stops |-> MaxAgentStops, refusals |-> MaxRefusals]

(* A request of the bucket that fails.                                      *)
Refused == left.refusals > 0 /\ left' = [left EXCEPT !.refusals = @ - 1]

(* Upload of what fits a part: one PUT, all or nothing.                     *)
PutWhole ==
  /\ upc = "write" /\ fsize <= UsualPart
  /\ \/ object' = TRUE /\ upc' = "done" /\ UNCHANGED left
     \/ Refused /\ upc' = "failed" /\ UNCHANGED object
  /\ UNCHANGED <<fsize, sent, tries, pending, note>>

TooLarge ==
  /\ upc = "write" /\ fsize > UsualPart /\ fsize > MaxObject /\ upc' = "failed"
  /\ UNCHANGED <<fsize, sent, tries, pending, note, object, left>>

CreateUpload ==
  /\ upc = "write" /\ fsize > UsualPart /\ fsize <= MaxObject
  /\ \/ upc' = "note" /\ pending' = TRUE /\ UNCHANGED left
     \/ Refused /\ upc' = "failed" /\ UNCHANGED pending
  /\ UNCHANGED <<fsize, sent, tries, note, object>>

(* begun of Storage.Write.                                                  *)
AfterCreate == note' = "id" /\ upc' = "send"
NoteUpload ==
  /\ upc = "note" /\ AfterCreate
  /\ UNCHANGED <<fsize, sent, tries, pending, object, left>>

(* sendPart: a part is sent up to Attempts times; a refusal ends it.        *)
SendPart ==
  /\ upc = "send" /\ sent # Parts
  /\ LET part == Cardinality(sent) + 1 IN
     \/ sent' = sent \cup {part} /\ tries' = 0 /\ UNCHANGED <<upc, left>>
     \/ /\ Refused /\ UNCHANGED sent
        /\ \/ tries + 1 < Attempts /\ tries' = tries + 1 /\ UNCHANGED upc
           \/ tries' = 0 /\ upc' = "abort"
  /\ UNCHANGED <<fsize, pending, note, object>>

(* Mutant: the upload is completed with the parts that went through.        *)
MayCompleteSome == sent # {}
MayComplete == sent = Parts

(* completeUpload: an error document in a successful answer is a failure,   *)
(* and the service may have completed it although the answer got lost.      *)
Complete ==
  /\ upc = "send" /\ MayComplete
  /\ \/ object' = TRUE /\ pending' = FALSE /\ upc' = "done" /\ UNCHANGED left
     \/ Refused /\ upc' = "abort" /\ UNCHANGED <<object, pending>>
     \/ Refused /\ upc' = "abort" /\ object' = TRUE /\ pending' = FALSE
  /\ note' = IF upc' = "done" THEN "none" ELSE note
  /\ UNCHANGED <<fsize, sent, tries>>

(* Storage.Write keeps the note when errPartsRemain says so.                *)
NoteKept(ok) == IF ok THEN "none" ELSE note

(* abortUpload; one the service does not know is no error.                  *)
AbortUpload ==
  /\ upc = "abort" /\ upc' = "failed"
  /\ \E ok \in BOOLEAN :
       /\ IF ok THEN UNCHANGED left ELSE Refused
       /\ pending' = (pending /\ ~ok) /\ sent' = IF ok THEN {} ELSE sent
       /\ note' = NoteKept(ok)
  /\ UNCHANGED <<fsize, tries, object>>

(* The agent is killed; a note that was being written may be cut off.       *)
AgentStops ==
  /\ left.stops > 0 /\ upc \notin {"later", "idle"}
  /\ left' = [left EXCEPT !.stops = @ - 1] /\ upc' = "later" /\ tries' = 0
  /\ note' \in IF upc = "note" THEN {"none", "empty", "id"} ELSE {note}
  /\ UNCHANGED <<fsize, sent, pending, object>>

(* What AbortLeftovers knows of: the note names the upload, and the         *)
(* bucket's list may show it.                                              *)
Known(listed) == note = "id" \/ listed

(* Storage.Remove of the failed run, at once, or AbortLeftovers of the next*)
(* agent (prepareBackups) before any upload of its own.                    *)
AbortLeftovers ==
  /\ upc \in {"failed", "later"}
  /\ \E listed \in {FALSE, upc = "later"}, ok \in BOOLEAN :
       IF pending /\ Known(listed)
       THEN /\ IF ok THEN UNCHANGED left ELSE Refused
            /\ pending' = ~ok /\ sent' = IF ok THEN {} ELSE sent
            /\ note' = IF ok THEN "none" ELSE note
            /\ upc' = IF ok THEN "idle" ELSE "later"
       ELSE /\ ok /\ note' = "none" /\ upc' = "idle" /\ UNCHANGED <<pending, sent, left>>
  /\ UNCHANGED <<fsize, tries, object>>

UploadSteps == \/ PutWhole \/ TooLarge \/ CreateUpload \/ NoteUpload \/ SendPart \/ Complete
               \/ AbortUpload \/ AbortLeftovers
UploadNext == UploadSteps \/ AgentStops
UploadSpec == UploadInit /\ [][UploadNext]_uploadVars

(* Types; an object goes up in no more parts than the service takes.       *)
UploadTypeOK ==
  /\ upc \in {"write", "note", "send", "abort", "done", "failed", "later", "idle"}
  /\ tries \in 0..(Attempts - 1) /\ note \in {"none", "empty", "id"}
  /\ {pending, object} \subseteq BOOLEAN /\ sent \subseteq Parts
  /\ fsize <= MaxObject => Cardinality(Parts) <= MaxParts

(* Parts that are in the bucket without an object are known to somebody who*)
(* can abort them, across a stop and failed aborts: "an upload that does   *)
(* not complete is aborted by whoever started it, and an agent aborts what *)
(* an agent before it did not live to abort".                              *)
PartsAreNoted == pending /\ sent # {} => note = "id"

(* Until it is completed the object does not exist: never half of it.      *)
WholeObject == object => fsize <= UsualPart \/ sent \in {Parts, {}}

(* An object is whole or not there, and the parts of one that is not are   *)
(* known (Upload, AbortLeftovers).                                         *)
UploadSafe == UploadTypeOK /\ PartsAreNoted /\ WholeObject
=============================================================================
