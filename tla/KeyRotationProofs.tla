-------------------------- MODULE KeyRotationProofs --------------------------
(***************************************************************************)
(* Proofs about KeyRotation, for any number of sealed values, rotations    *)
(* and stops of the agent.  A commit reports what it did; that a failed    *)
(* rename leaves the key on disk in the pending file only is why the last  *)
(* theorem about keys assumes that it succeeds.  And about Backups, for    *)
(* any volumes, ids, runs, retention and stops: what succeeded is whole    *)
(* until it is removed on purpose, whoever else uses the application.      *)
(***************************************************************************)
EXTENDS KeyRotation, Backups, FiniteSetTheorems, SequenceTheorems, WellFoundedInduction, TLAPS

\* A rotation holds keyMu alone: nobody is between sealing and storing a
\* value, or between a copy of the database and its key.
Alone ==
  /\ step # "idle" => process = "up" /\ writer = NoValue /\ ~Copying
  /\ writer # NoValue => process = "up" /\ writer.key = ring.current

\* The ring has turned less often than keys were made; a rotation under way
\* has its turn left.
Turns ==
  /\ ring.turn + 1 <= fresh
  /\ step \in {"writing", "written", "switch"} => ring.turn + 2 <= fresh

\* What the steps of a rotation rely on of those before them.
InOrder ==
  /\ step = "written" => pendingKey = fresh
  /\ step = "switch" => pendingKey = fresh /\ Fits(fresh)
  /\ step = "committed" => pendingKey = ring.current /\ ~fromEnv

\* A row that was fetched is under the key of its time, or, fetched between
\* the commit and the switch of the ring, under the next one.
Fetched ==
  reader # NoValue =>
    /\ process = "up" /\ reader.at <= ring.turn
    /\ reader.at = ring.turn => reader.key = ring.current \/ (step = "switch" /\ reader.key = fresh)
    /\ reader.at + 1 = ring.turn => Opens(reader.key)

\* A copy whose key is still to be noted is under the key of the ring.
Copied ==
  /\ Copying => process = "up" /\ snapshot.under = ring.current
  /\ SnapshotReadable

\* The inductive invariant of what is in memory.
KeyInv == KeyTypeOK /\ Alone /\ Turns /\ InOrder /\ RingFits /\ Fetched /\ Copied

-----------------------------------------------------------------------------
\* A value that is stored was sealed with the key everything is under
\* (StoreValue): storing it changes no key.
LEMMA StoringKeepsKeys ==
  ASSUME KeyInv, StoreValue
  PROVE  sealed' = sealed
<1>1. writer \in [value : All, key : Keys] /\ writer.value \in All
  BY DEF KeyInv, KeyTypeOK, StoreValue
<1>2. writer.key = ring.current /\ step = "idle" /\ process = "up"
  BY DEF KeyInv, Alone, StoreValue
<1>3. sealed[writer.value] = writer.key
  BY <1>1, <1>2 DEF KeyInv, RingFits, Fits
<1> QED BY <1>1, <1>3 DEF StoreValue, KeyInv, KeyTypeOK

\* A key that opens everything is a key, not a missing or torn file.
LEMMA FittingIsKey ==
  ASSUME KeyTypeOK, NEW k, Fits(k)
  PROVE  k \in Keys
<1>1. PICK v \in All : TRUE
  BY KeyAssumption DEF All
<1> QED BY <1>1 DEF KeyTypeOK, Fits

\* Two keys that open everything are one.
LEMMA FittingIsOne ==
  ASSUME NEW j, NEW k, Fits(j), Fits(k)
  PROVE  j = k
<1>1. PICK v \in All : TRUE
  BY KeyAssumption DEF All
<1> QED BY <1>1 DEF Fits

\* A database that was just opened under its key.
LEMMA KeyInitial == KeyInit => KeyInv
<1> SUFFICES ASSUME KeyInit PROVE KeyInv
  OBVIOUS
<1> USE KeyAssumption
<1>1. fromEnv \in BOOLEAN
  BY DEF KeyInit
<1>2. KeyTypeOK
  BY <1>1 DEF KeyInit, KeyTypeOK, Keys, NoKey, NoSnapshot
<1> QED BY <1>2 DEF KeyInit, KeyInv, Alone, Turns, InOrder, RingFits, Fetched, Copied, Copying,
                    SnapshotReadable, Fits, NoSnapshot, NoKey

\* Every step keeps the invariant of what is in memory.
LEMMA KeyStep ==
  ASSUME ~CommitMayLie, KeyInv, [KeyNext]_keyVars
  PROVE  KeyInv'
<1> USE KeyAssumption
<1>0. KeyTypeOK /\ fresh \in Nat /\ ring.turn \in Nat
  BY DEF KeyInv, KeyTypeOK, Keys
<1>1. ASSUME NEW v \in All, SealValue(v) PROVE KeyInv'
  <2>1. KeyTypeOK'
    BY <1>1, <1>0 DEF SealValue, KeyTypeOK
  <2> QED BY <1>1, <2>1 DEF SealValue, KeyInv, Alone, Turns, InOrder, RingFits, Fetched, Copied, Copying,
             SnapshotReadable, Fits, Opens
<1>2. ASSUME NEW v \in All, FetchValue(v) PROVE KeyInv'
  <2>1. KeyTypeOK'
    BY <1>2, <1>0 DEF FetchValue, KeyTypeOK
  <2>2. Fetched'
    <3>1. reader' = [value |-> v, key |-> sealed[v], at |-> ring.turn] /\ ring' = ring
      BY <1>2 DEF FetchValue
    <3>2. sealed[v] = ring.current \/ (step = "switch" /\ sealed[v] = fresh)
      BY <1>2 DEF KeyInv, RingFits, InOrder, Fits, FetchValue
    <3> QED BY <3>1, <3>2, <1>2, <1>0 DEF FetchValue, Fetched
  <2> QED BY <1>2, <2>1, <2>2 DEF FetchValue, KeyInv, Alone, Turns, InOrder, RingFits, Copied, Copying,
             SnapshotReadable, Fits
<1>3. CASE StoreValue
  <2>1. sealed' = sealed
    BY <1>3, StoringKeepsKeys
  <2>2. KeyTypeOK'
    BY <1>3, <2>1, <1>0 DEF StoreValue, KeyTypeOK
  <2> QED BY <1>3, <2>1, <2>2 DEF StoreValue, KeyInv, Alone, Turns, InOrder, RingFits, Fetched, Copied,
             Copying, SnapshotReadable, Fits, Opens
<1>4. CASE OpenValue
  <2>1. KeyTypeOK'
    BY <1>4, <1>0 DEF OpenValue, KeyTypeOK
  <2> QED BY <1>4, <2>1 DEF OpenValue, KeyInv, Alone, Turns, InOrder, RingFits, Fetched, Copied,
             Copying, SnapshotReadable, Fits
<1>5. CASE Snapshot
  <2>1. PICK v \in All : snapshot' = [NoSnapshot EXCEPT !.under = sealed[v]]
    BY <1>5 DEF Snapshot
  <2>2. snapshot' = [under |-> sealed[v], key |-> NoKey] /\ sealed[v] \in Keys
    BY <2>1, <1>0 DEF NoSnapshot, KeyTypeOK
  <2>3. sealed[v] = ring.current
    BY <1>5 DEF Snapshot, KeyInv, RingFits, Fits
  <2>4. KeyTypeOK'
    BY <1>5, <1>0, <2>2 DEF Snapshot, KeyTypeOK
  <2>5. Copied'
    BY <1>5, <2>2, <2>3 DEF Snapshot, Copied, Copying, SnapshotReadable
  <2> QED BY <1>5, <2>4, <2>5 DEF Snapshot, KeyInv, Alone, Turns, InOrder, RingFits, Fetched, Fits, Opens
<1>6. CASE SnapshotKey
  <2>1. snapshot.under = ring.current /\ ring.current \in Keys
    BY <1>6, <1>0 DEF SnapshotKey, KeyInv, Copied, Copying, KeyTypeOK
  <2>2. snapshot' = [under |-> snapshot.under, key |-> ring.current]
    BY <1>6, <1>0 DEF SnapshotKey, KeyTypeOK
  <2>3. KeyTypeOK'
    BY <1>6, <1>0, <2>1, <2>2 DEF SnapshotKey, KeyTypeOK
  <2>4. ~Copying' /\ SnapshotReadable'
    BY <2>1, <2>2 DEF Copying, SnapshotReadable, Keys, NoKey
  <2> QED BY <1>6, <2>3, <2>4 DEF SnapshotKey, KeyInv, Alone, Turns, InOrder, RingFits, Fetched, Copied, Fits, Opens
<1>7. CASE RotateKey
  <2>1. KeyTypeOK'
    BY <1>7, <1>0 DEF RotateKey, KeyTypeOK, Keys
  <2> QED BY <1>7, <2>1, <1>0 DEF RotateKey, KeyInv, Alone, Turns, InOrder, RingFits, Fetched, Copied,
             Copying, SnapshotReadable, Fits, Opens
<1>8. CASE KeyWritten
  <2>1. KeyTypeOK'
    BY <1>8, <1>0 DEF KeyWritten, KeyTypeOK
  <2> QED BY <1>8, <2>1, <1>0 DEF KeyWritten, KeyInv, Alone, Turns, InOrder, RingFits, Fetched, Copied,
             Copying, SnapshotReadable, Fits, Opens
<1>9. CASE Reencrypt
  <2>1. KeyTypeOK'
    BY <1>9, <1>0 DEF Reencrypt, KeyTypeOK
  <2>2. Fits(fresh)'
    BY <1>9 DEF Reencrypt, Fits
  <2> QED BY <1>9, <2>1, <2>2, <1>0 DEF Reencrypt, KeyInv, Alone, Turns, InOrder, RingFits, Fetched, Copied,
             Copying, SnapshotReadable, Opens
<1>10. CASE SwitchRing
  <2>1. ring' = [current |-> fresh, previous |-> ring.current, turn |-> ring.turn + 1] /\ Fits(fresh)
    BY <1>10 DEF SwitchRing, Rotated, KeyInv, InOrder
  <2>2. ring.turn + 1 \in 0..MaxRotations
    BY <1>10, <1>0 DEF SwitchRing, KeyInv, Turns, KeyTypeOK, Keys
  <2>3. KeyTypeOK'
    BY <1>10, <1>0, <2>1, <2>2 DEF SwitchRing, KeyTypeOK
  <2>4. Fetched'
    <3> SUFFICES ASSUME reader # NoValue PROVE Fetched'
      BY <1>10 DEF SwitchRing, Fetched
    <3>1. reader \in [value : All, key : Keys, at : 0..MaxRotations]
      BY <1>0 DEF KeyTypeOK
    <3>2. reader.at <= ring.turn /\ process = "up"
      BY DEF KeyInv, Fetched
    <3>3. reader.at = ring.turn => reader.key = ring.current \/ reader.key = fresh
      BY DEF KeyInv, Fetched
    <3> QED BY <1>10, <1>0, <2>1, <3>1, <3>2, <3>3 DEF SwitchRing, Fetched, Opens
  <2>5. RingFits' /\ InOrder'
    BY <1>10, <2>1 DEF SwitchRing, RingFits, InOrder, Fits, KeyInv
  <2>6. Alone' /\ Turns' /\ Copied'
    BY <1>10, <1>0, <2>1 DEF SwitchRing, KeyInv, Alone, Turns, Copied, Copying, SnapshotReadable
  <2> QED BY <2>3, <2>4, <2>5, <2>6 DEF KeyInv
<1>11. CASE ReencryptFails
  <2>1. sealed' = sealed /\ pendingKey' = NoKey
    BY <1>11 DEF ReencryptFails
  <2>2. KeyTypeOK'
    BY <1>11, <1>0, <2>1 DEF ReencryptFails, KeyTypeOK
  <2> QED BY <1>11, <2>1, <2>2, <1>0 DEF ReencryptFails, KeyInv, Alone, Turns, InOrder, RingFits, Fetched, Copied,
             Copying, SnapshotReadable, Fits, Opens
<1>12. CASE MoveKey
  <2>1. KeyTypeOK'
    BY <1>12, <1>0 DEF MoveKey, KeyTypeOK, KeyInv, InOrder
  <2> QED BY <1>12, <2>1, <1>0 DEF MoveKey, KeyInv, Alone, Turns, InOrder, RingFits, Fetched, Copied,
             Copying, SnapshotReadable, Fits, Opens
<1>13. CASE KeyAgentStops
  <2>1. KeyTypeOK'
    BY <1>13, <1>0 DEF KeyAgentStops, KeyTypeOK, NoSnapshot
  <2>2. Copied'
    BY <1>13, <1>0 DEF KeyAgentStops, KeyInv, Copied, Copying, SnapshotReadable, NoSnapshot
  <2> QED BY <1>13, <2>1, <2>2, <1>0 DEF KeyAgentStops, KeyInv, Alone, Turns, InOrder, RingFits, Fetched, Copying
<1>14. CASE OpenStore
  <2>1. ring' = [current |-> configured, previous |-> NoKey, turn |-> 0] /\ sealed' = sealed /\ Fits(configured)
    BY <1>14 DEF OpenStore
  <2>2. step = "idle" /\ writer = NoValue /\ reader = NoValue /\ ~Copying
    BY <1>14 DEF OpenStore, KeyInv, Alone, Fetched, Copied
  <2>3. KeyTypeOK'
    BY <1>14, <2>1, <1>0 DEF OpenStore, KeyTypeOK
  <2>4. fresh >= 1
    BY <1>0 DEF KeyTypeOK, Keys
  <2> QED BY <1>14, <2>1, <2>2, <2>3, <2>4, <1>0 DEF OpenStore, KeyInv, Alone, Turns, InOrder, RingFits, Fetched,
             Copied, Copying, SnapshotReadable, Fits
<1>15. CASE CompleteRotation
  <2>1. ring' = [current |-> pendingKey, previous |-> configured, turn |-> 0] /\ sealed' = sealed /\ Fits(pendingKey)
    BY <1>15 DEF CompleteRotation
  <2>2. step = "idle" /\ writer = NoValue /\ reader = NoValue /\ ~Copying
    BY <1>15 DEF CompleteRotation, KeyInv, Alone, Fetched, Copied
  <2>3. pendingKey \in Keys
    BY <2>1, <1>0, FittingIsKey
  <2>4. KeyTypeOK'
    BY <1>15, <2>1, <2>3, <1>0 DEF CompleteRotation, KeyTypeOK
  <2>5. fresh >= 1
    BY <1>0 DEF KeyTypeOK, Keys
  <2> QED BY <1>15, <2>1, <2>2, <2>4, <2>5, <1>0 DEF CompleteRotation, KeyInv, Alone, Turns, InOrder, RingFits, Fetched,
             Copied, Copying, SnapshotReadable, Fits
<1>16. CASE RefuseToStart
  <2>1. KeyTypeOK'
    BY <1>16, <1>0 DEF RefuseToStart, KeyTypeOK
  <2> QED BY <1>16, <2>1, <1>0 DEF RefuseToStart, KeyInv, Alone, Turns, InOrder, RingFits, Fetched, Copied,
             Copying, SnapshotReadable, Fits, Opens
<1>17. CASE SetEnvironment
  <2>1. told' \in Keys
    BY <1>17, <1>0, FittingIsKey DEF SetEnvironment, KeyTypeOK
  <2>2. KeyTypeOK'
    BY <1>17, <2>1, <1>0 DEF SetEnvironment, KeyTypeOK
  <2>3. step = "idle" /\ writer = NoValue /\ reader = NoValue /\ ~Copying
    BY <1>17 DEF SetEnvironment, KeyInv, Alone, Fetched, Copied
  <2> QED BY <1>17, <2>2, <2>3, <1>0 DEF SetEnvironment, KeyInv, Alone, Turns, InOrder, RingFits, Fetched, Copied,
             Copying, SnapshotReadable
<1>18. CASE UNCHANGED keyVars
  <2>1. KeyTypeOK'
    BY <1>18, <1>0 DEF keyVars, KeyTypeOK
  <2> QED BY <1>18, <2>1 DEF keyVars, KeyInv, Alone, Turns, InOrder, RingFits, Fetched, Copied,
             Copying, SnapshotReadable, Fits, Opens
<1> QED BY <1>1, <1>2, <1>3, <1>4, <1>5, <1>6, <1>7, <1>8, <1>9, <1>10, <1>11, <1>12, <1>13, <1>14,
           <1>15, <1>16, <1>17, <1>18 DEF KeyNext, Rotation, KeyStart

-----------------------------------------------------------------------------
\* Where the keys are on disk, as long as a rename does what it is told: the
\* key file is behind only between the commit and the rename, the environment
\* only while the pending file holds the key.
OnDisk ==
  /\ Recoverable
  /\ process = "up" /\ ~fromEnv /\ step \in {"idle", "writing", "written"} => configured = ring.current
  /\ step \in {"writing", "written"} => Fits(configured)
  /\ ~fromEnv => told = NoKey
  /\ told \notin {NoKey, configured} => pendingKey = told /\ Fits(told) /\ step = "idle"

\* Every step that gives up a file leaves a key that opens the data.
LEMMA DiskStep ==
  ASSUME ~CommitMayLie, ~RenameMayFail, KeyInv, OnDisk, [KeyNext]_keyVars
  PROVE  OnDisk'
<1> USE KeyAssumption
<1>0. KeyTypeOK /\ NoKey \notin Keys /\ Torn \notin Keys
  BY DEF KeyInv, Keys, NoKey, Torn
<1>1. ASSUME NEW v \in All, SealValue(v) \/ FetchValue(v) PROVE OnDisk'
  BY <1>1 DEF SealValue, FetchValue, OnDisk, Recoverable, Fits
<1>2. CASE StoreValue
  <2>1. sealed' = sealed
    BY <1>2, StoringKeepsKeys
  <2> QED BY <1>2, <2>1 DEF StoreValue, OnDisk, Recoverable, Fits
<1>3. CASE OpenValue \/ Snapshot \/ SnapshotKey
  BY <1>3 DEF OpenValue, Snapshot, SnapshotKey, OnDisk, Recoverable, Fits
<1>4. CASE RotateKey
  <2>1. ~Fits(NoKey)
    BY <1>0, FittingIsKey
  <2>2. Fits(configured)
    BY <1>4, <2>1 DEF RotateKey, OnDisk, Recoverable, KeyInv, RingFits
  <2>3. told \in {NoKey, configured}
    <3> SUFFICES ASSUME told \notin {NoKey, configured} PROVE FALSE
      OBVIOUS
    <3>1. pendingKey = told /\ Fits(told)
      BY DEF OnDisk
    <3> QED BY <2>2, <3>1, FittingIsOne
  <2> QED BY <1>4, <2>2, <2>3 DEF RotateKey, OnDisk, Recoverable, Fits
<1>5. CASE KeyWritten
  BY <1>5 DEF KeyWritten, OnDisk, Recoverable, Fits
<1>6. CASE Reencrypt
  BY <1>6 DEF Reencrypt, OnDisk, Recoverable, Fits, KeyInv, InOrder
<1>7. CASE SwitchRing
  BY <1>7 DEF SwitchRing, OnDisk, Recoverable, Fits, KeyInv, InOrder
<1>8. CASE ReencryptFails
  BY <1>8 DEF ReencryptFails, OnDisk, Recoverable, Fits
<1>9. CASE MoveKey
  <2>1. Fits(pendingKey) /\ pendingKey = ring.current /\ ~fromEnv
    BY <1>9 DEF MoveKey, KeyInv, Alone, InOrder, RingFits
  <2>2. told = NoKey
    BY <2>1 DEF OnDisk
  <2> QED BY <1>9, <2>1, <2>2 DEF MoveKey, OnDisk, Recoverable, Fits
<1>10. CASE KeyAgentStops
  BY <1>10 DEF KeyAgentStops, OnDisk, Recoverable, Fits
<1>11. CASE OpenStore
  <2>1. told \in {NoKey, configured}
    BY <1>11, FittingIsOne DEF OpenStore, OnDisk
  <2> QED BY <1>11, <2>1 DEF OpenStore, OnDisk, Recoverable, Fits
<1>12. CASE CompleteRotation
  BY <1>12 DEF CompleteRotation, OnDisk, Recoverable, Fits
<1>13. CASE RefuseToStart
  BY <1>13 DEF RefuseToStart, OnDisk, Recoverable, Fits
<1>14. CASE SetEnvironment
  BY <1>14 DEF SetEnvironment, OnDisk, Recoverable, Fits, KeyInv, Alone
<1>15. CASE UNCHANGED keyVars
  BY <1>15 DEF keyVars, OnDisk, Recoverable, Fits
<1> QED BY <1>1, <1>2, <1>3, <1>4, <1>5, <1>6, <1>7, <1>8, <1>9, <1>10, <1>11, <1>12, <1>13, <1>14, <1>15
        DEF KeyNext, Rotation, KeyStart

-----------------------------------------------------------------------------
\* Whatever is stopped where, an agent that runs works with a key that opens
\* its data, a query opens the row it fetched before a rotation, and a copy
\* of the database is under the key kept with it (keyring, RotateKey,
\* Snapshot), even if the new key cannot be moved to its place.
THEOREM MemoryFits ==
  ASSUME ~CommitMayLie
  PROVE  KeySpec => [](KeyTypeOK /\ RingFits /\ ReadersOpen /\ SnapshotReadable)
<1>1. KeyInv /\ [KeyNext]_keyVars => KeyInv'
  BY KeyStep
<1>2. KeyInv => KeyTypeOK /\ RingFits /\ ReadersOpen /\ SnapshotReadable
  <2> SUFFICES ASSUME KeyInv PROVE ReadersOpen
    BY DEF KeyInv, Copied
  <2> SUFFICES ASSUME reader # NoValue, ring.turn <= reader.at + 1, step # "switch" PROVE Opens(reader.key)
    BY DEF ReadersOpen
  <2>1. reader.at \in Nat /\ ring.turn \in Nat /\ reader.at <= ring.turn
    BY DEF KeyInv, KeyTypeOK, Fetched
  <2>2. reader.at = ring.turn \/ reader.at + 1 = ring.turn
    BY <2>1
  <2> QED BY <2>2 DEF KeyInv, Fetched, Opens
<1> QED BY KeyInitial, <1>1, <1>2, PTL DEF KeySpec

\* At every step of a rotation, with every reader and writer in flight, one
\* of the keys on disk opens all of the data (RotateKey, settleRotation).
THEOREM KeysAreSafe ==
  ASSUME ~CommitMayLie, ~RenameMayFail
  PROVE  KeySpec => []KeysSafe
<1>1. KeyInit => KeyInv /\ OnDisk
  <2>1. KeyInit => OnDisk
    BY DEF KeyInit, OnDisk, Recoverable, Fits
  <2> QED BY <2>1, KeyInitial
<1>2. KeyInv /\ OnDisk /\ [KeyNext]_keyVars => (KeyInv /\ OnDisk)'
  BY KeyStep, DiskStep
<1>3. KeySpec => [](KeyInv /\ OnDisk)
  BY <1>1, <1>2, PTL DEF KeySpec
<1>4. KeySpec => [](KeyTypeOK /\ RingFits /\ ReadersOpen /\ SnapshotReadable)
  BY MemoryFits
<1>5. OnDisk => Recoverable
  BY DEF OnDisk
<1> QED BY <1>3, <1>4, <1>5, PTL DEF KeysSafe

-----------------------------------------------------------------------------
\* The backups.  What a row, the goroutine of a backup and the one that does
\* something with it look like.
RowSet == [status : {"none", "running", "succeeded", "failed"}, owner : {"app", "state"},
           activity : {"", "verify", "restore", "remove"}, vols : SUBSET Names, restored : BOOLEAN]
JobSet == [pc : {"none", "before", "stop", "archive", "release", "finish", "list", "prune", "unrecord"},
           left : Seq(Names), ok : BOOLEAN, stopped : BOOLEAN, list : SUBSET Ids]
ActSet == [pc : {"none", "files", "row", "verify", "restore", "import"}, left : Seq(Names)]

\* From the record of a backup to its end, and to the release of the lock.
Active(i) == jobs[i].pc \in {"before", "stop", "archive", "release", "finish"}
HoldsLock(i) == rows[i].owner = "app" /\ jobs[i].pc \in {"before", "stop", "archive", "release"}

WorkTyped ==
  /\ jobs \in [Ids -> JobSet] /\ acts \in [Ids -> ActSet]
  /\ copies \in [Ids -> [rows : [Ids -> RowSet], seq : {-1} \cup 0..MaxRuns]]
  /\ \A k \in Ids : copies[k] # NoCopy => copies[k].seq \in 0..MaxRuns
  /\ "restores" \in DOMAIN used /\ used.restores \in Nat
  /\ made \in [Ids -> SUBSET Names] /\ put \in [Ids -> SUBSET Names] /\ read \in [Ids -> SUBSET Nat]

\* What a database may say of the files there are.
RowFits(i, row, last) ==
  /\ row.status # "none" => i <= last
  /\ row.status \in {"none", "running"} => row.activity = ""
  /\ row.status # "succeeded" => row.vols = {}
  /\ row.owner = "app" => row.vols \subseteq ToSet(Volumes)
  /\ i \notin going \cup mistaken => \A v \in row.vols : Readable(i, v)
Rows == \A i \in Ids : RowFits(i, rows[i], seq)
Copies ==
  \A k, i \in Ids : RowFits(i, copies[k].rows[i], copies[k].seq)

\* What was made can be read; of what is being made nothing was.
Made == \A i \in Ids \ (going \cup mistaken) : \A v \in made[i] : Readable(i, v)
Running ==
  \A i \in Ids \ (going \cup mistaken) : rows[i].status = "running" =>
    made[i] = {} /\ \A k \in Ids : copies[k].rows[i].vols = {}

\* Ids are handed out above those of the files that are there.
Reserved == prepared => \A i \in Ids : files[i] # {} => i <= seq

Stopped ==
  /\ agent = "down" => ~prepared /\ lock = "free" /\ adopt = NotAdopting
                       /\ \A i \in Ids : jobs[i] = NoJob /\ acts[i] = NoAct
  /\ adopt # NotAdopting => prepared

\* A backup that is being taken.
Taking ==
  \A i \in Ids : Active(i) =>
    /\ i <= seq /\ rows[i].status = "running"
    /\ jobs[i].left \in Seq(ToSet(FilesOf(rows[i].owner)))
    /\ jobs[i].ok => prepared /\ FoundFiles(i) \subseteq ToSet(FilesOf(rows[i].owner))
    /\ \A v \in ToSet(FilesOf(rows[i].owner)) \ ToSet(jobs[i].left) : Readable(i, v)
    /\ jobs[i].pc \in {"before", "stop"} => rows[i].owner = "app" /\ files[i] = {} /\ ~jobs[i].stopped
    /\ jobs[i].pc \in {"before", "stop", "archive"} => jobs[i].ok
    /\ jobs[i].stopped => rows[i].owner = "app"
    /\ jobs[i].pc = "release" => ~jobs[i].ok
    /\ jobs[i].pc = "finish" /\ jobs[i].ok => jobs[i].left = <<>>

\* Who has the lock, and what it says of the application.
Locked ==
  /\ \A i \in Ids : HoldsLock(i) =>
       /\ lock = "backup" /\ read[i] \subseteq {svc.gen}
       /\ \A j \in Ids : HoldsLock(j) => i = j
       /\ ~jobs[i].stopped /\ svc.desired = "running" => svc.up \/ svc.excused
  /\ \A i \in Ids : acts[i].pc = "import" => lock = "restore" /\ \A j \in Ids : acts[j].pc = "import" => i = j
  /\ lock = "restore" => svc.desired = "stopped" /\ ~svc.up
  /\ lock = "free" /\ svc.desired = "running" => svc.up \/ svc.excused

ReadOnce == \A i \in Ids : \E g \in Nat : read[i] \subseteq {g}

\* What is pruned or claimed is not being taken.
Pruning == \A i \in Ids : jobs[i].pc \in {"prune", "unrecord"} =>
    jobs[i].list # {} /\ \A j \in jobs[i].list : j <= seq /\ rows[j].status # "running"
Claimed ==
  \A i \in Ids :
    /\ acts[i].pc # "none" => i <= seq /\ rows[i].status # "running"
    /\ acts[i].pc \in {"files", "row"} => i \in going
    /\ acts[i].pc = "import" => acts[i].left # <<>>
    /\ rows[i].activity = "restore" /\ agent = "up" => acts[i].pc \in {"restore", "import"}

\* A restore that goes on has the volumes it has not put back still to do.
Restoring ==
  used.restores = 0 => \A i \in Ids :
    /\ rows[i].status = "succeeded" => FoundFiles(i) \subseteq rows[i].vols
    /\ acts[i].pc \in {"restore", "import"} => FoundFiles(i) \cup rows[i].vols \subseteq put[i] \cup ToSet(acts[i].left)

\* The inductive invariant of the backups.
BackupInv ==
  /\ BackupsTypeOK /\ WorkTyped /\ Rows /\ Copies /\ Made /\ Running /\ Reserved /\ Stopped
  /\ Taking /\ Locked /\ ReadOnce /\ Pruning /\ Claimed /\ Restoring /\ RestoreTruthful

-----------------------------------------------------------------------------
\* The greatest of some ids.
LEMMA MaxIs ==
  ASSUME NEW n \in Nat, NEW S \in SUBSET (0..n), S # {}
  PROVE  Max(S) \in S /\ \A x \in S : x <= Max(S)
<1> DEFINE up(x) == x..n
           T == {up(x) : x \in S}
<1>1. \A x \in S : x \in Nat /\ x <= n
  OBVIOUS
<1>2. T \subseteq FiniteSubsetsOf(0..n)
  <2>1. \A x \in S : up(x) \subseteq 0..n /\ IsFiniteSet(up(x))
    BY <1>1, FS_Interval
  <2> QED BY <2>1 DEF FiniteSubsetsOf
<1>3. T # {}
  OBVIOUS
<1>4. PICK t \in T : \A u \in T : <<u, t>> \notin StrictSubsetOrdering(0..n)
  <2> HIDE DEF T
  <2>1. IsWellFoundedOn(StrictSubsetOrdering(0..n), FiniteSubsetsOf(0..n))
    BY FS_StrictSubsetOrderingWellFounded
  <2> QED BY <1>2, <1>3, <2>1, WFMin
<1>5. PICK m \in S : t = up(m)
  OBVIOUS
<1>6. ASSUME NEW x \in S PROVE x <= m
  <2>1. SUFFICES ASSUME x > m PROVE FALSE
    BY <1>1
  <2>2. up(x) \subseteq up(m) /\ up(x) # up(m)
    BY <1>1, <2>1
  <2>3. up(x) \in SUBSET (0..n) /\ up(m) \in SUBSET (0..n)
    BY <1>1
  <2>4. <<up(x), up(m)>> \in StrictSubsetOrdering(0..n)
    BY <2>2, <2>3 DEF StrictSubsetOrdering
  <2> QED BY <1>4, <1>5, <2>4
<1>7. \E x \in S : \A y \in S : x >= y
  BY <1>1, <1>6
<1> QED BY <1>1, <1>7 DEF Max

\* The elements of a finite set, in some order.
LEMMA SetToSeqIs ==
  ASSUME NEW S, IsFiniteSet(S)
  PROVE  SetToSeq(S) \in Seq(S) /\ ToSet(SetToSeq(S)) = S
<1> DEFINE n == Cardinality(S)
           F == Injection(1..n, S)
<1>1. n \in Nat /\ IsFiniteSet(1..n) /\ Cardinality(1..n) = n
  BY FS_CardinalityType, FS_Interval
<1>2. ExistsBijection(1..n, S)
  BY <1>1, FS_SameCardinalityBij
<1>3. \E f \in [1..n -> S] : IsInjective(f)
  BY <1>2 DEF ExistsBijection, Bijection, Injection, IsInjective
<1>4. SetToSeq(S) \in [1..n -> S] /\ IsInjective(SetToSeq(S))
  BY <1>3 DEF SetToSeq
<1>5. SetToSeq(S) \in Injection(1..n, S)
  BY <1>4 DEF Injection, IsInjective
<1>6. SetToSeq(S) \in Surjection(1..n, S)
  BY <1>1, <1>5, FS_Injection
<1>7. ToSet(SetToSeq(S)) = S
  BY <1>4, <1>6 DEF ToSet, Surjection
<1> QED BY <1>1, <1>4, <1>7

\* What is left of a sequence, and what was done of it.
LEMMA TailIs ==
  ASSUME NEW S, NEW s \in Seq(S)
  PROVE  /\ ToSet(s) \subseteq S
         /\ s # <<>> => Head(s) \in S /\ Tail(s) \in Seq(S) /\ ToSet(s) = {Head(s)} \cup ToSet(Tail(s))
         /\ s = <<>> => ToSet(s) = {}
<1>1. Len(s) \in Nat /\ DOMAIN s = 1..Len(s) /\ \A k \in 1..Len(s) : s[k] \in S
  OBVIOUS
<1>2. ASSUME s # <<>>
      PROVE  Head(s) \in S /\ Tail(s) \in Seq(S) /\ ToSet(s) = {Head(s)} \cup ToSet(Tail(s))
  <2>1. Head(s) = s[1] /\ Tail(s) \in Seq(S) /\ Len(s) >= 1 /\ Len(Tail(s)) = Len(s) - 1
        /\ \A k \in 1..(Len(s) - 1) : Tail(s)[k] = s[k + 1]
    BY <1>2
  <2>2. \A k \in 1..Len(s) : k = 1 \/ (k - 1 \in 1..(Len(s) - 1) /\ s[k] = Tail(s)[k - 1])
    BY <1>1, <2>1
  <2>3. DOMAIN Tail(s) = 1..(Len(s) - 1)
    BY <1>1, <2>1
  <2>4. ASSUME NEW x \in ToSet(s) PROVE x \in {Head(s)} \cup ToSet(Tail(s))
    <3>1. PICK k \in 1..Len(s) : x = s[k]
      BY <1>1 DEF ToSet
    <3>2. k = 1 \/ (k - 1 \in DOMAIN Tail(s) /\ s[k] = Tail(s)[k - 1])
      BY <2>2, <2>3
    <3> QED BY <2>1, <3>1, <3>2 DEF ToSet
  <2>5. \A k \in 1..(Len(s) - 1) : k + 1 \in 1..Len(s)
    BY <1>1
  <2>6. {Head(s)} \cup ToSet(Tail(s)) \subseteq ToSet(s)
    BY <1>1, <2>1, <2>3, <2>5 DEF ToSet
  <2> QED BY <1>1, <2>1, <2>4, <2>6
<1>3. s = <<>> => ToSet(s) = {}
  BY DEF ToSet
<1> QED BY <1>1, <1>2, <1>3 DEF ToSet

\* The files of a backup.
LEMMA NamesAre ==
  /\ IsFiniteSet(Names)
  /\ \A o \in {"app", "state"} : /\ FilesOf(o) \in Seq(Names) /\ ToSet(FilesOf(o)) \subseteq Names
                                 /\ FilesOf(o) \in Seq(ToSet(FilesOf(o)))
  /\ FilesOf("app") = Volumes /\ FilesOf("state") = StateFiles
<1>1. Volumes \in Seq(STRING)
  BY BackupsAssumption DEF BackupsAssumption
<1>2. StateFiles \in Seq(ToSet(StateFiles))
  BY DEF StateFiles, ToSet
<1>3. ASSUME NEW S, NEW s \in Seq(S) PROVE IsFiniteSet(ToSet(s)) /\ s \in Seq(ToSet(s))
  <2>1. Len(s) \in Nat /\ DOMAIN s = 1..Len(s) /\ IsFiniteSet(1..Len(s))
    BY FS_Interval
  <2>2. s \in Seq(ToSet(s))
    BY <2>1 DEF ToSet
  <2>3. s \in Surjection(1..Len(s), ToSet(s))
    BY <2>1 DEF Surjection, ToSet
  <2> QED BY <2>1, <2>2, <2>3, FS_Surjection
<1>4. IsFiniteSet(Names)
  BY <1>1, <1>2, <1>3, FS_Union DEF Names
<1>5. Volumes \in Seq(Names) /\ StateFiles \in Seq(Names)
  BY <1>1, <1>2, <1>3 DEF Names
<1>6. Volumes \in Seq(ToSet(Volumes))
  BY <1>1, <1>3
<1> QED BY <1>2, <1>4, <1>5, <1>6 DEF FilesOf, Names

\* The bounds.
LEMMA BoundsAre == MaxRuns \in Nat /\ Ids \subseteq Nat /\ Keep \in Nat
BY BackupsAssumption DEF BackupsAssumption, Ids

\* No database was put back.
UsedSame == "restores" \in DOMAIN used' /\ used'.restores = used.restores

\* An answer of Docker, the disk or the bucket, or a request, puts nothing back.
LEMMA CallIs ==
  ASSUME WorkTyped, Request \/ (\E ok \in BOOLEAN : Call(ok)) \/ UNCHANGED used
  PROVE  UsedSame
<1>1. CASE UNCHANGED used
  BY <1>1 DEF WorkTyped, UsedSame
<1>2. CASE Request
  BY <1>2 DEF WorkTyped, UsedSame, Request
<1>3. CASE \E ok \in BOOLEAN : Call(ok)
  BY <1>3 DEF WorkTyped, UsedSame, Call
<1> QED BY <1>1, <1>2, <1>3

\* What a step that leaves its variables alone does not disturb.
LEMMA Frames ==
  ASSUME BackupInv
  PROVE  /\ UNCHANGED <<jobs, acts, copies, made, put, read>> /\ UsedSame => WorkTyped'
         /\ UNCHANGED <<rows, seq, going, mistaken, files>> => Rows'
         /\ UNCHANGED <<copies, going, mistaken, files>> => Copies'
         /\ UNCHANGED <<going, mistaken, made, files>> => Made'
         /\ UNCHANGED <<going, mistaken, rows, made, copies>> => Running'
         /\ UNCHANGED <<prepared, files, seq>> => Reserved'
         /\ UNCHANGED <<agent, prepared, lock, adopt, jobs, acts>> => Stopped'
         /\ UNCHANGED <<jobs, rows, seq, files, prepared>> => Taking'
         /\ UNCHANGED <<rows, jobs, lock, read, svc, acts>> => Locked'
         /\ UNCHANGED read => ReadOnce'
         /\ UNCHANGED <<jobs, seq, rows>> => Pruning'
         /\ UNCHANGED <<acts, seq, rows, going, mistaken, agent>> => Claimed'
         /\ UNCHANGED <<rows, files, acts, put>> /\ UsedSame => Restoring'
         /\ UNCHANGED <<rows, put>> /\ UsedSame => RestoreTruthful'
<1>1. UNCHANGED <<jobs, acts, copies, made, put, read>> /\ UsedSame => WorkTyped'
  BY DEF BackupInv, WorkTyped, UsedSame
<1>2. UNCHANGED <<rows, seq, going, mistaken, files>> => Rows'
  BY DEF BackupInv, Rows, RowFits, Readable
<1>3. UNCHANGED <<copies, going, mistaken, files>> => Copies'
  BY ZenonT(60) DEF BackupInv, Copies, RowFits, Readable
<1>4. UNCHANGED <<going, mistaken, made, files>> => Made'
  BY DEF BackupInv, Made, Readable
<1>5. UNCHANGED <<going, mistaken, rows, made, copies>> => Running'
  BY DEF BackupInv, Running
<1>6. UNCHANGED <<prepared, files, seq>> => Reserved'
  BY DEF BackupInv, Reserved
<1>7. UNCHANGED <<agent, prepared, lock, adopt, jobs, acts>> => Stopped'
  BY DEF BackupInv, Stopped
<1>8. UNCHANGED <<jobs, rows, seq, files, prepared>> => Taking'
  <2>1. ASSUME UNCHANGED <<jobs, rows, seq, files, prepared>>, NEW i \in Ids
        PROVE  (Active(i)' <=> Active(i)) /\ FoundFiles(i)' = FoundFiles(i) /\ \A v : Readable(i, v)' <=> Readable(i, v)
    BY <2>1 DEF Active, FoundFiles, Readable
  <2>2. \A o : FilesOf(o)' = FilesOf(o)
    BY DEF FilesOf
  <2> QED BY <2>1, <2>2 DEF BackupInv, Taking
<1>9. UNCHANGED <<rows, jobs, lock, read, svc, acts>> => Locked'
  BY DEF BackupInv, Locked, HoldsLock
<1>10. UNCHANGED read => ReadOnce'
  BY DEF BackupInv, ReadOnce
<1>11. UNCHANGED <<jobs, seq, rows>> => Pruning'
  BY DEF BackupInv, Pruning
<1>12. UNCHANGED <<acts, seq, rows, going, mistaken, agent>> => Claimed'
  BY DEF BackupInv, Claimed
<1>13. UNCHANGED <<rows, files, acts, put>> /\ UsedSame => Restoring'
  BY DEF BackupInv, Restoring, UsedSame, FoundFiles
<1>14. UNCHANGED <<rows, put>> /\ UsedSame => RestoreTruthful'
  BY DEF BackupInv, RestoreTruthful, UsedSame
<1> QED BY <1>1, <1>2, <1>3, <1>4, <1>5, <1>6, <1>7, <1>8, <1>9, <1>10, <1>11, <1>12, <1>13, <1>14

\* The types, one by one.
LEMMA Typed ==
  ASSUME BackupInv
  PROVE  /\ \A i \in Ids : rows[i] \in RowSet /\ jobs[i] \in JobSet /\ acts[i] \in ActSet
         /\ rows \in [Ids -> RowSet] /\ jobs \in [Ids -> JobSet] /\ acts \in [Ids -> ActSet]
         /\ files \in [Ids -> SUBSET (Places \X Names)]
         /\ seq \in Nat /\ seq <= MaxRuns /\ svc.gen \in Nat /\ agent \in {"up", "down"}
<1>1. rows \in [Ids -> RowSet] /\ files \in [Ids -> SUBSET (Places \X Names)] /\ agent \in {"up", "down"}
  BY DEF BackupInv, BackupsTypeOK, RowSet
<1>2. jobs \in [Ids -> JobSet] /\ acts \in [Ids -> ActSet]
  BY DEF BackupInv, WorkTyped
<1>3. seq \in 0..MaxRuns /\ svc.gen \in Nat
  BY DEF BackupInv, BackupsTypeOK
<1> QED BY <1>1, <1>2, <1>3, BoundsAre

\* Nothing is under way while the agent is down.
LEMMA Up ==
  ASSUME BackupInv, NEW i \in Ids, jobs[i].pc # "none" \/ acts[i].pc # "none"
  PROVE  agent = "up"
<1>1. agent = "down" => jobs[i] = NoJob /\ acts[i] = NoAct
  BY DEF BackupInv, Stopped
<1>2. NoJob.pc = "none" /\ NoAct.pc = "none"
  BY DEF NoJob, NoAct
<1> QED BY <1>1, <1>2, Typed

\* What there is where there is nothing.
LEMMA NothingIs ==
  /\ NoRow \in RowSet /\ NoJob \in JobSet /\ NoAct \in ActSet
  /\ NoRow.status = "none" /\ NoRow.activity = "" /\ NoRow.owner = "app" /\ NoRow.vols = {} /\ ~NoRow.restored
  /\ NoJob.pc = "none" /\ NoAct.pc = "none"
<1>1. NoRow \in RowSet
  BY DEF NoRow, RowSet
<1>2. <<>> \in Seq(Names)
  OBVIOUS
<1>3. NoJob \in JobSet
  BY <1>2 DEF NoJob, JobSet
<1>4. NoAct \in ActSet
  BY <1>2 DEF NoAct, ActSet
<1> QED BY <1>1, <1>3, <1>4 DEF NoRow, NoJob, NoAct

\* What an invariant of a record says once it is written: its removal, or the
\* same record with another activity.
Rewritten(row, id) ==
  /\ row \in RowSet
  /\ \/ row = NoRow
     \/ /\ row.status = rows[id].status /\ row.owner = rows[id].owner /\ row.vols = rows[id].vols
        /\ row.status = "none" => row.activity = ""

\* A record that no backup is being taken of can be written or removed, and
\* the files of one whose removal was decided can go.
LEMMA RowIsWritten ==
  ASSUME BackupInv, NEW id \in Ids, NEW row, Rewritten(row, id), NEW kept \in SUBSET files[id],
         rows' = [rows EXCEPT ![id] = row], files' = [files EXCEPT ![id] = kept],
         rows[id].status # "running",
         going \subseteq going', id \in going' \/ kept = files[id],
         UNCHANGED <<seq, prepared, copies, made, mistaken>>, \A i \in Ids : Active(i)' => jobs'[i] = jobs[i]
  PROVE  Rows' /\ Copies' /\ Made' /\ Running' /\ Reserved' /\ Taking' /\ (UNCHANGED jobs => Pruning')
<1>0. /\ NoRow.status = "none" /\ NoRow.activity = "" /\ NoRow.owner = "app" /\ NoRow.vols = {}
  BY NothingIs
<1>1. /\ rows'[id] = row /\ files'[id] = kept
      /\ \A i \in Ids : i # id => rows'[i] = rows[i] /\ files'[i] = files[i]
      /\ \A i \in Ids : files'[i] \subseteq files[i] /\ (i \notin going' => files'[i] = files[i] /\ i \notin going)
      /\ \A i \in Ids : rows'[i].status = "running" <=> rows[i].status = "running"
  BY <1>0, Typed DEF Rewritten
<1>2. Rows'
  <2>1. SUFFICES ASSUME NEW i \in Ids PROVE RowFits(i, rows[i], seq)'
    BY DEF Rows
  <2>2. RowFits(i, rows[i], seq)
    BY DEF BackupInv, Rows
  <2>3. CASE i # id
    BY <1>1, <2>2, <2>3 DEF RowFits, Readable
  <2>4. CASE i = id /\ row = NoRow
    BY <1>0, <1>1, <2>4 DEF RowFits
  <2>5. CASE i = id /\ row # NoRow
    <3>1. /\ row.status = rows[id].status /\ row.owner = rows[id].owner /\ row.vols = rows[id].vols
          /\ row.status \in {"none", "running"} => row.activity = ""
      BY <2>5 DEF Rewritten
    <3>2. id \notin going' => files'[id] = files[id] /\ id \notin going
      BY <1>1
    <3>3. \A v : id \notin going' => (Readable(id, v)' <=> Readable(id, v))
      BY <3>2 DEF Readable
    <3>4. rows'[i] = row /\ i = id /\ UNCHANGED seq
      BY <1>1, <2>5
    <3> QED BY <2>2, <3>1, <3>2, <3>3, <3>4 DEF RowFits
  <2> QED BY <2>3, <2>4, <2>5
<1>3. Copies'
  <2>1. SUFFICES ASSUME NEW k \in Ids, NEW i \in Ids
                 PROVE  RowFits(i, copies[k].rows[i], copies[k].seq)'
    BY DEF Copies
  <2> QED BY ZenonT(60), <1>1, <2>1 DEF BackupInv, Copies, RowFits, Readable
<1>4. Made'
  BY <1>1 DEF BackupInv, Made, Readable
<1>5. Running'
  BY <1>1 DEF BackupInv, Running
<1>6. Reserved'
  BY <1>1 DEF BackupInv, Reserved
<1>7. Taking'
  <2>1. SUFFICES ASSUME NEW i \in Ids, Active(i)
                 PROVE  /\ rows'[i] = rows[i] /\ rows[i].status = "running" /\ FoundFiles(i)' = FoundFiles(i)
                        /\ files'[i] = files[i] /\ \A v : Readable(i, v)' <=> Readable(i, v)
    <3>1. \A i \in Ids : Active(i)' => Active(i) /\ jobs'[i] = jobs[i]
      BY DEF Active
    <3>2. \A o : FilesOf(o)' = FilesOf(o)
      BY DEF FilesOf
    <3> QED BY <2>1, <3>1, <3>2 DEF BackupInv, Taking
  <2>2. rows[i].status = "running"
    BY <2>1 DEF BackupInv, Taking
  <2> QED BY <1>1, <2>2 DEF FoundFiles, Readable
<1>8. UNCHANGED jobs => Pruning'
  BY <1>1 DEF BackupInv, Pruning
<1> QED BY <1>2, <1>3, <1>4, <1>5, <1>6, <1>7, <1>8

\* Whoever writes a record so changes nothing of the lock but with acts.
LEMMA HoldersStay ==
  ASSUME BackupInv, NEW id \in Ids, NEW row, Rewritten(row, id),
         rows' = [rows EXCEPT ![id] = row], rows[id].status # "running",
         \A i \in Ids : jobs'[i].pc = jobs[i].pc \/ (~Active(i) /\ ~Active(i)')
  PROVE  \A i \in Ids : HoldsLock(i)' <=> HoldsLock(i)
<1>1. \A i \in Ids : i # id => rows'[i] = rows[i]
  BY Typed
<1>2. ~Active(id)
  BY DEF BackupInv, Taking
<1> QED BY <1>1, <1>2 DEF HoldsLock, Active

\* The lock stays, or a restore takes it or lets it go.
LockGoes(act, id) ==
  \/ UNCHANGED lock /\ act.pc # "import"
  \/ lock = "free" /\ lock' = "restore" /\ svc.desired = "stopped" /\ ~svc.up
  \/ lock = "restore" /\ lock' = "free" /\ acts[id].pc = "import" /\ act.pc # "import"

\* What the goroutine relies on that does something with a backup.
GoesOn(act, row, id) ==
  /\ act.pc # "none" => id <= seq
  /\ act.pc \in {"files", "row"} => id \in going'
  /\ act.pc = "import" => act.left # <<>>
  /\ row.activity = "restore" => act.pc \in {"restore", "import"}
  /\ row.restored /\ row.activity # "restore" => row.vols \subseteq put'[id] \/ used.restores > 0
  /\ used.restores = 0 /\ act.pc \in {"restore", "import"} =>
       FoundFiles(id) \cup row.vols \subseteq put'[id] \cup ToSet(act.left)

\* A step of that goroutine, with what it writes.
LEMMA ActStep ==
  ASSUME BackupInv, NEW id \in Ids, NEW row, Rewritten(row, id), NEW kept \in SUBSET files[id], NEW act \in ActSet,
         rows' = [rows EXCEPT ![id] = row], files' = [files EXCEPT ![id] = kept], acts' = [acts EXCEPT ![id] = act],
         rows[id].status # "running", agent = "up",
         going \subseteq going', going' \subseteq Ids, id \in going' \/ kept = files[id],
         UNCHANGED <<agent, svc, jobs, seq, prepared, adopt, due, copies, made, mistaken, read>>, UsedSame,
         data' \in [ToSet(Volumes) -> Ids \cup {Live, Emptied}],
         put' \in [Ids -> SUBSET Names], \A i \in Ids \ {id} : put'[i] = put[i],
         LockGoes(act, id), GoesOn(act, row, id)
  PROVE  BackupInv'
<1>0. Rows' /\ Copies' /\ Made' /\ Running' /\ Reserved' /\ Taking' /\ Pruning'
  BY RowIsWritten
<1>1. /\ rows'[id] = row /\ files'[id] = kept /\ acts'[id] = act
      /\ \A i \in Ids : i # id => rows'[i] = rows[i] /\ files'[i] = files[i] /\ acts'[i] = acts[i]
      /\ rows' \in [Ids -> RowSet] /\ files' \in [Ids -> SUBSET (Places \X Names)] /\ acts' \in [Ids -> ActSet]
  BY Typed DEF Rewritten
<1>2. BackupsTypeOK'
  <2>1. lock' \in {"free", "backup", "restore"}
    BY DEF LockGoes, BackupInv, BackupsTypeOK
  <2>2. \A i \in Ids : rows'[i].status # "succeeded" => rows'[i].vols = {}
    BY <1>0 DEF Rows, RowFits
  <2> QED BY <1>1, <2>1, <2>2 DEF BackupInv, BackupsTypeOK, RowSet
<1>3. WorkTyped'
  BY <1>1 DEF BackupInv, WorkTyped, UsedSame
<1>4. Stopped'
  BY DEF BackupInv, Stopped
<1>5. Locked'
  <2>1. \A i \in Ids : HoldsLock(i)' <=> HoldsLock(i)
    BY HoldersStay
  <2>2. /\ \A i \in Ids : HoldsLock(i) => lock = "backup"
        /\ \A i \in Ids : acts[i].pc = "import" => lock = "restore"
        /\ lock = "restore" => svc.desired = "stopped" /\ ~svc.up
    BY DEF BackupInv, Locked
  <2>3. CASE UNCHANGED lock /\ act.pc # "import"
    BY <1>1, <2>1, <2>3 DEF BackupInv, Locked
  <2>4. CASE lock = "free" /\ lock' = "restore" /\ svc.desired = "stopped" /\ ~svc.up
    BY <1>1, <2>1, <2>2, <2>4 DEF Locked
  <2>5. CASE lock = "restore" /\ lock' = "free" /\ acts[id].pc = "import" /\ act.pc # "import"
    <3>1. \A i \in Ids : acts'[i].pc # "import"
      BY <1>1, <2>5 DEF BackupInv, Locked
    <3> QED BY <2>1, <2>2, <2>5, <3>1 DEF Locked
  <2> QED BY <2>3, <2>4, <2>5 DEF LockGoes
<1>6. ReadOnce'
  BY Frames
<1>7. Claimed'
  <2>1. row.status # "running"
    BY NothingIs DEF Rewritten
  <2> QED BY <1>1, <2>1 DEF BackupInv, Claimed, GoesOn
<1>8. Restoring'
  <2>1. SUFFICES ASSUME used.restores = 0, NEW i \in Ids
                 PROVE  /\ rows'[i].status = "succeeded" => FoundFiles(i)' \subseteq rows'[i].vols
                        /\ acts'[i].pc \in {"restore", "import"} =>
                             FoundFiles(i)' \cup rows'[i].vols \subseteq put'[i] \cup ToSet(acts'[i].left)
    BY DEF Restoring, UsedSame
  <2>2. FoundFiles(i)' \subseteq FoundFiles(i)
    BY <1>1 DEF FoundFiles
  <2>3. /\ rows[i].status = "succeeded" => FoundFiles(i) \subseteq rows[i].vols
        /\ acts[i].pc \in {"restore", "import"} =>
             FoundFiles(i) \cup rows[i].vols \subseteq put[i] \cup ToSet(acts[i].left)
    BY <2>1 DEF BackupInv, Restoring
  <2>4. CASE i # id
    BY <1>1, <2>2, <2>3, <2>4
  <2>5. CASE i = id
    <3>1. row.status = "succeeded" => rows[id].status = "succeeded" /\ row.vols = rows[id].vols
      BY NothingIs DEF Rewritten
    <3>2. act.pc \in {"restore", "import"} => FoundFiles(id) \cup row.vols \subseteq put'[id] \cup ToSet(act.left)
      BY <2>1 DEF GoesOn
    <3> QED BY <1>1, <2>2, <2>3, <2>5, <3>1, <3>2
  <2> QED BY <2>4, <2>5
<1>9. RestoreTruthful'
  BY <1>1 DEF BackupInv, RestoreTruthful, UsedSame, GoesOn
<1> QED BY <1>0, <1>2, <1>3, <1>4, <1>5, <1>6, <1>7, <1>8, <1>9 DEF BackupInv

\* What is known of a backup something is done with.
LEMMA ActIs ==
  ASSUME BackupInv, NEW id \in Ids, acts[id].pc # "none"
  PROVE  /\ agent = "up" /\ id <= seq /\ rows[id].status # "running"
         /\ acts[id].pc \in {"files", "row"} => id \in going
BY Up DEF BackupInv, Claimed

\* What is removed of the files of a backup.
LEMMA RemovedIs ==
  ASSUME BackupInv, NEW id \in Ids, NEW ok, NEW left \in Remains(id, ok), Removed(id, ok, left)
  PROVE  \E kept \in SUBSET files[id] : files' = [files EXCEPT ![id] = kept]
<1>1. files' = [files EXCEPT ![id] = IF ok THEN {} ELSE files[id] \cap left]
  BY Typed DEF Removed
<1> QED BY <1>1

\* DeleteBackup, its files and its record.
LEMMA DeleteSteps ==
  ASSUME BackupInv, NEW id \in Ids, DeleteBackup(id) \/ DeleteFiles(id) \/ DeleteRow(id)
  PROVE  BackupInv'
<1>0. /\ data \in [ToSet(Volumes) -> Ids \cup {Live, Emptied}] /\ put \in [Ids -> SUBSET Names] /\ going \subseteq Ids
      /\ RestoreTruthful
  BY DEF BackupInv, BackupsTypeOK, WorkTyped
<1>1. CASE DeleteBackup(id)
  <2> DEFINE row == [rows[id] EXCEPT !.activity = "remove"]
             act == [acts[id] EXCEPT !.pc = "files"]
  <2>1. /\ rows[id].status \in {"succeeded", "failed"} /\ Rewritten(row, id)
        /\ rows' = [rows EXCEPT ![id] = row] /\ going' = going \cup {id} /\ files' = [files EXCEPT ![id] = files[id]]
        /\ row.restored = rows[id].restored /\ row.vols = rows[id].vols /\ row.activity = "remove" /\ rows[id].activity = ""
    BY <1>1, Typed DEF DeleteBackup, Claim, RowSet, Rewritten
  <2>2. UsedSame
    BY <1>1, CallIs DEF DeleteBackup, BackupInv
  <2>3. act \in ActSet /\ act.pc = "files" /\ acts' = [acts EXCEPT ![id] = act]
    BY <1>1, Typed DEF DeleteBackup, ActSet
  <2>4. id <= seq
    BY <2>1 DEF BackupInv, Rows, RowFits
  <2> HIDE DEF row, act
  <2>5. LockGoes(act, id) /\ GoesOn(act, row, id)
    BY <1>0, <1>1, <2>1, <2>3, <2>4 DEF LockGoes, GoesOn, DeleteBackup, RestoreTruthful
  <2> QED BY <1>0, <1>1, <2>1, <2>2, <2>3, <2>5, ActStep DEF DeleteBackup
<1>2. CASE DeleteFiles(id)
  <2>1. PICK ok \in BOOLEAN :
          /\ Call(ok)
          /\ IF rows[id].status = "failed" THEN ok /\ UNCHANGED files
             ELSE \E left \in Remains(id, ok) : Removed(id, ok, left)
          /\ rows' = IF ok THEN rows ELSE [rows EXCEPT ![id].activity = ""]
          /\ acts' = [acts EXCEPT ![id] = IF ok THEN [@ EXCEPT !.pc = "row"] ELSE NoAct]
    BY <1>2 DEF DeleteFiles
  <2>2. UsedSame
    BY <2>1, CallIs DEF BackupInv
  <2>3. PICK kept \in SUBSET files[id] : files' = [files EXCEPT ![id] = kept]
    <3>1. CASE rows[id].status = "failed"
      BY <2>1, <3>1, Typed
    <3>2. CASE rows[id].status # "failed"
      BY <2>1, <3>2, RemovedIs
    <3> QED BY <3>1, <3>2
  <2>4. /\ agent = "up" /\ id <= seq /\ rows[id].status # "running" /\ id \in going
    BY <1>2, ActIs DEF DeleteFiles
  <2> DEFINE row == IF ok THEN rows[id] ELSE [rows[id] EXCEPT !.activity = ""]
             act == IF ok THEN [acts[id] EXCEPT !.pc = "row"] ELSE NoAct
  <2>5. act \in ActSet /\ act.pc \in {"row", "none"} /\ acts' = [acts EXCEPT ![id] = act]
    BY NothingIs, <2>1, Typed DEF ActSet
  <2>6. /\ Rewritten(row, id) /\ rows' = [rows EXCEPT ![id] = row] /\ row.vols = rows[id].vols
        /\ row.restored = rows[id].restored /\ (ok => row = rows[id])
        /\ row.activity = "" \/ ok
    <3>1. CASE ok
      BY <2>1, <3>1, Typed DEF Rewritten, BackupInv, Rows, RowFits
    <3>2. CASE ~ok
      BY <2>1, <3>2, Typed DEF Rewritten, RowSet
    <3> QED BY <3>1, <3>2
  <2> HIDE DEF row, act
  <2>7. row.activity # "restore"
    BY <1>2, <2>4, <2>6 DEF BackupInv, Claimed, DeleteFiles
  <2>8. row.restored => row.vols \subseteq put[id] \/ used.restores > 0
    <3>1. rows[id].activity # "restore"
      BY <1>2, <2>4 DEF BackupInv, Claimed, DeleteFiles
    <3> QED BY <1>0, <2>6, <3>1 DEF RestoreTruthful
  <2>9. LockGoes(act, id) /\ GoesOn(act, row, id)
    BY <1>2, <2>4, <2>5, <2>7, <2>8 DEF LockGoes, GoesOn, DeleteFiles, history
  <2> QED BY <1>0, <1>2, <2>2, <2>3, <2>4, <2>5, <2>6, <2>9, ActStep DEF DeleteFiles, history
<1>3. CASE DeleteRow(id)
  <2>1. UsedSame
    BY <1>3, CallIs DEF BackupInv, DeleteRow
  <2>2. /\ agent = "up" /\ id <= seq /\ rows[id].status # "running"
    BY <1>3, ActIs DEF DeleteRow
  <2>3. Rewritten(NoRow, id)
    BY NothingIs DEF Rewritten
  <2>4. LockGoes(NoAct, id) /\ GoesOn(NoAct, NoRow, id)
    BY <1>3, NothingIs DEF LockGoes, GoesOn, DeleteRow
  <2>5. files' = [files EXCEPT ![id] = files[id]]
    BY <1>3, Typed DEF DeleteRow
  <2> QED BY <1>0, <1>3, <2>1, <2>2, <2>3, <2>4, <2>5, NothingIs, ActStep DEF DeleteRow, history
<1> QED BY <1>1, <1>2, <1>3

\* VerifyBackup, its archives and its end.
LEMMA VerifySteps ==
  ASSUME BackupInv, NEW id \in Ids, VerifyBackup(id) \/ Verify(id) \/ FinishVerify(id)
  PROVE  BackupInv'
<1>0. /\ data \in [ToSet(Volumes) -> Ids \cup {Live, Emptied}] /\ put \in [Ids -> SUBSET Names] /\ going \subseteq Ids
      /\ RestoreTruthful
  BY DEF BackupInv, BackupsTypeOK, WorkTyped
<1>00. UsedSame
  <2>1. CASE VerifyBackup(id)
    BY <2>1, CallIs DEF VerifyBackup, BackupInv
  <2>2. CASE Verify(id)
    BY <2>2, CallIs DEF Verify, BackupInv
  <2>3. CASE FinishVerify(id)
    BY <2>3, CallIs DEF FinishVerify, BackupInv
  <2> QED BY <2>1, <2>2, <2>3
<1>01. files' = [files EXCEPT ![id] = files[id]]
  BY Typed DEF VerifyBackup, Verify, FinishVerify
<1>1. CASE VerifyBackup(id)
  <2> DEFINE row == [rows[id] EXCEPT !.activity = "verify"]
             act == [pc |-> "verify", left |-> SetToSeq(rows[id].vols)]
  <2>1. /\ rows[id].status = "succeeded" /\ Rewritten(row, id) /\ rows' = [rows EXCEPT ![id] = row]
        /\ row.restored = rows[id].restored /\ row.vols = rows[id].vols /\ row.activity = "verify" /\ rows[id].activity = ""
    BY <1>1, Typed DEF VerifyBackup, Claim, RowSet, Rewritten
  <2>2. rows[id].vols \in SUBSET Names
    BY Typed DEF RowSet
  <2>3. act \in ActSet /\ act.pc = "verify" /\ acts' = [acts EXCEPT ![id] = act]
    <3>1. SetToSeq(rows[id].vols) \in Seq(Names)
      BY <2>2, SetToSeqIs, NamesAre, FS_Subset
    <3> QED BY <1>1, <3>1 DEF VerifyBackup, ActSet
  <2>4. id <= seq
    BY <2>1 DEF BackupInv, Rows, RowFits
  <2> HIDE DEF row, act
  <2>5. LockGoes(act, id) /\ GoesOn(act, row, id)
    BY <1>0, <1>1, <2>1, <2>3, <2>4 DEF LockGoes, GoesOn, VerifyBackup, RestoreTruthful, history
  <2> QED BY <1>0, <1>00, <1>01, <1>1, <2>1, <2>3, <2>5, ActStep DEF VerifyBackup, history
<1>2. CASE Verify(id)
  <2>1. PICK ok \in BOOLEAN :
          IF ok THEN acts' = [acts EXCEPT ![id].left = Tail(@)] /\ UNCHANGED rows
          ELSE acts' = [acts EXCEPT ![id] = NoAct] /\ rows' = [rows EXCEPT ![id].activity = ""]
    BY <1>2 DEF Verify
  <2>2. /\ agent = "up" /\ id <= seq /\ rows[id].status # "running" /\ rows[id].activity # "restore"
    BY <1>2, ActIs DEF Verify, BackupInv, Claimed
  <2> DEFINE row == IF ok THEN rows[id] ELSE [rows[id] EXCEPT !.activity = ""]
             act == IF ok THEN [acts[id] EXCEPT !.left = Tail(@)] ELSE NoAct
  <2>3. act \in ActSet /\ act.pc \in {"verify", "none"} /\ acts' = [acts EXCEPT ![id] = act]
    <3>1. Tail(acts[id].left) \in Seq(Names)
      BY <1>2, Typed, TailIs DEF Verify, ActSet
    <3> QED BY <1>2, <2>1, <3>1, NothingIs, Typed DEF ActSet, Verify
  <2>4. /\ Rewritten(row, id) /\ rows' = [rows EXCEPT ![id] = row] /\ row.vols = rows[id].vols
        /\ row.restored = rows[id].restored /\ row.activity # "restore"
    <3>1. CASE ok
      BY <2>1, <2>2, <3>1, Typed DEF Rewritten, BackupInv, Rows, RowFits
    <3>2. CASE ~ok
      BY <2>1, <3>2, Typed DEF Rewritten, RowSet
    <3> QED BY <3>1, <3>2
  <2> HIDE DEF row, act
  <2>5. LockGoes(act, id) /\ GoesOn(act, row, id)
    BY <1>0, <1>2, <2>2, <2>3, <2>4 DEF LockGoes, GoesOn, Verify, history, RestoreTruthful
  <2> QED BY <1>0, <1>00, <1>01, <1>2, <2>2, <2>3, <2>4, <2>5, ActStep DEF Verify, history
<1>3. CASE FinishVerify(id)
  <2> DEFINE row == [rows[id] EXCEPT !.activity = ""]
  <2>1. /\ agent = "up" /\ id <= seq /\ rows[id].status # "running" /\ rows[id].activity # "restore"
    BY <1>3, ActIs DEF FinishVerify, BackupInv, Claimed
  <2>2. /\ Rewritten(row, id) /\ rows' = [rows EXCEPT ![id] = row] /\ row.vols = rows[id].vols
        /\ row.restored = rows[id].restored /\ row.activity = ""
    BY <1>3, Typed DEF Rewritten, RowSet, FinishVerify
  <2> HIDE DEF row
  <2>3. LockGoes(NoAct, id) /\ GoesOn(NoAct, row, id)
    BY <1>0, <1>3, <2>1, <2>2, NothingIs DEF LockGoes, GoesOn, FinishVerify, history, RestoreTruthful
  <2> QED BY <1>0, <1>00, <1>01, <1>3, <2>1, <2>2, <2>3, NothingIs, ActStep DEF FinishVerify, history
<1> QED BY <1>1, <1>2, <1>3

\* RestoreBackup, its volumes and its end.
LEMMA RestoreSteps ==
  ASSUME BackupInv, NEW id \in Ids,
         RestoreBackup(id) \/ RestoreEmpty(id) \/ RestoreImport(id) \/ FinishRestore(id)
  PROVE  BackupInv'
<1>0. /\ data \in [ToSet(Volumes) -> Ids \cup {Live, Emptied}] /\ put \in [Ids -> SUBSET Names] /\ going \subseteq Ids
      /\ RestoreTruthful /\ \A i \in Ids : RowFits(i, rows[i], seq)
  BY DEF BackupInv, BackupsTypeOK, WorkTyped, Rows
<1>00. UsedSame
  <2>1. CASE RestoreBackup(id)
    BY <2>1, CallIs DEF RestoreBackup, BackupInv
  <2>2. CASE RestoreEmpty(id)
    BY <2>2, CallIs DEF RestoreEmpty, BackupInv
  <2>3. CASE RestoreImport(id)
    BY <2>3, CallIs DEF RestoreImport, BackupInv
  <2>4. CASE FinishRestore(id)
    BY <2>4, CallIs DEF FinishRestore, BackupInv
  <2> QED BY <2>1, <2>2, <2>3, <2>4
<1>01. files' = [files EXCEPT ![id] = files[id]]
  BY Typed DEF RestoreBackup, RestoreEmpty, RestoreImport, FinishRestore
<1>1. CASE RestoreBackup(id)
  <2> DEFINE row == [rows[id] EXCEPT !.activity = "restore"]
             act == [pc |-> "restore", left |-> SetToSeq(rows[id].vols)]
  <2>1. /\ rows[id].status = "succeeded" /\ Rewritten(row, id) /\ rows' = [rows EXCEPT ![id] = row]
        /\ row.vols = rows[id].vols /\ row.activity = "restore"
    BY <1>1, Typed DEF RestoreBackup, Claim, RowSet, Rewritten
  <2>2. SetToSeq(rows[id].vols) \in Seq(Names) /\ ToSet(SetToSeq(rows[id].vols)) = rows[id].vols
    <3>1. rows[id].vols \in SUBSET Names
      BY Typed DEF RowSet
    <3> QED BY <3>1, SetToSeqIs, NamesAre, FS_Subset
  <2>3. act \in ActSet /\ act.pc = "restore" /\ act.left = SetToSeq(rows[id].vols) /\ acts' = [acts EXCEPT ![id] = act]
    BY <1>1, <2>2 DEF RestoreBackup, ActSet
  <2>4. id <= seq
    BY <1>0, <2>1 DEF RowFits
  <2>5. put' \in [Ids -> SUBSET Names] /\ \A i \in Ids \ {id} : put'[i] = put[i]
    BY <1>0, <1>1 DEF RestoreBackup
  <2>6. used.restores = 0 => FoundFiles(id) \subseteq rows[id].vols
    BY <2>1 DEF BackupInv, Restoring
  <2> HIDE DEF row, act
  <2>7. LockGoes(act, id) /\ GoesOn(act, row, id)
    BY <1>1, <2>1, <2>2, <2>3, <2>4, <2>6 DEF LockGoes, GoesOn, RestoreBackup
  <2> QED BY <1>0, <1>00, <1>01, <1>1, <2>1, <2>3, <2>5, <2>7, ActStep DEF RestoreBackup
<1>02. ASSUME NEW ok \in BOOLEAN, acts[id].pc \in {"restore", "import"}, RestoreEnds(id, ok), UNCHANGED <<put, going, mistaken>>,
              ok => acts[id].left = <<>>, UNCHANGED lock \/ (lock = "restore" /\ lock' = "free" /\ acts[id].pc = "import")
       PROVE  \E row : /\ Rewritten(row, id) /\ rows' = [rows EXCEPT ![id] = row] /\ acts' = [acts EXCEPT ![id] = NoAct]
                       /\ LockGoes(NoAct, id) /\ GoesOn(NoAct, row, id)
  <2> DEFINE row == IF rows[id].status = "none" THEN rows[id] ELSE [rows[id] EXCEPT !.activity = "", !.restored = ok]
  <2>1. /\ Rewritten(row, id) /\ rows' = [rows EXCEPT ![id] = row] /\ row.vols = rows[id].vols /\ row.activity = ""
        /\ row.restored => ok \/ (rows[id].restored /\ row = rows[id])
    <3>1. CASE rows[id].status = "none"
      BY <1>0, <1>02, <3>1, Typed DEF Rewritten, RestoreEnds, RowFits
    <3>2. CASE rows[id].status # "none"
      BY <1>02, <3>2, Typed DEF Rewritten, RestoreEnds, RowSet
    <3> QED BY <3>1, <3>2
  <2>2. acts' = [acts EXCEPT ![id] = NoAct]
    BY <1>02 DEF RestoreEnds
  <2> HIDE DEF row
  <2>3. LockGoes(NoAct, id)
    BY <1>02, NothingIs DEF LockGoes
  <2>4. ok /\ used.restores = 0 => rows[id].vols \subseteq put[id]
    BY <1>02, TailIs, Typed DEF BackupInv, Restoring, ActSet
  <2>5. used.restores \in Nat
    BY DEF BackupInv, WorkTyped
  <2>6. GoesOn(NoAct, row, id)
    <3>1. ASSUME row.restored PROVE row.vols \subseteq put[id] \/ used.restores > 0
      <4>1. CASE ok
        <5>1. used.restores = 0 \/ used.restores > 0
          BY <2>5
        <5>2. rows[id].vols \subseteq put[id] \/ used.restores > 0
          BY <2>4, <4>1, <5>1
        <5> QED BY <2>1, <5>2
      <4>2. CASE ~ok
        BY <1>0, <2>1, <3>1, <4>2 DEF RestoreTruthful
      <4> QED BY <4>1, <4>2
    <3> QED BY <1>02, <2>1, <3>1, NothingIs DEF GoesOn
  <2> QED BY <2>1, <2>2, <2>3, <2>6
<1>2. CASE RestoreEmpty(id)
  <2> DEFINE v == Head(acts[id].left)
  <2>1. PICK ok \in BOOLEAN :
          /\ ok => Readable(id, v) /\ Restorable(id)
          /\ IF ok THEN /\ lock' = "restore" /\ data' = [data EXCEPT ![v] = Emptied]
                        /\ acts' = [acts EXCEPT ![id].pc = "import"] /\ UNCHANGED rows
             ELSE RestoreEnds(id, FALSE) /\ UNCHANGED <<lock, data>>
    BY <1>2 DEF RestoreEmpty
  <2>2. /\ agent = "up" /\ id <= seq /\ rows[id].status # "running"
    BY <1>2, ActIs DEF RestoreEmpty
  <2>3. CASE ~ok
    <3>1. PICK row : /\ Rewritten(row, id) /\ rows' = [rows EXCEPT ![id] = row] /\ acts' = [acts EXCEPT ![id] = NoAct]
                     /\ LockGoes(NoAct, id) /\ GoesOn(NoAct, row, id)
      BY <1>2, <1>02, <2>1, <2>3 DEF RestoreEmpty, history
    <3> QED BY <1>0, <1>00, <1>01, <1>2, <2>1, <2>2, <2>3, <3>1, NothingIs, ActStep DEF RestoreEmpty, history
  <2>4. CASE ok
    <3> DEFINE act == [acts[id] EXCEPT !.pc = "import"]
    <3>1. act \in ActSet /\ act.pc = "import" /\ act.left = acts[id].left /\ acts' = [acts EXCEPT ![id] = act]
      BY <2>1, <2>4, Typed DEF ActSet
    <3>2. Rewritten(rows[id], id) /\ rows' = [rows EXCEPT ![id] = rows[id]]
      BY <1>0, <2>1, <2>4, Typed DEF Rewritten, RowFits
    <3>3. LockGoes(act, id)
      BY <2>1, <2>4, <3>1 DEF LockGoes, Restorable
    <3>4. GoesOn(act, rows[id], id)
      BY <1>0, <1>2, <2>2, <3>1 DEF GoesOn, RestoreTruthful, RestoreEmpty, history, BackupInv, Restoring
    <3>5. data' \in [ToSet(Volumes) -> Ids \cup {Live, Emptied}]
      BY <1>0, <2>1, <2>4
    <3> HIDE DEF act
    <3> QED BY <1>0, <1>00, <1>01, <1>2, <2>2, <3>1, <3>2, <3>3, <3>4, <3>5, ActStep DEF RestoreEmpty, history
  <2> QED BY <2>3, <2>4
<1>3. CASE RestoreImport(id)
  <2> DEFINE v == Head(acts[id].left)
  <2>1. PICK ok \in BOOLEAN :
          IF ok THEN /\ data' = [data EXCEPT ![v] = id] /\ put' = [put EXCEPT ![id] = @ \cup {v}]
                     /\ acts' = [acts EXCEPT ![id] = [pc |-> "restore", left |-> Tail(@.left)]]
                     /\ UNCHANGED rows
          ELSE ImportFailed(id) /\ UNCHANGED <<data, put>>
    BY <1>3 DEF RestoreImport
  <2>2. /\ agent = "up" /\ id <= seq /\ rows[id].status # "running"
    BY <1>3, ActIs DEF RestoreImport
  <2>3. acts[id].pc = "import" /\ lock = "restore" /\ lock' = "free" /\ acts[id].left # <<>> /\ acts[id].left \in Seq(Names)
    BY <1>3, Typed DEF RestoreImport, BackupInv, Locked, Claimed, ActSet
  <2>4. CASE ~ok
    <3>1. PICK row : /\ Rewritten(row, id) /\ rows' = [rows EXCEPT ![id] = row] /\ acts' = [acts EXCEPT ![id] = NoAct]
                     /\ LockGoes(NoAct, id) /\ GoesOn(NoAct, row, id)
      BY <1>3, <1>02, <2>1, <2>3, <2>4 DEF RestoreImport, ImportFailed
    <3> QED BY <1>0, <1>00, <1>01, <1>3, <2>1, <2>2, <2>4, <3>1, NothingIs, ActStep DEF RestoreImport
  <2>5. CASE ok
    <3> DEFINE act == [pc |-> "restore", left |-> Tail(acts[id].left)]
    <3>0. v \in Names /\ Tail(acts[id].left) \in Seq(Names) /\ ToSet(acts[id].left) = {v} \cup ToSet(Tail(acts[id].left))
      BY <2>3, TailIs
    <3>1. act \in ActSet /\ act.pc = "restore" /\ act.left = Tail(acts[id].left) /\ acts' = [acts EXCEPT ![id] = act]
      BY <2>1, <2>5, <3>0 DEF ActSet
    <3>2. Rewritten(rows[id], id) /\ rows' = [rows EXCEPT ![id] = rows[id]]
      BY <1>0, <2>1, <2>5, Typed DEF Rewritten, RowFits
    <3>3. LockGoes(act, id)
      BY <2>3, <3>1 DEF LockGoes
    <3> HIDE DEF v
    <3>4. /\ put' \in [Ids -> SUBSET Names] /\ \A i \in Ids \ {id} : put'[i] = put[i]
          /\ put'[id] = put[id] \cup {v}
      BY <1>0, <2>1, <2>5, <3>0
    <3>5. used.restores = 0 => FoundFiles(id) \cup rows[id].vols \subseteq put[id] \cup ToSet(acts[id].left)
      BY <2>3 DEF BackupInv, Restoring
    <3>6. GoesOn(act, rows[id], id)
      BY <1>0, <2>2, <3>0, <3>1, <3>4, <3>5 DEF GoesOn, RestoreTruthful
    <3>7. data' \in [ToSet(Volumes) -> Ids \cup {Live, Emptied}]
      BY <1>0, <2>1, <2>5
    <3> HIDE DEF act
    <3> QED BY <1>0, <1>00, <1>01, <1>3, <2>2, <3>1, <3>2, <3>3, <3>4, <3>6, <3>7, ActStep DEF RestoreImport
  <2> QED BY <2>4, <2>5
<1>4. CASE FinishRestore(id)
  <2>1. PICK row : /\ Rewritten(row, id) /\ rows' = [rows EXCEPT ![id] = row] /\ acts' = [acts EXCEPT ![id] = NoAct]
                   /\ LockGoes(NoAct, id) /\ GoesOn(NoAct, row, id)
    BY <1>4, <1>02 DEF FinishRestore, history
  <2>2. /\ agent = "up" /\ rows[id].status # "running"
    BY <1>4, ActIs DEF FinishRestore
  <2> QED BY <1>0, <1>00, <1>01, <1>4, <2>1, <2>2, NothingIs, ActStep DEF FinishRestore, history
<1> QED BY <1>1, <1>2, <1>3, <1>4

\* A firing, and what AdoptBackups knows.
LEMMA ClockSteps ==
  ASSUME BackupInv, FallsDue \/ AdoptIds
  PROVE  BackupInv'
<1>1. UsedSame
  BY CallIs DEF FallsDue, AdoptIds, BackupInv
<1>2. UNCHANGED <<agent, lock, svc, data, rows, seq, prepared, files, copies, jobs, acts, made, going, mistaken, read, put>>
  BY DEF FallsDue, AdoptIds, db, work, history
<1>3. WorkTyped' /\ Rows' /\ Copies' /\ Made' /\ Running' /\ Reserved' /\ Taking' /\ Locked' /\ ReadOnce' /\ Pruning'
      /\ Claimed' /\ Restoring' /\ RestoreTruthful'
  BY <1>1, <1>2, Frames
<1>4. CASE FallsDue
  <2>1. UNCHANGED adopt /\ due' = TRUE
    BY <1>4 DEF FallsDue, work
  <2>2. BackupsTypeOK'
    BY <1>2, <2>1 DEF BackupInv, BackupsTypeOK
  <2>3. Stopped'
    BY <1>2, <2>1 DEF BackupInv, Stopped
  <2> QED BY <1>3, <2>2, <2>3 DEF BackupInv
<1>5. CASE AdoptIds
  <2>1. UNCHANGED due /\ adopt' \subseteq Ids /\ prepared /\ agent = "up"
    BY <1>5 DEF AdoptIds
  <2>2. BackupsTypeOK'
    BY <1>2, <2>1 DEF BackupInv, BackupsTypeOK
  <2>3. Stopped'
    BY <1>2, <2>1 DEF BackupInv, Stopped
  <2> QED BY <1>3, <2>2, <2>3 DEF BackupInv
<1> QED BY <1>4, <1>5

\* Nobody holds a lock that is free.
LEMMA NobodyHolds ==
  ASSUME BackupInv, lock = "free"
  PROVE  \A i \in Ids : ~HoldsLock(i) /\ acts[i].pc # "import"
BY DEF BackupInv, Locked

\* Stop and Start, a deployment and the supervisor.
LEMMA ServiceSteps ==
  ASSUME BackupInv, StopOrStart \/ Deploy \/ Supervise
  PROVE  BackupInv'
<1>1. UsedSame
  BY CallIs DEF StopOrStart, Deploy, Supervise, BackupInv
<1>2. UNCHANGED <<agent, lock, rows, seq, prepared, files, copies, jobs, acts, adopt, due, made, going, mistaken, read, put>> /\ lock = "free"
  BY DEF StopOrStart, Deploy, Supervise, db, work, history
<1>3. WorkTyped' /\ Rows' /\ Copies' /\ Made' /\ Running' /\ Reserved' /\ Stopped' /\ Taking' /\ ReadOnce' /\ Pruning'
      /\ Claimed' /\ Restoring' /\ RestoreTruthful'
  BY <1>1, <1>2, Frames
<1>4. /\ svc \in [desired : {"running", "stopped"}, up : BOOLEAN, gen : Nat, excused : BOOLEAN]
      /\ data \in [ToSet(Volumes) -> Ids \cup {Live, Emptied}]
  BY DEF BackupInv, BackupsTypeOK
<1>5. /\ svc' \in [desired : {"running", "stopped"}, up : BOOLEAN, gen : Nat, excused : BOOLEAN]
      /\ svc'.desired = "running" => svc'.up
  <2>1. CASE StopOrStart
    BY <1>4, <2>1 DEF StopOrStart
  <2>2. CASE Deploy
    BY <1>4, <2>2 DEF Deploy
  <2>3. CASE Supervise
    BY <1>4, <2>3 DEF Supervise
  <2> QED BY <2>1, <2>2, <2>3
<1>6. data' \in [ToSet(Volumes) -> Ids \cup {Live, Emptied}]
  BY <1>4 DEF StopOrStart, Deploy, Supervise
<1>7. BackupsTypeOK'
  BY <1>2, <1>5, <1>6 DEF BackupInv, BackupsTypeOK
<1>8. Locked'
  <2>1. \A i \in Ids : ~HoldsLock(i)' /\ acts'[i].pc # "import"
    BY <1>2, NobodyHolds DEF HoldsLock
  <2> QED BY <1>2, <1>5, <2>1 DEF Locked
<1> QED BY <1>3, <1>7, <1>8 DEF BackupInv

\* A record for each whole run without one.
LEMMA AdoptStep ==
  ASSUME BackupInv, AdoptFiles
  PROVE  BackupInv'
<1>0. /\ agent = "up" /\ prepared /\ adopt' = NotAdopting /\ UsedSame
      /\ UNCHANGED <<agent, lock, svc, data, seq, prepared, files, copies, jobs, acts, due, made, going, mistaken, read, put>>
  BY CallIs DEF AdoptFiles, history, BackupInv, Stopped
<1>1. ASSUME NEW i \in Ids
      PROVE  \/ rows'[i] = rows[i]
             \/ /\ rows[i].status = "none" /\ files[i] # {} /\ OwnerOf(i) \in {"app", "state"}
                /\ OwnerOf(i) = "app" => FoundFiles(i) \subseteq ToSet(Volumes)
                /\ rows'[i] = Row(OwnerOf(i), "succeeded", FoundFiles(i))
  BY DEF AdoptFiles, Adoptable, Insert, OwnerOf
<1>3. ASSUME NEW i \in Ids PROVE FoundFiles(i) \in SUBSET Names /\ \A v \in FoundFiles(i) : Readable(i, v)
  BY Typed DEF FoundFiles, Readable
<1>4. ASSUME NEW i \in Ids, rows'[i] # rows[i]
      PROVE  /\ rows[i].status = "none" /\ i <= seq /\ rows'[i] \in RowSet
             /\ rows'[i].status = "succeeded" /\ rows'[i].vols = FoundFiles(i) /\ rows'[i].activity = "" /\ ~rows'[i].restored
             /\ rows'[i].owner = "app" => FoundFiles(i) \subseteq ToSet(Volumes)
  <2>1. i <= seq
    BY <1>0, <1>1, <1>4 DEF BackupInv, Reserved
  <2>2. PICK o \in {"app", "state"} : o = OwnerOf(i)
    BY <1>1, <1>4
  <2>3. rows'[i] = Row(o, "succeeded", FoundFiles(i)) /\ (o = "app" => FoundFiles(i) \subseteq ToSet(Volumes))
    BY <1>1, <1>4, <2>2
  <2>4. FoundFiles(i) \in SUBSET Names
    BY <1>3
  <2>5. /\ rows'[i] \in RowSet /\ rows'[i].status = "succeeded" /\ rows'[i].vols = FoundFiles(i)
        /\ rows'[i].activity = "" /\ ~rows'[i].restored /\ rows'[i].owner = o
    BY <2>3, <2>4 DEF Row, NoRow, RowSet
  <2> QED BY <1>1, <1>4, <2>1, <2>3, <2>5
<1>5. rows' \in [Ids -> RowSet]
  <2>1. DOMAIN rows' = Ids /\ rows' = [i \in Ids |-> rows'[i]]
    BY DEF AdoptFiles
  <2>2. \A i \in Ids : rows'[i] \in RowSet
    BY <1>4, Typed
  <2> QED BY <2>1, <2>2
<1>6. Rows'
  <2>1. SUFFICES ASSUME NEW i \in Ids PROVE RowFits(i, rows[i], seq)'
    BY DEF Rows
  <2>2. RowFits(i, rows[i], seq)
    BY DEF BackupInv, Rows
  <2>3. CASE rows'[i] = rows[i]
    BY <1>0, <2>2, <2>3 DEF RowFits, Readable
  <2>4. CASE rows'[i] # rows[i]
    BY <1>0, <1>3, <1>4, <2>4 DEF RowFits, Readable
  <2> QED BY <2>3, <2>4
<1>7. BackupsTypeOK'
  <2>1. \A i \in Ids : rows'[i].status # "succeeded" => rows'[i].vols = {}
    BY <1>6 DEF Rows, RowFits
  <2>2. adopt' \subseteq Ids \cup NotAdopting
    BY <1>0
  <2> QED BY <1>0, <1>5, <2>1, <2>2 DEF BackupInv, BackupsTypeOK, RowSet
<1>8. WorkTyped' /\ Copies' /\ Made' /\ Reserved' /\ ReadOnce'
  BY <1>0, Frames
<1>9. Running'
  BY <1>0, <1>4 DEF BackupInv, Running
<1>10. Stopped'
  BY <1>0 DEF BackupInv, Stopped
<1>11. \A i \in Ids : Active(i) => rows'[i] = rows[i]
  BY <1>4 DEF BackupInv, Taking
<1>12. Taking'
  <2>1. ASSUME NEW i \in Ids
        PROVE  (Active(i)' <=> Active(i)) /\ FoundFiles(i)' = FoundFiles(i) /\ \A v : Readable(i, v)' <=> Readable(i, v)
    BY <1>0 DEF Active, FoundFiles, Readable
  <2>2. \A o : FilesOf(o)' = FilesOf(o)
    BY DEF FilesOf
  <2> QED BY <1>0, <1>11, <2>1, <2>2 DEF BackupInv, Taking
<1>13. Locked'
  <2>1. \A i \in Ids : HoldsLock(i)' <=> HoldsLock(i)
    BY <1>0, <1>11 DEF HoldsLock, Active
  <2> QED BY <1>0, <2>1 DEF BackupInv, Locked
<1>14. Pruning'
  <2>1. \A i \in Ids : jobs[i].list \subseteq Ids
    BY Typed DEF JobSet
  <2>2. \A j \in Ids : rows[j].status # "running" => rows'[j].status # "running"
    BY <1>4
  <2>3. UNCHANGED <<jobs, seq>>
    BY <1>0
  <2> QED BY <2>1, <2>2, <2>3 DEF BackupInv, Pruning
<1>15. Claimed'
  BY <1>0, <1>4 DEF BackupInv, Claimed
<1>16. Restoring'
  <2>1. \A i \in Ids : FoundFiles(i)' = FoundFiles(i)
    BY <1>0 DEF FoundFiles
  <2>2. SUFFICES ASSUME used.restores = 0, NEW i \in Ids
                 PROVE  /\ rows'[i].status = "succeeded" => FoundFiles(i) \subseteq rows'[i].vols
                        /\ acts[i].pc \in {"restore", "import"} => FoundFiles(i) \cup rows'[i].vols \subseteq put[i] \cup ToSet(acts[i].left)
    BY <1>0, <2>1 DEF Restoring, UsedSame
  <2> QED BY <1>4, <2>2 DEF BackupInv, Restoring
<1>17. RestoreTruthful'
  BY <1>0, <1>4 DEF BackupInv, RestoreTruthful, UsedSame
<1> QED BY <1>6, <1>7, <1>8, <1>9, <1>10, <1>12, <1>13, <1>14, <1>15, <1>16, <1>17 DEF BackupInv

\* The agent is killed: what it was doing is gone, and an archive that has
\* not got its name is in the bucket only.
LEMMA StopStep ==
  ASSUME BackupInv, StopAgent
  PROVE  BackupInv'
<1>0. /\ agent' = "down" /\ lock' = "free" /\ prepared' = FALSE /\ due' = FALSE /\ adopt' = NotAdopting
      /\ jobs' = [i \in Ids |-> NoJob] /\ acts' = [i \in Ids |-> NoAct] /\ svc' = [svc EXCEPT !.excused = ~svc.up]
      /\ used' = [used EXCEPT !.stops = @ + 1]
      /\ UNCHANGED <<data, rows, seq, copies, made, going, mistaken, read, put>>
  BY DEF StopAgent, db, history
<1>1. UsedSame
  BY <1>0 DEF UsedSame, BackupInv, WorkTyped
<1>2. PICK half \in BOOLEAN :
        files' = [i \in Ids |-> IF half /\ jobs[i].pc = "archive" /\ jobs[i].left # <<>>
                                THEN files[i] \cup {<<"bucket", Head(jobs[i].left)>>} ELSE files[i]]
  BY DEF StopAgent
<1>3. ASSUME NEW i \in Ids
      PROVE  /\ files[i] \subseteq files'[i] /\ files'[i] \in SUBSET (Places \X Names)
             /\ files'[i] # files[i] => rows[i].status = "running"
  <2>1. CASE half /\ jobs[i].pc = "archive" /\ jobs[i].left # <<>>
    <3>1. Head(jobs[i].left) \in Names
      BY <2>1, Typed, TailIs DEF JobSet
    <3>2. rows[i].status = "running"
      BY <2>1 DEF BackupInv, Taking, Active
    <3> QED BY <1>2, <2>1, <3>1, <3>2, Typed DEF Places
  <2>2. CASE ~(half /\ jobs[i].pc = "archive" /\ jobs[i].left # <<>>)
    BY <1>2, <2>2, Typed
  <2> QED BY <2>1, <2>2
<1>4. files' \in [Ids -> SUBSET (Places \X Names)]
  BY <1>2, <1>3
<1>5. BackupsTypeOK'
  <2>1. svc' \in [desired : {"running", "stopped"}, up : BOOLEAN, gen : Nat, excused : BOOLEAN]
    BY <1>0 DEF BackupInv, BackupsTypeOK
  <2> QED BY <1>0, <1>4, <2>1 DEF BackupInv, BackupsTypeOK
<1>6. WorkTyped'
  BY <1>0, <1>1, NothingIs DEF BackupInv, WorkTyped, UsedSame
<1>7. Rows'
  BY <1>0, <1>3 DEF BackupInv, Rows, RowFits, Readable
<1>8. Copies'
  BY <1>0, <1>3 DEF BackupInv, Copies, RowFits, Readable
<1>9. Made'
  BY <1>0, <1>3 DEF BackupInv, Made, Readable
<1>10. Running' /\ ReadOnce' /\ RestoreTruthful'
  BY <1>0, <1>1, Frames
<1>11. Reserved' /\ Stopped'
  BY <1>0 DEF Reserved, Stopped
<1>12. \A i \in Ids : jobs'[i].pc = "none" /\ acts'[i].pc = "none"
  BY <1>0, NothingIs
<1>13. Taking' /\ Pruning'
  BY <1>12 DEF Taking, Active, Pruning
<1>14. Locked'
  <2>1. lock' = "free" /\ (svc'.up \/ svc'.excused)
    BY <1>0 DEF BackupInv, BackupsTypeOK
  <2> QED BY <1>12, <2>1 DEF Locked, HoldsLock
<1>15. Claimed'
  BY <1>0, <1>12 DEF Claimed
<1>16. Restoring'
  <2>1. SUFFICES ASSUME used.restores = 0, NEW i \in Ids, rows[i].status = "succeeded"
                 PROVE  FoundFiles(i)' \subseteq rows[i].vols
    BY <1>0, <1>1, <1>12 DEF Restoring, UsedSame
  <2>2. files'[i] = files[i]
    BY <1>3, <2>1
  <2> QED BY <2>1, <2>2 DEF BackupInv, Restoring, FoundFiles
<1> QED BY <1>5, <1>6, <1>7, <1>8, <1>9, <1>10, <1>11, <1>13, <1>14, <1>15, <1>16 DEF BackupInv

\* The highest id there are files of, and the one that is reserved.
LEMMA HighestIs ==
  ASSUME BackupInv
  PROVE  /\ Highest \in 0..MaxRuns /\ \A i \in Ids : files[i] # {} => i <= Highest
         /\ Reserve(seq) \in 0..MaxRuns /\ Reserve(seq) >= seq /\ Reserve(seq) >= Highest
<1>1. {0} \cup {i \in Ids : files[i] # {}} \in SUBSET (0..MaxRuns)
  BY BoundsAre DEF Ids
<1>2. /\ Highest \in 0..MaxRuns /\ \A i \in Ids : files[i] # {} => i <= Highest
  BY <1>1, MaxIs, BoundsAre DEF Highest
<1>3. {seq, Highest} \in SUBSET (0..MaxRuns)
  BY <1>2, Typed
<1>4. Reserve(seq) \in {seq, Highest} /\ Reserve(seq) >= seq /\ Reserve(seq) >= Highest
  BY <1>3, MaxIs, BoundsAre DEF Reserve
<1> QED BY <1>2, <1>3, <1>4

\* The rows are settled, and the files of the backups that were being taken go.
LEMMA StartStep ==
  ASSUME BackupInv, StartBackups
  PROVE  BackupInv'
<1> DEFINE half == {i \in Ids : Half(rows[i])}
<1>0. /\ agent = "down" /\ agent' = "up" /\ rows' = [i \in Ids |-> Interrupted(rows[i])]
      /\ UNCHANGED <<lock, svc, data, copies, jobs, acts, adopt, due, made, going, mistaken, read, put>>
      /\ ~prepared /\ lock = "free" /\ adopt = NotAdopting /\ \A i \in Ids : jobs[i] = NoJob /\ acts[i] = NoAct
  BY DEF StartBackups, work, history, BackupInv, Stopped
<1>1. UsedSame
  BY CallIs DEF StartBackups, BackupInv
<1>2. ASSUME NEW i \in Ids
      PROVE  /\ rows'[i] \in RowSet /\ rows'[i].status # "running" /\ rows'[i].activity = "" /\ rows'[i].owner = rows[i].owner
             /\ rows'[i].vols = IF rows[i].status = "running" THEN {} ELSE rows[i].vols
             /\ rows'[i].status = IF rows[i].status = "running" THEN "failed" ELSE rows[i].status
             /\ rows'[i].restored => rows[i].restored /\ rows[i].activity # "restore"
  <2>1. rows'[i] = Interrupted(rows[i])
    BY <1>0
  <2>2. CASE rows[i].status = "running"
    <3>0. rows[i].activity = ""
      BY <2>2 DEF BackupInv, Rows, RowFits
    <3>1. rows'[i] = Row(rows[i].owner, "failed", {})
      BY <2>1, <2>2, <3>0 DEF Interrupted
    <3>2. PICK o \in {"app", "state"} : o = rows[i].owner
      BY Typed DEF RowSet
    <3>3. /\ rows'[i] \in RowSet /\ rows'[i].status = "failed" /\ rows'[i].activity = "" /\ rows'[i].owner = o
          /\ rows'[i].vols = {} /\ ~rows'[i].restored
      BY <3>1, <3>2 DEF Row, NoRow, RowSet
    <3> QED BY <2>2, <3>2, <3>3
  <2>3. CASE rows[i].status # "running" /\ rows[i].activity = "restore"
    BY <2>1, <2>3, Typed DEF Interrupted, RowSet
  <2>4. CASE rows[i].status # "running" /\ rows[i].activity # "restore"
    BY <2>1, <2>4, Typed DEF Interrupted, RowSet
  <2> QED BY <2>2, <2>3, <2>4
<1>3. /\ files' \in [Ids -> SUBSET (Places \X Names)] /\ prepared' \in BOOLEAN
      /\ seq' \in 0..MaxRuns /\ seq <= seq' /\ (prepared' => \A i \in Ids : files[i] # {} => i <= seq')
      /\ \A i \in Ids : files'[i] = files[i] \/ (rows[i].status = "running" /\ files'[i] = {})
  <2>0. IF half = {} THEN UNCHANGED <<files, prepared, seq, used>>
        ELSE \E ok \in BOOLEAN :
               /\ Call(ok)
               /\ prepared' = ok /\ seq' = IF ok THEN Reserve(seq) ELSE seq
               /\ files' = [i \in Ids |-> IF ok /\ i \in half THEN {} ELSE files[i]]
    BY Zenon DEF StartBackups
  <2>3. \A i \in half : rows[i].status = "running"
    BY DEF Half
  <2> HIDE DEF half
  <2>1. CASE half = {}
    <3>1. prepared \in BOOLEAN
      BY DEF BackupInv, BackupsTypeOK
    <3> QED BY <1>0, <2>0, <2>1, <3>1, Typed, BoundsAre
  <2>2. CASE half # {}
    <3>1. PICK ok \in BOOLEAN :
            /\ Call(ok)
            /\ prepared' = ok /\ seq' = IF ok THEN Reserve(seq) ELSE seq
            /\ files' = [i \in Ids |-> IF ok /\ i \in half THEN {} ELSE files[i]]
      BY <2>0, <2>2, Zenon
    <3>2. CASE ok
      <4>1. /\ seq' \in 0..MaxRuns /\ seq <= seq' /\ (prepared' => \A i \in Ids : files[i] # {} => i <= seq')
        BY <3>1, <3>2, HighestIs, Typed, BoundsAre
      <4>2. prepared' = TRUE
        BY <3>1, <3>2, Zenon
      <4>3. files' = [i \in Ids |-> IF i \in half THEN {} ELSE files[i]]
        BY <3>1, <3>2
      <4> QED BY <2>3, <4>1, <4>2, <4>3, Typed
    <3>3. CASE ~ok
      <4>1. prepared' = FALSE /\ seq' = seq
        BY <3>1, <3>3, Zenon
      <4>2. files' = [i \in Ids |-> files[i]]
        BY <3>1, <3>3
      <4>3. seq' \in 0..MaxRuns /\ seq <= seq'
        BY <4>1, Typed, BoundsAre
      <4>4. files' \in [Ids -> SUBSET (Places \X Names)] /\ \A i \in Ids : files'[i] = files[i]
        BY <4>2, Typed
      <4> QED BY <4>1, <4>3, <4>4
    <3> QED BY <3>2, <3>3
  <2> QED BY <2>1, <2>2
<1>4. ASSUME NEW i \in Ids \ (going \cup mistaken), rows[i].status = "running"
      PROVE  made[i] = {} /\ \A k \in Ids : copies[k].rows[i].vols = {}
  BY <1>4 DEF BackupInv, Running
<1>5. Rows'
  <2>1. SUFFICES ASSUME NEW i \in Ids PROVE RowFits(i, rows[i], seq)'
    BY DEF Rows
  <2>2. RowFits(i, rows[i], seq) /\ i \in Nat /\ seq \in Nat /\ seq' \in Nat
    BY <1>3, BoundsAre, Typed DEF BackupInv, Rows
  <2>3. CASE rows[i].status = "running"
    <3>1. rows'[i].status = "failed" /\ rows'[i].vols = {} /\ rows'[i].activity = ""
      BY <1>2, <2>3
    <3>2. i <= seq'
      <4>1. i <= seq
        BY <2>2, <2>3 DEF RowFits
      <4> QED BY <1>3, <2>2, <4>1
    <3> QED BY <3>1, <3>2 DEF RowFits
  <2>4. CASE rows[i].status # "running"
    <3>1. /\ rows'[i].status = rows[i].status /\ rows'[i].vols = rows[i].vols /\ rows'[i].activity = ""
          /\ rows'[i].owner = rows[i].owner /\ files'[i] = files[i] /\ seq <= seq' /\ going' = going /\ mistaken' = mistaken
      BY <1>0, <1>2, <1>3, <2>4
    <3>2. i <= seq => i <= seq'
      <4>1. i \in Nat /\ seq \in Nat /\ seq' \in Nat /\ seq <= seq'
        BY <2>2, <3>1
      <4> QED BY <4>1
    <3>3. \A v : Readable(i, v)' <=> Readable(i, v)
      BY <3>1 DEF Readable
    <3> QED BY <2>2, <3>1, <3>2, <3>3 DEF RowFits
  <2> QED BY <2>3, <2>4
<1>6. Copies'
  <2>1. SUFFICES ASSUME NEW k \in Ids, NEW i \in Ids
                 PROVE  RowFits(i, copies[k].rows[i], copies[k].seq)'
    BY DEF Copies
  <2>2. RowFits(i, copies[k].rows[i], copies[k].seq)
    BY DEF BackupInv, Copies
  <2>3. CASE i \in going \cup mistaken \/ files'[i] = files[i]
    BY <1>0, <2>2, <2>3 DEF RowFits, Readable
  <2>4. CASE i \notin going \cup mistaken /\ files'[i] # files[i]
    <3>1. copies[k].rows[i].vols = {}
      BY <1>3, <1>4, <2>4
    <3> QED BY <1>0, <2>2, <3>1 DEF RowFits
  <2> QED BY <2>3, <2>4
<1>7. Made'
  <2>1. SUFFICES ASSUME NEW i \in Ids \ (going \cup mistaken), NEW v \in made[i] PROVE Readable(i, v)'
    BY <1>0 DEF Made
  <2>2. files'[i] = files[i]
    BY <1>3, <1>4
  <2> QED BY <2>2 DEF BackupInv, Made, Readable
<1>8. Running'
  BY <1>0, <1>2 DEF Running
<1>9. Reserved'
  BY <1>3 DEF Reserved
<1>10. Stopped'
  BY <1>0 DEF Stopped
<1>11. \A i \in Ids : jobs'[i].pc = "none" /\ acts'[i].pc = "none"
  BY <1>0, NothingIs
<1>12. Taking' /\ Pruning' /\ Claimed'
  BY <1>2, <1>11 DEF Taking, Active, Pruning, Claimed
<1>13. Locked'
  BY <1>0, <1>11 DEF BackupInv, Locked, HoldsLock
<1>14. ReadOnce' /\ WorkTyped'
  BY <1>0, <1>1, Frames
<1>15. BackupsTypeOK'
  <2>1. \A i \in Ids : rows'[i].status # "succeeded" => rows'[i].vols = {}
    BY <1>5 DEF Rows, RowFits
  <2>2. rows' \in [Ids -> RowSet]
    BY <1>0, <1>2
  <2> QED BY <1>0, <1>3, <2>1, <2>2 DEF BackupInv, BackupsTypeOK, RowSet
<1>16. Restoring'
  <2>1. SUFFICES ASSUME used.restores = 0, NEW i \in Ids, rows'[i].status = "succeeded"
                 PROVE  FoundFiles(i)' \subseteq rows'[i].vols
    BY <1>1, <1>11 DEF Restoring, UsedSame
  <2>2. rows[i].status = "succeeded" /\ rows'[i].vols = rows[i].vols /\ files'[i] = files[i]
    BY <1>2, <1>3, <2>1
  <2> QED BY <2>1, <2>2 DEF BackupInv, Restoring, FoundFiles
<1>17. RestoreTruthful'
  <2>1. \A i \in Ids : rows'[i].vols \subseteq rows[i].vols
    BY <1>2
  <2> QED BY <1>0, <1>1, <1>2, <2>1 DEF BackupInv, RestoreTruthful, UsedSame
<1> QED BY <1>5, <1>6, <1>7, <1>8, <1>9, <1>10, <1>12, <1>13, <1>14, <1>15, <1>16, <1>17 DEF BackupInv

\* The database of a backup of the state is put back.
LEMMA RestoreStateStep ==
  ASSUME BackupInv, NEW id \in Ids, RestoreState(id)
  PROVE  BackupInv'
<1>0. /\ agent = "down" /\ rows' = copies[id].rows /\ seq' = copies[id].seq /\ copies[id] # NoCopy
      /\ used' = [used EXCEPT !.restores = @ + 1]
      /\ UNCHANGED <<agent, lock, svc, data, prepared, files, copies, jobs, acts, adopt, due, made, going, read, put>>
      /\ mistaken' = mistaken \cup {i \in Ids : copies[id].rows[i].status = "running" /\ files[i] # {}}
      /\ ~prepared /\ lock = "free" /\ adopt = NotAdopting /\ \A i \in Ids : jobs[i] = NoJob /\ acts[i] = NoAct
  BY DEF RestoreState, work, history, BackupInv, Stopped
<1>1. "restores" \in DOMAIN used' /\ used'.restores = used.restores + 1 /\ used'.restores \in Nat /\ used'.restores > 0
  BY <1>0 DEF BackupInv, WorkTyped
<1>2. \A i \in Ids : jobs'[i].pc = "none" /\ acts'[i].pc = "none"
  BY <1>0, NothingIs
<1>3. \A k, i \in Ids : RowFits(i, copies[k].rows[i], copies[k].seq)'
  <2>1. SUFFICES ASSUME NEW k \in Ids, NEW i \in Ids PROVE RowFits(i, copies[k].rows[i], copies[k].seq)'
    OBVIOUS
  <2>2. RowFits(i, copies[k].rows[i], copies[k].seq)
    BY DEF BackupInv, Copies
  <2> QED BY <1>0, <2>2 DEF RowFits, Readable
<1>4. rows' \in [Ids -> RowSet] /\ seq' \in 0..MaxRuns
  BY <1>0 DEF BackupInv, WorkTyped
<1>5. Rows' /\ Copies'
  BY <1>0, <1>3 DEF Rows, Copies
<1>6. BackupsTypeOK'
  <2>1. \A i \in Ids : rows'[i].status # "succeeded" => rows'[i].vols = {}
    BY <1>5 DEF Rows, RowFits
  <2>2. mistaken' \subseteq Ids
    BY <1>0 DEF BackupInv, BackupsTypeOK
  <2> QED BY <1>0, <1>4, <2>1, <2>2 DEF BackupInv, BackupsTypeOK, RowSet
<1>7. WorkTyped'
  BY <1>0, <1>1 DEF BackupInv, WorkTyped
<1>8. Stopped' /\ ReadOnce'
  BY <1>0, Frames
<1>81. Made'
  BY <1>0 DEF BackupInv, Made, Readable
<1>82. Running'
  <2>1. SUFFICES ASSUME NEW i \in Ids \ (going \cup mistaken'), rows'[i].status = "running", NEW k \in Ids
                 PROVE  made[i] = {} /\ copies[k].rows[i].vols = {}
    BY <1>0 DEF Running
  <2>2. files[i] = {} /\ i \notin going \cup mistaken
    BY <1>0, <2>1
  <2>3. \A v : ~Readable(i, v)
    BY <2>2 DEF Readable
  <2>4. RowFits(i, copies[k].rows[i], copies[k].seq)
    BY DEF BackupInv, Copies
  <2> QED BY <2>2, <2>3, <2>4 DEF BackupInv, Made, RowFits
<1>9. Reserved'
  BY <1>0 DEF Reserved
<1>10. Taking' /\ Pruning'
  BY <1>2 DEF Taking, Active, Pruning
<1>11. Claimed'
  BY <1>0, <1>2 DEF Claimed
<1>12. Locked'
  BY <1>0, <1>2 DEF BackupInv, Locked, HoldsLock
<1>13. Restoring' /\ RestoreTruthful'
  BY <1>1 DEF Restoring, RestoreTruthful
<1> QED BY <1>5, <1>6, <1>7, <1>8, <1>81, <1>82, <1>9, <1>10, <1>11, <1>12, <1>13 DEF BackupInv

\* What the goroutine of a backup relies on that is being taken.
Goes(job, id) ==
  LET all == ToSet(FilesOf(rows[id].owner)) IN
  /\ job \in JobSet /\ job.pc \in {"stop", "archive", "release"}
  /\ job.left \in Seq(all) /\ \A v \in all \ ToSet(job.left) : Readable(id, v)'
  /\ job.pc = "stop" => rows[id].owner = "app" /\ files'[id] = {} /\ ~job.stopped
  /\ job.stopped => rows[id].owner = "app"
  /\ ~job.stopped => ~jobs[id].stopped /\ svc'.up = svc.up
  /\ job.pc = "release" <=> ~job.ok

\* A step of it before the backup lets go of the lock.
LEMMA TakingStep ==
  ASSUME BackupInv, NEW id \in Ids, jobs[id].pc \in {"before", "stop", "archive"},
         NEW job, jobs' = [jobs EXCEPT ![id] = job], Goes(job, id),
         NEW added \in SUBSET (Places \X ToSet(FilesOf(rows[id].owner))), files' = [files EXCEPT ![id] = @ \cup added],
         NEW seen \in SUBSET {svc.gen}, rows[id].owner # "app" => seen = {}, read' = [read EXCEPT ![id] = @ \cup seen],
         svc' \in [desired : {"running", "stopped"}, up : BOOLEAN, gen : Nat, excused : BOOLEAN],
         svc'.desired = svc.desired, svc'.gen = svc.gen, svc'.excused = svc.excused, svc'.up => svc.up,
         svc' = svc \/ rows[id].owner = "app", UsedSame,
         UNCHANGED <<agent, lock, data, rows, seq, prepared, copies, acts, adopt, due, made, going, mistaken, put>>
  PROVE  BackupInv'
<1>0. /\ prepared /\ id <= seq /\ rows[id].status = "running" /\ agent = "up" /\ rows[id].owner \in {"app", "state"}
      /\ FoundFiles(id) \subseteq ToSet(FilesOf(rows[id].owner))
      /\ acts[id].pc \notin {"restore", "import"}
  BY Up, Typed DEF BackupInv, Taking, Active, Claimed, RowSet
<1>1. /\ files'[id] = files[id] \cup added /\ jobs'[id] = job /\ read'[id] = read[id] \cup seen
      /\ \A i \in Ids : i # id => files'[i] = files[i] /\ jobs'[i] = jobs[i] /\ read'[i] = read[i]
      /\ \A i \in Ids : files[i] \subseteq files'[i]
      /\ files' \in [Ids -> SUBSET (Places \X Names)] /\ jobs' \in [Ids -> JobSet]
  <2>1. ToSet(FilesOf(rows[id].owner)) \subseteq Names
    BY <1>0, NamesAre
  <2>2. added \subseteq Places \X Names /\ job \in JobSet
    BY <2>1 DEF Goes
  <2>3. read \in [Ids -> SUBSET Nat]
    BY DEF BackupInv, WorkTyped
  <2> QED BY <2>2, <2>3, Typed
<1>2. BackupsTypeOK'
  BY <1>1 DEF BackupInv, BackupsTypeOK
<1>3. WorkTyped'
  <2>1. read' \in [Ids -> SUBSET Nat]
    BY <1>1, Typed DEF BackupInv, WorkTyped
  <2> QED BY <1>1, <2>1 DEF BackupInv, WorkTyped, UsedSame
<1>4. Rows'
  BY <1>1 DEF BackupInv, Rows, RowFits, Readable
<1>5. Copies'
  <2>1. SUFFICES ASSUME NEW k \in Ids, NEW i \in Ids
                 PROVE  RowFits(i, copies[k].rows[i], copies[k].seq)'
    BY DEF Copies
  <2>2. RowFits(i, copies[k].rows[i], copies[k].seq)
    BY DEF BackupInv, Copies
  <2>3. \A v : Readable(i, v) => Readable(i, v)'
    BY <1>1 DEF Readable
  <2> QED BY <2>2, <2>3 DEF RowFits
<1>6. Made'
  BY <1>1 DEF BackupInv, Made, Readable
<1>7. Running' /\ Claimed' /\ RestoreTruthful'
  BY Frames
<1>8. Reserved'
  BY <1>0, <1>1 DEF BackupInv, Reserved
<1>9. Stopped'
  BY <1>0 DEF BackupInv, Stopped
<1>10. Taking'
  <2>1. SUFFICES ASSUME NEW i \in Ids, Active(i)'
                 PROVE
      /\ i <= seq /\ rows[i].status = "running"
      /\ jobs'[i].left \in Seq(ToSet(FilesOf(rows[i].owner)))
      /\ jobs'[i].ok => prepared /\ FoundFiles(i)' \subseteq ToSet(FilesOf(rows[i].owner))
      /\ \A v \in ToSet(FilesOf(rows[i].owner)) \ ToSet(jobs'[i].left) : Readable(i, v)'
      /\ jobs'[i].pc \in {"before", "stop"} => rows[i].owner = "app" /\ files'[i] = {} /\ ~jobs'[i].stopped
      /\ jobs'[i].pc \in {"before", "stop", "archive"} => jobs'[i].ok
      /\ jobs'[i].stopped => rows[i].owner = "app"
      /\ jobs'[i].pc = "release" => ~jobs'[i].ok
      /\ jobs'[i].pc = "finish" /\ jobs'[i].ok => jobs'[i].left = <<>>
    <3>1. \A o : FilesOf(o)' = FilesOf(o)
      BY DEF FilesOf
    <3> QED BY <2>1, <3>1 DEF Taking
  <2>2. CASE i # id
    <3>1. Active(i) /\ FoundFiles(i)' = FoundFiles(i) /\ \A v : Readable(i, v)' <=> Readable(i, v)
      BY <1>1, <2>1, <2>2 DEF Active, FoundFiles, Readable
    <3> QED BY <1>1, <2>2, <3>1 DEF BackupInv, Taking
  <2>3. CASE i = id
    <3>1. FoundFiles(id)' \subseteq FoundFiles(id) \cup {f[2] : f \in added}
      BY <1>1 DEF FoundFiles
    <3>2. {f[2] : f \in added} \subseteq ToSet(FilesOf(rows[id].owner))
      OBVIOUS
    <3>3. FoundFiles(id)' \subseteq ToSet(FilesOf(rows[id].owner))
      BY <1>0, <3>1, <3>2
    <3> QED BY <1>0, <1>1, <2>3, <3>3 DEF Goes
  <2> QED BY <2>2, <2>3
<1>11. Locked'
  <2>1. \A i \in Ids : HoldsLock(i)' <=> HoldsLock(i)
    BY <1>1 DEF HoldsLock, Goes
  <2>2. HoldsLock(id) <=> rows[id].owner = "app"
    BY DEF HoldsLock
  <2>3. ASSUME NEW i \in Ids, HoldsLock(i)
        PROVE  /\ lock = "backup" /\ read'[i] \subseteq {svc.gen} /\ \A j \in Ids : HoldsLock(j) => i = j
               /\ ~jobs'[i].stopped /\ svc.desired = "running" => svc'.up \/ svc'.excused
    <3>1. /\ lock = "backup" /\ read[i] \subseteq {svc.gen} /\ \A j \in Ids : HoldsLock(j) => i = j
          /\ ~jobs[i].stopped /\ svc.desired = "running" => svc.up \/ svc.excused
      BY <2>3 DEF BackupInv, Locked
    <3>2. CASE i = id
      BY <1>1, <3>1, <3>2 DEF Goes
    <3>3. CASE i # id
      BY <1>1, <2>2, <3>1, <3>3
    <3> QED BY <3>2, <3>3
  <2>4. rows[id].owner = "app" => lock = "backup"
    BY <2>2, <2>3
  <2>5. /\ lock = "restore" => svc'.desired = "stopped" /\ ~svc'.up
        /\ lock = "free" /\ svc'.desired = "running" => svc'.up \/ svc'.excused
    BY <2>4 DEF BackupInv, Locked
  <2> QED BY <2>1, <2>3, <2>5 DEF BackupInv, Locked
<1>12. ReadOnce'
  <2>1. SUFFICES ASSUME NEW i \in Ids PROVE \E g \in Nat : read'[i] \subseteq {g}
    BY DEF ReadOnce
  <2>2. CASE i = id /\ rows[id].owner = "app"
    <3>1. read[id] \subseteq {svc.gen}
      BY <2>2 DEF HoldsLock, BackupInv, Locked
    <3> QED BY <1>1, <2>2, <3>1, Typed
  <2>3. CASE i # id \/ rows[id].owner # "app"
    <3>1. read'[i] = read[i]
      BY <1>1, <2>3
    <3> QED BY <3>1 DEF BackupInv, ReadOnce
  <2> QED BY <2>2, <2>3
<1>13. Pruning'
  BY <1>1 DEF BackupInv, Pruning, Goes
<1>14. Restoring'
  <2>1. SUFFICES ASSUME used.restores = 0, NEW i \in Ids
                 PROVE  /\ rows[i].status = "succeeded" => FoundFiles(i)' \subseteq rows[i].vols
                        /\ acts[i].pc \in {"restore", "import"} =>
                             FoundFiles(i)' \cup rows[i].vols \subseteq put[i] \cup ToSet(acts[i].left)
    BY DEF Restoring, UsedSame
  <2>2. CASE i = id
    BY <1>0, <2>2
  <2>3. CASE i # id
    BY <1>1, <2>1, <2>3 DEF BackupInv, Restoring, FoundFiles
  <2> QED BY <2>2, <2>3
<1> QED BY <1>2, <1>3, <1>4, <1>5, <1>6, <1>7, <1>8, <1>9, <1>10, <1>11, <1>12, <1>13, <1>14 DEF BackupInv

\* backups.before, stopping what runs and one archive.
LEMMA TakeSteps ==
  ASSUME BackupInv, NEW id \in Ids, RunBefore(id) \/ StopForBackup(id) \/ Archive(id)
  PROVE  BackupInv'
<1> DEFINE all == ToSet(FilesOf(rows[id].owner))
<1>0. /\ jobs[id] \in JobSet /\ rows[id] \in RowSet /\ svc.up \in BOOLEAN
      /\ svc \in [desired : {"running", "stopped"}, up : BOOLEAN, gen : Nat, excused : BOOLEAN]
      /\ read \in [Ids -> SUBSET Nat]
  BY Typed DEF BackupInv, BackupsTypeOK, WorkTyped
<1>00. UsedSame
  <2>1. CASE RunBefore(id)
    BY <2>1, CallIs DEF RunBefore, BackupInv
  <2>2. CASE StopForBackup(id)
    BY <2>2, CallIs DEF StopForBackup, BackupInv
  <2>3. CASE Archive(id)
    BY <2>3, CallIs DEF Archive, BackupInv
  <2> QED BY <2>1, <2>2, <2>3
<1>01. jobs[id].pc \in {"before", "stop", "archive"}
  BY DEF RunBefore, StopForBackup, Archive
<1>02. /\ jobs[id].left \in Seq(all) /\ \A v \in all \ ToSet(jobs[id].left) : Readable(id, v)
       /\ jobs[id].pc \in {"before", "stop"} => rows[id].owner = "app" /\ files[id] = {} /\ ~jobs[id].stopped
       /\ jobs[id].stopped => rows[id].owner = "app"
  BY <1>01 DEF BackupInv, Taking, Active
<1>1. CASE RunBefore(id)
  <2>1. PICK ok \in BOOLEAN :
          jobs' = [jobs EXCEPT ![id].pc = IF ~ok THEN "release" ELSE IF StopFirst THEN "stop" ELSE "archive", ![id].ok = ok]
    BY <1>1 DEF RunBefore
  <2> DEFINE job == [jobs[id] EXCEPT !.pc = IF ~ok THEN "release" ELSE IF StopFirst THEN "stop" ELSE "archive", !.ok = ok]
  <2>2. /\ jobs' = [jobs EXCEPT ![id] = job] /\ job \in JobSet /\ job.pc \in {"stop", "archive", "release"}
        /\ job.left = jobs[id].left /\ job.stopped = jobs[id].stopped /\ (job.pc = "release" <=> ~job.ok)
    BY <1>0, <2>1, Typed DEF JobSet
  <2> HIDE DEF job
  <2>3. UNCHANGED <<files, svc, read>>
    BY <1>1 DEF RunBefore, history
  <2>4. Goes(job, id)
    BY <1>1, <1>02, <2>2, <2>3 DEF Goes, Readable, RunBefore
  <2>5. PICK added \in SUBSET (Places \X all), seen \in SUBSET {svc.gen} :
          /\ files' = [files EXCEPT ![id] = @ \cup added] /\ read' = [read EXCEPT ![id] = @ \cup seen]
          /\ added = {} /\ seen = {}
    <3>1. files' = [files EXCEPT ![id] = @ \cup {}] /\ read' = [read EXCEPT ![id] = @ \cup {}]
      BY <1>0, <2>3, Typed
    <3> QED BY <3>1
  <2>6. /\ svc' \in [desired : {"running", "stopped"}, up : BOOLEAN, gen : Nat, excused : BOOLEAN]
        /\ svc'.desired = svc.desired /\ svc'.gen = svc.gen /\ svc'.excused = svc.excused /\ (svc'.up => svc.up) /\ svc' = svc
    BY <1>0, <2>3
  <2>7. UNCHANGED <<agent, lock, data, rows, seq, prepared, copies, acts, adopt, due, made, going, mistaken, put>>
    BY <1>1 DEF RunBefore, db, history
  <2> QED BY <1>00, <1>01, <2>2, <2>4, <2>5, <2>6, <2>7, TakingStep
<1>2. CASE StopForBackup(id)
  <2>1. PICK ok \in BOOLEAN :
          /\ svc' = [svc EXCEPT !.up = @ /\ ~ok]
          /\ jobs' = [jobs EXCEPT ![id].pc = IF ok THEN "archive" ELSE "release",
                                  ![id].ok = ok, ![id].stopped = svc.up]
    BY <1>2 DEF StopForBackup
  <2> DEFINE job == [jobs[id] EXCEPT !.pc = IF ok THEN "archive" ELSE "release", !.ok = ok, !.stopped = svc.up]
  <2>2. /\ jobs' = [jobs EXCEPT ![id] = job] /\ job \in JobSet /\ job.pc \in {"archive", "release"}
        /\ job.left = jobs[id].left /\ job.stopped = svc.up /\ (job.pc = "release" <=> ~job.ok)
    BY <1>0, <2>1, Typed DEF JobSet
  <2> HIDE DEF job
  <2>3. UNCHANGED <<files, read>>
    BY <1>2 DEF StopForBackup, history
  <2>4. /\ svc' \in [desired : {"running", "stopped"}, up : BOOLEAN, gen : Nat, excused : BOOLEAN]
        /\ svc'.desired = svc.desired /\ svc'.gen = svc.gen /\ svc'.excused = svc.excused /\ (svc'.up => svc.up)
        /\ (~svc.up => svc'.up = svc.up)
    BY <1>0, <2>1
  <2>5. Goes(job, id)
    BY <1>2, <1>02, <2>2, <2>3, <2>4 DEF Goes, Readable, StopForBackup
  <2>6. PICK added \in SUBSET (Places \X all), seen \in SUBSET {svc.gen} :
          /\ files' = [files EXCEPT ![id] = @ \cup added] /\ read' = [read EXCEPT ![id] = @ \cup seen]
          /\ added = {} /\ seen = {}
    <3>1. files' = [files EXCEPT ![id] = @ \cup {}] /\ read' = [read EXCEPT ![id] = @ \cup {}]
      BY <1>0, <2>3, Typed
    <3> QED BY <3>1
  <2>7. rows[id].owner = "app"
    BY <1>2, <1>02 DEF StopForBackup
  <2> QED BY <1>0, <1>00, <1>01, <1>2, <2>2, <2>3, <2>4, <2>5, <2>6, <2>7, TakingStep DEF StopForBackup, db, history
<1>3. CASE Archive(id)
  <2> DEFINE v == Head(jobs[id].left)
             seen == IF rows[id].owner = "app" THEN {svc.gen} ELSE {}
  <2>1. PICK got \in {Places, {"bucket"}, {}} :
          /\ files' = [files EXCEPT ![id] = @ \cup (got \X {v})]
          /\ jobs' = [jobs EXCEPT ![id].left = IF got = Places THEN Tail(@) ELSE @,
                                  ![id].pc = IF got = Places THEN @ ELSE "release",
                                  ![id].ok = got = Places]
    BY <1>3 DEF Archive
  <2>2. v \in all /\ Tail(jobs[id].left) \in Seq(all) /\ ToSet(jobs[id].left) = {v} \cup ToSet(Tail(jobs[id].left))
    BY ZenonT(60), <1>3, <1>02, TailIs DEF Archive
  <2> DEFINE job == [jobs[id] EXCEPT !.left = IF got = Places THEN Tail(@) ELSE @,
                                     !.pc = IF got = Places THEN @ ELSE "release", !.ok = got = Places]
  <2>3. /\ jobs' = [jobs EXCEPT ![id] = job] /\ job.pc \in {"archive", "release"} /\ (job.pc = "release" => got # Places) /\ (job.pc = "release" <=> ~job.ok)
        /\ job.left = (IF got = Places THEN Tail(jobs[id].left) ELSE jobs[id].left) /\ job.stopped = jobs[id].stopped
    BY ZenonT(60), <1>0, <1>3, <2>1, Typed DEF JobSet, Archive
  <2>4. job \in JobSet
    <3>1. Tail(jobs[id].left) \in Seq(Names)
      BY <1>0, <1>3, TailIs DEF JobSet, Archive
    <3> QED BY <1>0, <3>1 DEF JobSet
  <2> HIDE DEF job, v
  <2>5. files'[id] = files[id] \cup (got \X {v}) /\ (got \X {v}) \in SUBSET (Places \X all)
    BY <2>1, <2>2, Typed DEF Places
  <2>6. Goes(job, id)
    <3>1. ASSUME NEW w \in all \ ToSet(job.left) PROVE Readable(id, w)'
      <4>1. CASE w \notin ToSet(jobs[id].left)
        BY <1>02, <2>5, <3>1, <4>1 DEF Readable
      <4>2. CASE w = v /\ got = Places
        BY <2>5, <4>2 DEF Readable, Places
      <4> QED BY <2>2, <2>3, <3>1, <4>1, <4>2
    <3>2. UNCHANGED svc
      BY <1>3 DEF Archive
    <3> HIDE DEF all
    <3>3. job.left \in Seq(all)
      BY <1>02, <2>2, <2>3
    <3> USE DEF all
    <3> QED BY <1>02, <2>3, <2>4, <3>1, <3>2, <3>3 DEF Goes
  <2>7. read' = [read EXCEPT ![id] = @ \cup seen] /\ seen \in SUBSET {svc.gen} /\ (rows[id].owner # "app" => seen = {})
    BY <1>3 DEF Archive
  <2> HIDE DEF seen
  <2> QED BY <1>0, <1>00, <1>01, <1>3, <2>1, <2>3, <2>5, <2>6, <2>7, TakingStep DEF Archive, db
<1> QED BY <1>1, <1>2, <1>3

\* The end of takeBackup, and of the lock.
LEMMA ReleaseStep ==
  ASSUME BackupInv, NEW id \in Ids, Release(id)
  PROVE  BackupInv'
<1>0. /\ jobs[id] \in JobSet /\ jobs[id].pc \in {"release", "archive"}
      /\ agent = "up" /\ rows[id].owner \in {"app", "state"}
      /\ jobs' = [jobs EXCEPT ![id].pc = "finish"] /\ lock' = (IF rows[id].owner = "app" THEN "free" ELSE lock)
      /\ UNCHANGED <<agent, rows, seq, prepared, files, copies, acts, adopt, due, made, going, mistaken, read, put>>
      /\ (jobs[id].pc = "archive" => jobs[id].left = <<>>)
  BY Up, Typed DEF Release, db, history, RowSet
<1>1. UsedSame
  BY CallIs DEF Release, BackupInv
<1>2. PICK ok \in BOOLEAN :
        /\ svc' = IF Restarts(id) THEN [svc EXCEPT !.up = @ \/ ok, !.excused = ~ok] ELSE svc
        /\ data' = IF svc'.up /\ ~svc.up THEN [v \in DOMAIN data |-> Live] ELSE data
  BY DEF Release
<1>3. /\ jobs'[id].pc = "finish" /\ jobs'[id].left = jobs[id].left /\ jobs'[id].ok = jobs[id].ok
      /\ jobs'[id].stopped = jobs[id].stopped /\ jobs' \in [Ids -> JobSet]
      /\ \A i \in Ids : i # id => jobs'[i] = jobs[i]
  BY <1>0, Typed DEF JobSet
<1>4. /\ svc \in [desired : {"running", "stopped"}, up : BOOLEAN, gen : Nat, excused : BOOLEAN]
      /\ data \in [ToSet(Volumes) -> Ids \cup {Live, Emptied}]
  BY DEF BackupInv, BackupsTypeOK
<1>5. Rows' /\ Copies' /\ Made' /\ Running' /\ Reserved' /\ ReadOnce' /\ Claimed' /\ Restoring' /\ RestoreTruthful'
  BY <1>0, <1>1, Frames
<1>6. BackupsTypeOK'
  <2>1. svc' \in [desired : {"running", "stopped"}, up : BOOLEAN, gen : Nat, excused : BOOLEAN]
    BY <1>2, <1>4
  <2>2. data' \in [ToSet(Volumes) -> Ids \cup {Live, Emptied}]
    BY <1>2, <1>4
  <2> QED BY <1>0, <2>1, <2>2 DEF BackupInv, BackupsTypeOK
<1>7. WorkTyped'
  BY <1>0, <1>1, <1>3 DEF BackupInv, WorkTyped, UsedSame
<1>8. Stopped'
  BY <1>0 DEF BackupInv, Stopped
<1>9. /\ id <= seq /\ rows[id].status = "running"
      /\ jobs[id].left \in Seq(ToSet(FilesOf(rows[id].owner)))
      /\ jobs[id].ok => prepared /\ FoundFiles(id) \subseteq ToSet(FilesOf(rows[id].owner))
      /\ \A v \in ToSet(FilesOf(rows[id].owner)) \ ToSet(jobs[id].left) : Readable(id, v)
      /\ jobs[id].stopped => rows[id].owner = "app"
      /\ jobs[id].pc = "release" => ~jobs[id].ok
  BY <1>0 DEF BackupInv, Taking, Active
<1>10. Taking'
  <2>1. ASSUME NEW i \in Ids
        PROVE  FoundFiles(i)' = FoundFiles(i) /\ \A v : Readable(i, v)' <=> Readable(i, v)
    BY <1>0 DEF FoundFiles, Readable
  <2>2. \A o : FilesOf(o)' = FilesOf(o)
    BY DEF FilesOf
  <2>3. SUFFICES ASSUME NEW i \in Ids, Active(i)'
                 PROVE
      /\ i <= seq /\ rows[i].status = "running"
      /\ jobs'[i].left \in Seq(ToSet(FilesOf(rows[i].owner)))
      /\ jobs'[i].ok => prepared /\ FoundFiles(i) \subseteq ToSet(FilesOf(rows[i].owner))
      /\ \A v \in ToSet(FilesOf(rows[i].owner)) \ ToSet(jobs'[i].left) : Readable(i, v)
      /\ jobs'[i].pc \in {"before", "stop"} => rows[i].owner = "app" /\ files[i] = {} /\ ~jobs'[i].stopped
      /\ jobs'[i].pc \in {"before", "stop", "archive"} => jobs'[i].ok
      /\ jobs'[i].stopped => rows[i].owner = "app"
      /\ jobs'[i].pc = "release" => ~jobs'[i].ok
      /\ jobs'[i].pc = "finish" /\ jobs'[i].ok => jobs'[i].left = <<>>
    BY <1>0, <2>1, <2>2 DEF Taking
  <2>4. CASE i = id
    BY <1>0, <1>3, <1>9, <2>4
  <2>5. CASE i # id
    <3>1. Active(i) /\ jobs'[i] = jobs[i]
      BY <1>3, <2>3, <2>5 DEF Active
    <3> QED BY <3>1 DEF BackupInv, Taking
  <2> QED BY <2>4, <2>5
<1>11. Locked'
  <2>1. \A i \in Ids : HoldsLock(i)' <=> i # id /\ HoldsLock(i)
    BY <1>0, <1>3 DEF HoldsLock
  <2>2. CASE rows[id].owner = "app"
    <3>1. HoldsLock(id)
      BY <1>0, <2>2 DEF HoldsLock
    <3>2. /\ lock = "backup" /\ \A j \in Ids : HoldsLock(j) => id = j
          /\ ~jobs[id].stopped /\ svc.desired = "running" => svc.up \/ svc.excused
      BY <3>1 DEF BackupInv, Locked
    <3>3. \A i \in Ids : ~HoldsLock(i)' /\ acts'[i].pc # "import"
      BY <1>0, <2>1, <3>2 DEF BackupInv, Locked
    <3>4. svc'.desired = "running" => svc'.up \/ svc'.excused
      <4>1. CASE jobs[id].stopped
        BY <1>2, <1>4, <4>1 DEF Restarts
      <4>2. CASE ~jobs[id].stopped
        BY <1>2, <1>4, <3>2, <4>2 DEF Restarts
      <4> QED BY <4>1, <4>2
    <3> QED BY <1>0, <2>2, <3>3, <3>4 DEF Locked
  <2>3. CASE rows[id].owner # "app"
    <3>1. svc' = svc /\ lock' = lock /\ UNCHANGED acts /\ UNCHANGED read
      BY <1>0, <1>2, <1>9, <2>3 DEF Restarts
    <3>2. \A i \in Ids : HoldsLock(i)' <=> HoldsLock(i)
      BY <2>1, <2>3 DEF HoldsLock
    <3>3. \A i \in Ids : HoldsLock(i) => jobs'[i] = jobs[i]
      BY <1>3, <2>3 DEF HoldsLock
    <3> QED BY <3>1, <3>2, <3>3 DEF BackupInv, Locked
  <2> QED BY <2>2, <2>3
<1>12. Pruning'
  BY <1>0, <1>3 DEF BackupInv, Pruning
<1> QED BY <1>5, <1>6, <1>7, <1>8, <1>10, <1>11, <1>12 DEF BackupInv

\* finishBackup and finishStateBackup.
LEMMA FinishStep ==
  ASSUME BackupInv, NEW id \in Ids, FinishBackup(id)
  PROVE  BackupInv'
<1> DEFINE all == ToSet(FilesOf(rows[id].owner))
           ok == jobs[id].ok
           done == all \ ToSet(jobs[id].left)
<1>0. /\ jobs[id] \in JobSet /\ jobs[id].pc = "finish" /\ agent = "up" /\ rows[id].owner \in {"app", "state"}
      /\ jobs' = [jobs EXCEPT ![id].pc = "list"] /\ rows' = [rows EXCEPT ![id] = Finished(rows[id].owner, ok, done)]
      /\ made' = IF ok THEN [made EXCEPT ![id] = done] ELSE made
      /\ UNCHANGED <<agent, lock, svc, data, seq, prepared, copies, acts, adopt, due, going, mistaken, read, put>>
      /\ made \in [Ids -> SUBSET Names]
  BY Up, Typed DEF FinishBackup, RowSet, BackupInv, WorkTyped
<1>1. UsedSame
  BY CallIs DEF FinishBackup, BackupInv
<1>2. /\ id <= seq /\ rows[id].status = "running" /\ (ok => FoundFiles(id) \subseteq all)
      /\ (ok => jobs[id].left = <<>>) /\ \A v \in done : Readable(id, v)
      /\ acts[id].pc = "none"
  BY <1>0 DEF BackupInv, Taking, Active, Claimed
<1>3. PICK kept \in SUBSET files[id] : files' = [files EXCEPT ![id] = kept] /\ (ok => kept = files[id])
  <2>1. CASE ok
    BY <2>1, Typed DEF FinishBackup
  <2>2. CASE ~ok /\ prepared
    <3>1. PICK gone \in BOOLEAN : \E left \in Remains(id, gone) : Removed(id, gone, left)
      BY <1>2, <2>2 DEF FinishBackup
    <3> QED BY <2>2, <3>1, RemovedIs
  <2>3. CASE ~prepared
    BY <2>3, Typed DEF FinishBackup
  <2> QED BY <2>1, <2>2, <2>3
<1>4. all \subseteq Names /\ (ok => done = all) /\ (rows[id].owner = "app" => all = ToSet(Volumes))
  <2>1. ToSet(<<>>) = {}
    BY DEF ToSet
  <2>2. all \subseteq Names /\ (rows[id].owner = "app" => all = ToSet(Volumes))
    BY <1>0, NamesAre
  <2> QED BY <1>2, <2>1, <2>2
<1>5. /\ rows'[id] \in RowSet /\ rows'[id].status = (IF ok THEN "succeeded" ELSE "failed") /\ rows'[id].owner = rows[id].owner
      /\ rows'[id].vols = (IF ok THEN done ELSE {}) /\ rows'[id].activity = "" /\ ~rows'[id].restored
  <2> HIDE DEF all, done, ok
  <2>1. done \in SUBSET Names
    BY <1>4 DEF done
  <2>2. PICK o \in {"app", "state"} : o = rows[id].owner
    BY <1>0
  <2>3. rows'[id] = Finished(o, ok, done)
    BY <1>0, <2>2, Typed
  <2>4. CASE ok
    BY <2>1, <2>2, <2>3, <2>4 DEF Finished, Row, NoRow, RowSet
  <2>5. CASE ~ok
    BY <2>2, <2>3, <2>5 DEF Finished, Row, NoRow, RowSet
  <2> QED BY <2>4, <2>5
<1> HIDE DEF all, done, ok
<1>6. /\ rows' \in [Ids -> RowSet] /\ jobs' \in [Ids -> JobSet] /\ files' \in [Ids -> SUBSET (Places \X Names)]
      /\ made' \in [Ids -> SUBSET Names] /\ made'[id] = (IF ok THEN done ELSE made[id]) /\ jobs'[id].pc = "list"
      /\ \A i \in Ids : files'[i] \subseteq files[i]
      /\ \A i \in Ids : i # id => rows'[i] = rows[i] /\ jobs'[i] = jobs[i] /\ files'[i] = files[i] /\ made'[i] = made[i]
  <2>1. rows' \in [Ids -> RowSet] /\ \A i \in Ids : i # id => rows'[i] = rows[i]
    BY <1>0, <1>5, Typed
  <2>2. jobs' \in [Ids -> JobSet] /\ jobs'[id].pc = "list" /\ \A i \in Ids : i # id => jobs'[i] = jobs[i]
    BY <1>0, Typed DEF JobSet
  <2>3. /\ files' \in [Ids -> SUBSET (Places \X Names)] /\ \A i \in Ids : files'[i] \subseteq files[i]
        /\ \A i \in Ids : i # id => files'[i] = files[i]
    BY <1>3, Typed
  <2>4. done \in SUBSET Names
    BY <1>4 DEF done
  <2>5. made' \in [Ids -> SUBSET Names] /\ made'[id] = (IF ok THEN done ELSE made[id]) /\ \A i \in Ids : i # id => made'[i] = made[i]
    BY <1>0, <2>4
  <2> QED BY <2>1, <2>2, <2>3, <2>5
<1>7. id \notin going \cup mistaken => made[id] = {} /\ \A k \in Ids : copies[k].rows[id].vols = {}
  BY <1>2 DEF BackupInv, Running
<1>8. /\ ok => \A v \in done : Readable(id, v)'
      /\ \A i \in Ids : i # id => \A v : Readable(i, v)' <=> Readable(i, v)
  <2>1. ok => files'[id] = files[id]
    BY <1>3, Typed
  <2> QED BY <1>2, <1>6, <2>1 DEF Readable
<1>9. Rows'
  <2>1. SUFFICES ASSUME NEW i \in Ids PROVE RowFits(i, rows[i], seq)'
    BY DEF Rows
  <2>2. CASE i = id
    <3>1. CASE ok
      BY <1>0, <1>2, <1>4, <1>5, <1>8, <2>2, <3>1 DEF RowFits
    <3>2. CASE ~ok
      <4>1. rows'[id].status = "failed" /\ rows'[id].vols = {} /\ rows'[id].activity = "" /\ id <= seq'
        BY <1>0, <1>2, <1>5, <3>2
      <4> QED BY <2>2, <4>1 DEF RowFits
    <3> QED BY <3>1, <3>2
  <2>3. CASE i # id
    <3>1. RowFits(i, rows[i], seq)
      BY DEF BackupInv, Rows
    <3> QED BY <1>0, <1>6, <1>8, <2>3, <3>1 DEF RowFits
  <2> QED BY <2>2, <2>3
<1>10. Copies'
  <2>1. SUFFICES ASSUME NEW k \in Ids, NEW i \in Ids
                 PROVE  RowFits(i, copies[k].rows[i], copies[k].seq)'
    BY DEF Copies
  <2>2. RowFits(i, copies[k].rows[i], copies[k].seq)
    BY DEF BackupInv, Copies
  <2>3. CASE i = id
    BY <1>0, <1>7, <2>2, <2>3 DEF RowFits
  <2>4. CASE i # id
    BY <1>0, <1>8, <2>2, <2>4 DEF RowFits
  <2> QED BY <2>3, <2>4
<1>11. Made'
  <2>1. SUFFICES ASSUME NEW i \in Ids \ (going \cup mistaken), NEW v \in made'[i] PROVE Readable(i, v)'
    BY <1>0 DEF Made
  <2>2. CASE i = id
    BY <1>6, <1>7, <1>8, <2>1, <2>2
  <2>3. CASE i # id
    BY <1>6, <1>8, <2>1, <2>3 DEF BackupInv, Made
  <2> QED BY <2>2, <2>3
<1>12. Running'
  BY ZenonT(60), <1>0, <1>5, <1>6 DEF BackupInv, Running
<1>13. Reserved'
  BY <1>0, <1>6 DEF BackupInv, Reserved
<1>14. Stopped'
  BY <1>0 DEF BackupInv, Stopped
<1>15. Taking'
  <2>1. SUFFICES ASSUME NEW i \in Ids, Active(i)'
                 PROVE  /\ Active(i) /\ rows'[i] = rows[i] /\ jobs'[i] = jobs[i] /\ FoundFiles(i)' = FoundFiles(i)
                        /\ files'[i] = files[i] /\ \A v : Readable(i, v)' <=> Readable(i, v)
    <3>1. \A o : FilesOf(o)' = FilesOf(o)
      BY DEF FilesOf
    <3> QED BY <1>0, <2>1, <3>1 DEF BackupInv, Taking
  <2>2. i # id
    BY <1>6, <2>1 DEF Active
  <2> QED BY <1>6, <1>8, <2>1, <2>2 DEF Active, FoundFiles
<1>16. Locked'
  <2>1. \A i \in Ids : HoldsLock(i)' <=> HoldsLock(i)
    BY <1>0, <1>6 DEF HoldsLock
  <2>2. \A i \in Ids : HoldsLock(i) => jobs'[i] = jobs[i]
    BY <1>0, <1>6 DEF HoldsLock
  <2> QED BY <1>0, <2>1, <2>2 DEF BackupInv, Locked
<1>17. Pruning'
  <2>1. \A i \in Ids : jobs[i].list \subseteq Ids
    BY Typed DEF JobSet
  <2>2. \A j \in Ids : rows[j].status # "running" => rows'[j].status # "running"
    BY <1>2, <1>6
  <2>3. \A i \in Ids : jobs'[i].pc \in {"prune", "unrecord"} => jobs'[i] = jobs[i]
    BY <1>6
  <2>4. UNCHANGED seq
    BY <1>0
  <2> QED BY <2>1, <2>2, <2>3, <2>4 DEF BackupInv, Pruning
<1>18. Claimed'
  BY <1>0, <1>2, <1>5, <1>6 DEF BackupInv, Claimed
<1>19. ReadOnce'
  BY <1>0, Frames
<1>20. Restoring'
  <2>1. SUFFICES ASSUME used.restores = 0, NEW i \in Ids
                 PROVE  /\ rows'[i].status = "succeeded" => FoundFiles(i)' \subseteq rows'[i].vols
                        /\ acts[i].pc \in {"restore", "import"} =>
                             FoundFiles(i)' \cup rows'[i].vols \subseteq put[i] \cup ToSet(acts[i].left)
    BY <1>0, <1>1 DEF Restoring, UsedSame
  <2>2. FoundFiles(i)' \subseteq FoundFiles(i)
    BY <1>6 DEF FoundFiles
  <2>3. CASE i = id
    BY <1>2, <1>4, <1>5, <2>2, <2>3
  <2>4. CASE i # id
    BY <1>6, <2>1, <2>2, <2>4 DEF BackupInv, Restoring
  <2> QED BY <2>3, <2>4
<1>21. RestoreTruthful'
  BY <1>0, <1>1, <1>5, <1>6 DEF BackupInv, RestoreTruthful, UsedSame
<1>22. WorkTyped'
  BY <1>0, <1>1, <1>6 DEF BackupInv, WorkTyped, UsedSame
<1>23. BackupsTypeOK'
  <2>1. \A i \in Ids : rows'[i].status # "succeeded" => rows'[i].vols = {}
    BY <1>9 DEF Rows, RowFits
  <2> QED BY <1>0, <1>6, <2>1 DEF BackupInv, BackupsTypeOK, RowSet
<1> QED BY <1>9, <1>10, <1>11, <1>12, <1>13, <1>14, <1>15, <1>16, <1>17, <1>18, <1>19, <1>20, <1>21, <1>22, <1>23 DEF BackupInv

\* A step of retention that goes through the list it read, with the backup it
\* is at.
LEMMA PruningStep ==
  ASSUME BackupInv, NEW id \in Ids, jobs[id].pc \in {"prune", "unrecord"},
         NEW job \in JobSet, job.pc \in {"none", "prune", "unrecord"}, jobs' = [jobs EXCEPT ![id] = job],
         job.pc # "none" => job.list # {} /\ job.list \subseteq jobs[id].list,
         NEW old \in jobs[id].list, NEW row \in {NoRow, rows[old]}, NEW kept \in SUBSET files[old],
         rows' = [rows EXCEPT ![old] = row], files' = [files EXCEPT ![old] = kept],
         going \subseteq going', going' \subseteq Ids, old \in going' \/ kept = files[old], UsedSame,
         UNCHANGED <<agent, lock, svc, data, seq, prepared, copies, acts, adopt, due, made, mistaken, read, put>>
  PROVE  BackupInv'
<1>0. /\ old \in Ids /\ rows[old].status # "running" /\ agent = "up"
      /\ jobs[id].list # {} /\ \A j \in jobs[id].list : j \in Ids /\ j <= seq /\ rows[j].status # "running"
  BY Up, Typed DEF BackupInv, Pruning, JobSet
<1>1. Rewritten(row, old)
  <2>1. CASE row = NoRow
    BY <2>1, NothingIs DEF Rewritten
  <2>2. CASE row = rows[old]
    BY <1>0, <2>2, Typed DEF Rewritten, BackupInv, Rows, RowFits
  <2> QED BY <2>1, <2>2
<1>2. /\ jobs'[id] = job /\ jobs' \in [Ids -> JobSet] /\ rows'[old] = row /\ files'[old] = kept
      /\ \A i \in Ids : i # id => jobs'[i] = jobs[i]
      /\ \A i \in Ids : i # old => rows'[i] = rows[i] /\ files'[i] = files[i]
      /\ rows' \in [Ids -> RowSet] /\ files' \in [Ids -> SUBSET (Places \X Names)]
  BY <1>0, <1>1, Typed DEF Rewritten
<1>3. \A i \in Ids : jobs'[i] = jobs[i] \/ (~Active(i) /\ ~Active(i)')
  BY <1>2 DEF Active
<1>4. \A i \in Ids : jobs'[i].pc = jobs[i].pc \/ (~Active(i) /\ ~Active(i)')
  BY <1>3
<1>5. Rows' /\ Copies' /\ Made' /\ Running' /\ Reserved' /\ Taking'
  BY <1>0, <1>1, <1>3, RowIsWritten
<1>6. \A i \in Ids : rows[i].status # "running" => rows'[i].status # "running"
  BY <1>0, <1>1, <1>2, NothingIs
<1>7. Pruning'
  <2>1. SUFFICES ASSUME NEW i \in Ids, jobs'[i].pc \in {"prune", "unrecord"}
                 PROVE  jobs'[i].list # {} /\ \A j \in jobs'[i].list : j <= seq /\ rows'[j].status # "running"
    BY DEF Pruning
  <2>2. CASE i = id
    BY <1>0, <1>2, <1>6, <2>1, <2>2
  <2>3. CASE i # id
    <3>1. jobs[i].list # {} /\ \A j \in jobs[i].list : j \in Ids /\ j <= seq /\ rows[j].status # "running"
      BY <1>2, <2>1, <2>3, Typed DEF BackupInv, Pruning, JobSet
    <3> QED BY <1>2, <1>6, <2>3, <3>1
  <2> QED BY <2>2, <2>3
<1>8. Locked'
  <2>1. \A i \in Ids : HoldsLock(i)' <=> HoldsLock(i)
    BY <1>0, <1>1, <1>4, HoldersStay
  <2>2. \A i \in Ids : HoldsLock(i) => jobs'[i] = jobs[i]
    BY <1>3 DEF HoldsLock, Active
  <2> QED BY <2>1, <2>2 DEF BackupInv, Locked
<1>9. BackupsTypeOK'
  <2>1. \A i \in Ids : rows'[i].status # "succeeded" => rows'[i].vols = {}
    BY <1>5 DEF Rows, RowFits
  <2> QED BY <1>2, <2>1 DEF BackupInv, BackupsTypeOK, RowSet
<1>10. WorkTyped'
  BY <1>2 DEF BackupInv, WorkTyped, UsedSame
<1>11. Stopped'
  BY <1>0 DEF BackupInv, Stopped
<1>12. ReadOnce'
  BY Frames
<1>13. Claimed'
  <2>1. ASSUME NEW i \in Ids, rows'[i].activity = "restore" PROVE rows[i].activity = "restore"
    <3>1. CASE i = old /\ row = NoRow
      BY <1>2, <2>1, <3>1, NothingIs
    <3>2. CASE i # old \/ row = rows[old]
      BY <1>2, <2>1, <3>2
    <3> QED BY <3>1, <3>2
  <2>2. \A i \in Ids : acts[i].pc \in {"files", "row"} => i \in going'
    BY DEF BackupInv, Claimed
  <2> QED BY <1>6, <2>1, <2>2 DEF BackupInv, Claimed
<1>14. Restoring'
  <2>1. SUFFICES ASSUME used.restores = 0, NEW i \in Ids
                 PROVE  /\ rows'[i].status = "succeeded" => FoundFiles(i)' \subseteq rows'[i].vols
                        /\ acts[i].pc \in {"restore", "import"} =>
                             FoundFiles(i)' \cup rows'[i].vols \subseteq put[i] \cup ToSet(acts[i].left)
    BY DEF Restoring, UsedSame
  <2>2. FoundFiles(i)' \subseteq FoundFiles(i)
    BY <1>0, <1>2 DEF FoundFiles
  <2>3. rows'[i] = rows[i] \/ (rows'[i].status = "none" /\ rows'[i].vols = {})
    BY ZenonT(60), <1>0, <1>2, NothingIs
  <2> QED BY <2>1, <2>2, <2>3 DEF BackupInv, Restoring
<1>15. RestoreTruthful'
  <2>1. \A i \in Ids : rows'[i] = rows[i] \/ ~rows'[i].restored
    BY ZenonT(60), <1>0, <1>2, NothingIs
  <2> QED BY <2>1 DEF BackupInv, RestoreTruthful, UsedSame
<1> QED BY <1>5, <1>7, <1>8, <1>9, <1>10, <1>11, <1>12, <1>13, <1>14, <1>15 DEF BackupInv

\* Retention: the list, the files and the record of each.
LEMMA PruneSteps ==
  ASSUME BackupInv, NEW id \in Ids, PruneList(id) \/ PruneFiles(id) \/ PruneRow(id)
  PROVE  BackupInv'
<1>0. /\ jobs[id] \in JobSet /\ going \subseteq Ids
  BY Typed DEF BackupInv, BackupsTypeOK
<1>00. UsedSame
  <2>1. CASE PruneList(id)
    BY <2>1, CallIs DEF PruneList, BackupInv
  <2>2. CASE PruneFiles(id)
    BY <2>2, CallIs DEF PruneFiles, BackupInv
  <2>3. CASE PruneRow(id)
    BY <2>3, CallIs DEF PruneRow, BackupInv
  <2> QED BY <2>1, <2>2, <2>3
<1>1. CASE PruneList(id)
  <2> DEFINE old == {i \in Ids : rows[i].owner = rows[id].owner /\ Overdue(i)}
             job == IF old = {} THEN NoJob ELSE [jobs[id] EXCEPT !.pc = "prune", !.list = old]
  <2>1. jobs' = [jobs EXCEPT ![id] = job] /\ jobs[id].pc = "list"
    BY <1>1 DEF PruneList
  <2>2. \A j \in old : j \in Ids /\ j <= seq /\ rows[j].status # "running"
    <3>1. SUFFICES ASSUME NEW j \in old PROVE j <= seq /\ rows[j].status # "running"
      OBVIOUS
    <3>2. rows[j].status \in {"succeeded", "failed"}
      BY DEF Overdue
    <3> QED BY <3>2 DEF BackupInv, Rows, RowFits
  <2>3. job \in JobSet /\ job.pc \in {"none", "prune"} /\ (job.pc = "prune" => job.list = old /\ old # {})
    <3> HIDE DEF old
    <3>1. CASE old = {}
      BY <3>1, NothingIs
    <3>2. CASE old # {}
      <4>1. old \in SUBSET Ids
        BY <2>2
      <4> QED BY <1>0, <3>2, <4>1 DEF JobSet
    <3> QED BY <3>1, <3>2
  <2> HIDE DEF old, job
  <2>4. jobs'[id] = job /\ jobs' \in [Ids -> JobSet] /\ \A i \in Ids : i # id => jobs'[i] = jobs[i]
    BY <2>1, <2>3, Typed
  <2>5. /\ UNCHANGED <<agent, lock, svc, data, rows, seq, prepared, files, copies, acts, adopt, due, made, going, mistaken, read, put>>
        /\ agent = "up"
    BY <1>1, Up DEF PruneList, db, history
  <2>6. Rows' /\ Copies' /\ Made' /\ Running' /\ Reserved' /\ ReadOnce' /\ Claimed' /\ Restoring' /\ RestoreTruthful'
    BY <1>00, <2>5, Frames
  <2>7. \A i \in Ids : jobs'[i] = jobs[i] \/ (~Active(i) /\ ~Active(i)')
    BY <2>1, <2>3, <2>4 DEF Active
  <2>8. BackupsTypeOK'
    BY <2>5 DEF BackupInv, BackupsTypeOK
  <2>9. WorkTyped'
    BY <1>00, <2>4, <2>5 DEF BackupInv, WorkTyped, UsedSame
  <2>10. Stopped'
    BY <2>5 DEF BackupInv, Stopped
  <2>11. Taking'
    <3>1. \A i \in Ids : Active(i)' => Active(i) /\ jobs'[i] = jobs[i]
      BY <2>7 DEF Active
    <3>2. \A o : FilesOf(o)' = FilesOf(o)
      BY DEF FilesOf
    <3>3. \A i \in Ids : FoundFiles(i)' = FoundFiles(i) /\ \A v : Readable(i, v)' <=> Readable(i, v)
      BY <2>5 DEF FoundFiles, Readable
    <3> QED BY <2>5, <3>1, <3>2, <3>3 DEF BackupInv, Taking
  <2>12. Locked'
    <3>1. \A i \in Ids : HoldsLock(i)' <=> HoldsLock(i)
      BY <2>5, <2>7 DEF HoldsLock, Active
    <3>2. \A i \in Ids : HoldsLock(i) => jobs'[i] = jobs[i]
      BY <2>7 DEF HoldsLock, Active
    <3> QED BY <2>5, <3>1, <3>2 DEF BackupInv, Locked
  <2>13. Pruning'
    BY <2>2, <2>3, <2>4, <2>5 DEF BackupInv, Pruning
  <2> QED BY <2>6, <2>8, <2>9, <2>10, <2>11, <2>12, <2>13 DEF BackupInv
<1>2. ASSUME jobs[id].pc \in {"prune", "unrecord"}
      PROVE  Max(jobs[id].list) \in jobs[id].list /\ Max(jobs[id].list) \in Ids
  <2>1. jobs[id].list # {} /\ jobs[id].list \subseteq Ids
    BY <1>0, <1>2 DEF BackupInv, Pruning, JobSet
  <2>2. jobs[id].list \in SUBSET (0..MaxRuns)
    BY <2>1, BoundsAre DEF Ids
  <2> QED BY <2>1, <2>2, MaxIs, BoundsAre
<1>5. ASSUME NEW old \in jobs[id].list
      PROVE  /\ Onward(jobs[id], old) \in JobSet /\ Onward(jobs[id], old).pc \in {"none", "prune"}
             /\ Onward(jobs[id], old).pc # "none" =>
                  Onward(jobs[id], old).list # {} /\ Onward(jobs[id], old).list \subseteq jobs[id].list
  <2>1. CASE jobs[id].list = {old}
    BY <2>1, NothingIs DEF Onward
  <2>2. CASE jobs[id].list # {old}
    <3> DEFINE job == [jobs[id] EXCEPT !.pc = "prune", !.list = jobs[id].list \ {old}]
    <3>1. Onward(jobs[id], old) = job
      BY <2>2 DEF Onward
    <3>2. job \in JobSet /\ job.pc = "prune" /\ job.list = jobs[id].list \ {old}
      BY <1>0 DEF JobSet
    <3>3. jobs[id].list \ {old} # {}
      BY <1>5, <2>2
    <3> HIDE DEF job
    <3> QED BY <3>1, <3>2, <3>3
  <2> QED BY <2>1, <2>2
<1>3. CASE PruneFiles(id)
  <2> DEFINE old == Max(jobs[id].list)
  <2>0. old \in jobs[id].list /\ old \in Ids /\ jobs[id].pc = "prune"
    BY <1>2, <1>3 DEF PruneFiles
  <2>1. /\ going' = going \cup {old}
        /\ UNCHANGED <<agent, lock, svc, data, rows, seq, prepared, copies, acts, adopt, due, made, mistaken, read, put>>
    BY <1>3 DEF PruneFiles, db
  <2>2. PICK kept \in SUBSET files[old] : files' = [files EXCEPT ![old] = kept]
    <3>1. CASE rows[old].status \in {"failed", "none"}
      BY SMTT(30), <1>3, <3>1, Typed DEF PruneFiles
    <3>2. CASE rows[old].status \notin {"failed", "none"}
      <4>1. PICK ok \in BOOLEAN : \E left \in Remains(old, ok) : Removed(old, ok, left)
        BY <1>3, <3>2 DEF PruneFiles
      <4> QED BY <2>0, <4>1, RemovedIs
    <3> QED BY <3>1, <3>2
  <2>3. PICK job \in JobSet :
          /\ jobs' = [jobs EXCEPT ![id] = job] /\ job.pc \in {"none", "prune", "unrecord"}
          /\ job.pc # "none" => job.list # {} /\ job.list \subseteq jobs[id].list
    <3>0. \/ jobs' = [jobs EXCEPT ![id] = [jobs[id] EXCEPT !.pc = "unrecord"]]
          \/ jobs' = [jobs EXCEPT ![id] = Onward(jobs[id], old)]
      <4>1. CASE rows[old].status \in {"failed", "none"}
        <5>1. jobs' = [jobs EXCEPT ![id].pc = "unrecord"]
          BY <1>3, <4>1 DEF PruneFiles
        <5> QED BY <5>1
      <4>2. CASE rows[old].status \notin {"failed", "none"}
        <5>1. PICK ok \in BOOLEAN :
                jobs' = [jobs EXCEPT ![id] = IF ok THEN [@ EXCEPT !.pc = "unrecord"] ELSE Onward(jobs[id], old)]
          BY <1>3, <4>2 DEF PruneFiles
        <5> QED BY <5>1
      <4> QED BY <4>1, <4>2
    <3> HIDE DEF old
    <3>1. CASE jobs' = [jobs EXCEPT ![id] = [jobs[id] EXCEPT !.pc = "unrecord"]]
      <4> DEFINE job == [jobs[id] EXCEPT !.pc = "unrecord"]
      <4>1. job \in JobSet /\ job.pc = "unrecord" /\ job.list = jobs[id].list
        BY <1>0 DEF JobSet
      <4> HIDE DEF job
      <4> QED BY <2>0, <3>1, <4>1 DEF job
    <3> QED BY <1>5, <2>0, <3>0, <3>1
  <2>4. rows' = [rows EXCEPT ![old] = rows[old]]
    BY <2>1, Typed
  <2> HIDE DEF old
  <2> QED BY <1>0, <1>00, <2>0, <2>1, <2>2, <2>3, <2>4, PruningStep
<1>4. CASE PruneRow(id)
  <2> DEFINE old == Max(jobs[id].list)
             job == Onward(jobs[id], old)
  <2>0. old \in jobs[id].list /\ old \in Ids /\ jobs[id].pc = "unrecord"
    BY <1>2, <1>4 DEF PruneRow
  <2>1. /\ rows' = [rows EXCEPT ![old] = NoRow] /\ jobs' = [jobs EXCEPT ![id] = job]
        /\ UNCHANGED <<agent, lock, svc, data, seq, prepared, files, copies, acts, adopt, due, made, going, mistaken, read, put>>
    BY <1>4 DEF PruneRow, history
  <2>2. files' = [files EXCEPT ![old] = files[old]]
    BY <2>1, Typed
  <2> HIDE DEF old
  <2>3. /\ job \in JobSet /\ job.pc \in {"none", "prune"}
        /\ (job.pc # "none" => job.list # {} /\ job.list \subseteq jobs[id].list)
    BY <1>5, <2>0
  <2> HIDE DEF job
  <2> QED BY <1>0, <1>00, <2>0, <2>1, <2>2, <2>3, PruningStep
<1> QED BY <1>1, <1>3, <1>4

\* What beginBackup and StartStateBackup record, under an id nothing has.
LEMMA BeginStep ==
  ASSUME BackupInv, NEW owner \in {"app", "state"}, NEW to, Begin(owner, to), agent = "up",
         owner = "app" => to = "before" /\ lock = "free" /\ lock' = "backup",
         owner = "state" => to = "archive" /\ UNCHANGED lock,
         due' \in BOOLEAN, UNCHANGED <<agent, svc, data, files, acts, adopt, made, going, put>>
  PROVE  BackupInv'
<1>0. UsedSame
  BY CallIs DEF Begin, BackupInv
<1>00. PICK ok \in BOOLEAN :
          LET b == IF ok /\ ~prepared THEN Reserve(seq) ELSE seq
              n == b + 1
          IN /\ n \in Ids
             /\ prepared' = (prepared \/ ok)
             /\ seq' = n
             /\ rows' = [rows EXCEPT ![n] = Row(owner, "running", {})]
             /\ copies' = IF owner = "state" /\ ok
                          THEN [copies EXCEPT ![n] = [rows |-> rows, seq |-> b]] ELSE copies
             /\ jobs' = [jobs EXCEPT ![n] =
                           [NoJob EXCEPT !.pc = IF ok THEN to ELSE "release",
                                         !.left = FilesOf(owner), !.ok = ok]]
             /\ read' = [read EXCEPT ![n] = {}]
             /\ mistaken' = (IF files[n] # {} THEN mistaken \cup {n} ELSE mistaken)
             /\ (prepared => ok)
  BY DEF Begin
<1> DEFINE base == IF ok /\ ~prepared THEN Reserve(seq) ELSE seq
           id == base + 1
           row == Row(owner, "running", {})
           pc == IF ok THEN to ELSE "release"
           job == [NoJob EXCEPT !.pc = pc, !.left = FilesOf(owner), !.ok = ok]
           copy == [rows |-> rows, seq |-> base]
<1>1. /\ id \in Ids /\ prepared' = ok /\ seq' = id /\ rows' = [rows EXCEPT ![id] = row]
      /\ copies' = (IF owner = "state" /\ ok THEN [copies EXCEPT ![id] = copy] ELSE copies)
      /\ jobs' = [jobs EXCEPT ![id] = job] /\ read' = [read EXCEPT ![id] = {}]
      /\ mistaken' = (IF files[id] # {} THEN mistaken \cup {id} ELSE mistaken)
  <2>1. prepared \in BOOLEAN
    BY DEF BackupInv, BackupsTypeOK
  <2>2. prepared' = ok
    BY <1>00, <2>1
  <2> QED BY <1>00, <2>2
<1>2. base \in 0..MaxRuns /\ seq <= base /\ (ok => \A i \in Ids : files[i] # {} => i <= base)
  <2>1. CASE ok /\ ~prepared
    BY <2>1, HighestIs, BoundsAre
  <2>2. CASE prepared
    BY <2>2, Typed, BoundsAre DEF BackupInv, Reserved
  <2>3. CASE ~ok
    BY <2>3, Typed, BoundsAre
  <2> QED BY <2>1, <2>2, <2>3
<1> HIDE DEF base
<1>3. base \in Nat /\ id \in Nat /\ id > base /\ id > seq /\ id <= MaxRuns /\ seq \in Nat
  BY <1>1, <1>2, BoundsAre, Typed DEF Ids
<1>4. (ok => files[id] = {}) /\ rows[id].status = "none" /\ rows[id].vols = {}
  <2>1. ok => files[id] = {}
    BY <1>1, <1>2, <1>3
  <2>2. RowFits(id, rows[id], seq)
    BY <1>1 DEF BackupInv, Rows
  <2>3. ~(id <= seq)
    BY <1>3
  <2>4. rows[id].status = "none"
    BY <2>2, <2>3 DEF RowFits
  <2> QED BY <2>1, <2>2, <2>4 DEF RowFits
<1>5. /\ id \notin going \cup mistaken' => made[id] = {} /\ \A k \in Ids : copies[k].rows[id].vols = {}
      /\ mistaken \subseteq mistaken'
  <2>0. SUFFICES ASSUME id \notin going \cup mistaken' PROVE made[id] = {} /\ \A k \in Ids : copies[k].rows[id].vols = {}
    BY <1>1
  <2>3. files[id] = {} /\ id \notin mistaken
    BY <1>1, <2>0
  <2>1. \A v : ~Readable(id, v)
    BY <2>3 DEF Readable
  <2>2. \A k \in Ids : RowFits(id, copies[k].rows[id], copies[k].seq)
    BY <1>1 DEF BackupInv, Copies
  <2> QED BY <1>1, <2>0, <2>1, <2>2, <2>3 DEF BackupInv, Made, RowFits
<1>6. /\ row \in RowSet /\ row.status = "running" /\ row.owner = owner /\ row.vols = {} /\ row.activity = "" /\ ~row.restored
  BY DEF Row, NoRow, RowSet
<1>7. /\ job \in JobSet /\ job.pc = pc /\ job.left = FilesOf(owner) /\ job.ok = ok /\ ~job.stopped
      /\ pc \in {"before", "archive", "release"} /\ (ok => pc = to) /\ (~ok => pc = "release")
  <2>1. pc \in {"before", "archive", "release"} /\ (ok => pc = to) /\ (~ok => pc = "release")
    OBVIOUS
  <2> HIDE DEF pc
  <2> QED BY <2>1, NamesAre DEF NoJob, JobSet
<1>8. copy.rows = rows /\ copy.seq = base
  OBVIOUS
<1> HIDE DEF row, job, copy, id, pc
<1>9. /\ rows' \in [Ids -> RowSet] /\ jobs' \in [Ids -> JobSet] /\ rows'[id] = row /\ jobs'[id] = job
      /\ \A i \in Ids : i # id => rows'[i] = rows[i] /\ jobs'[i] = jobs[i]
  BY <1>1, <1>6, <1>7, Typed
<1>10. /\ read' \in [Ids -> SUBSET Nat] /\ read'[id] = {} /\ \A i \in Ids : i # id => read'[i] = read[i]
  BY <1>1 DEF BackupInv, WorkTyped
<1>11. \A k \in Ids : copies'[k] = copies[k] \/ (copies'[k].rows = rows /\ copies'[k].seq = base)
  <2>1. copies \in [Ids -> [rows : [Ids -> RowSet], seq : {-1} \cup 0..MaxRuns]]
    BY DEF BackupInv, WorkTyped
  <2> QED BY <1>1, <1>8, <2>1
<1>12. Rows'
  <2>1. SUFFICES ASSUME NEW i \in Ids PROVE RowFits(i, rows[i], seq)'
    BY DEF Rows
  <2>2. CASE i = id
    <3>1. /\ rows'[id].status = "running" /\ rows'[id].vols = {} /\ rows'[id].activity = ""
      BY <1>1, <1>6, <1>9
    <3>2. id <= seq'
      BY <1>1, <1>3
    <3> QED BY <2>2, <3>1, <3>2 DEF RowFits
  <2>3. CASE i # id
    <3>1. RowFits(i, rows[i], seq)
      BY DEF BackupInv, Rows
    <3>2. i <= seq => i <= seq'
      BY <1>1, <1>3, BoundsAre
    <3>3. \A v : Readable(i, v)' <=> Readable(i, v)
      BY DEF Readable
    <3> QED BY <1>5, <1>9, <2>3, <3>1, <3>2, <3>3 DEF RowFits
  <2> QED BY <2>2, <2>3
<1>13. Copies'
  <2>1. SUFFICES ASSUME NEW k \in Ids, NEW i \in Ids
                 PROVE  RowFits(i, copies[k].rows[i], copies[k].seq)'
    BY DEF Copies
  <2>2. \A v : Readable(i, v)' <=> Readable(i, v)
    BY DEF Readable
  <2>3. CASE copies'[k] = copies[k]
    <3>1. RowFits(i, copies[k].rows[i], copies[k].seq)
      BY DEF BackupInv, Copies
    <3> QED BY <1>5, <2>2, <2>3, <3>1 DEF RowFits
  <2>4. CASE copies'[k] # copies[k]
    <3>1. copies'[k].rows[i] = rows[i] /\ copies'[k].seq = base
      BY <1>11, <2>4
    <3>2. RowFits(i, rows[i], seq)
      BY DEF BackupInv, Rows
    <3>3. i <= seq => i <= base
      <4>1. i \in Nat /\ seq \in Nat /\ base \in Nat /\ seq <= base
        BY <1>2, <1>3, BoundsAre
      <4> QED BY <4>1
    <3>4. (copies[k].rows[i])' = rows[i] /\ (copies[k].seq)' = base
      BY <3>1
    <3>5. i \notin going \cup mistaken' => i \notin going \cup mistaken
      BY <1>5
    <3> QED BY <2>2, <3>2, <3>3, <3>4, <3>5 DEF RowFits
  <2> QED BY <2>3, <2>4
<1>14. Made'
  BY <1>5 DEF BackupInv, Made, Readable
<1>15. Running'
  <2>1. SUFFICES ASSUME NEW i \in Ids \ (going \cup mistaken'), rows'[i].status = "running", NEW k \in Ids
                 PROVE  made[i] = {} /\ copies'[k].rows[i].vols = {}
    BY DEF Running
  <2>0. i \notin going \cup mistaken
    BY <1>5
  <2>2. CASE i = id
    <3>1. made[i] = {} /\ copies[k].rows[i].vols = {} /\ rows[i].vols = {}
      BY <1>4, <1>5, <2>2
    <3> QED BY <1>11, <3>1
  <2>3. CASE i # id
    <3>1. rows[i].status = "running"
      BY <1>9, <2>1, <2>3
    <3>2. made[i] = {} /\ copies[k].rows[i].vols = {}
      BY <2>0, <3>1 DEF BackupInv, Running
    <3>3. rows[i].vols = {}
      BY <3>1 DEF BackupInv, Rows, RowFits
    <3> QED BY <1>11, <3>2, <3>3
  <2> QED BY <2>2, <2>3
<1>16. Reserved'
  BY <1>1, <1>2, <1>3, BoundsAre DEF Reserved
<1>17. Stopped'
  BY <1>00, <1>1 DEF BackupInv, Stopped
<1>18. ~Active(id) /\ ~HoldsLock(id)
  BY <1>1, <1>4 DEF BackupInv, Taking, Active, HoldsLock
<1>19. Taking'
  <2>1. ASSUME NEW i \in Ids
        PROVE  FoundFiles(i)' = FoundFiles(i) /\ \A v : Readable(i, v)' <=> Readable(i, v)
    BY DEF FoundFiles, Readable
  <2>2. \A o : FilesOf(o)' = FilesOf(o)
    BY DEF FilesOf
  <2>3. SUFFICES ASSUME NEW i \in Ids, Active(i)'
                 PROVE
      /\ i <= seq' /\ rows'[i].status = "running"
      /\ jobs'[i].left \in Seq(ToSet(FilesOf(rows'[i].owner)))
      /\ jobs'[i].ok => prepared' /\ FoundFiles(i) \subseteq ToSet(FilesOf(rows'[i].owner))
      /\ \A v \in ToSet(FilesOf(rows'[i].owner)) \ ToSet(jobs'[i].left) : Readable(i, v)
      /\ jobs'[i].pc \in {"before", "stop"} => rows'[i].owner = "app" /\ files[i] = {} /\ ~jobs'[i].stopped
      /\ jobs'[i].pc \in {"before", "stop", "archive"} => jobs'[i].ok
      /\ jobs'[i].stopped => rows'[i].owner = "app"
      /\ jobs'[i].pc = "release" => ~jobs'[i].ok
      /\ jobs'[i].pc = "finish" /\ jobs'[i].ok => jobs'[i].left = <<>>
    BY <2>1, <2>2 DEF Taking
  <2>4. CASE i = id
    <3>1. ok => FoundFiles(id) = {}
      BY <1>4 DEF FoundFiles
    <3>2. to \in {"before", "archive"} /\ (to = "before" => owner = "app")
      OBVIOUS
    <3>3. FilesOf(owner) \in Seq(ToSet(FilesOf(owner)))
      BY NamesAre
    <3>4. id <= seq' /\ (ok => prepared')
      BY <1>1, <1>3
    <3> QED BY <1>4, <1>6, <1>7, <1>9, <2>4, <3>1, <3>2, <3>3, <3>4
  <2>5. CASE i # id
    <3>1. Active(i) /\ jobs'[i] = jobs[i] /\ rows'[i] = rows[i]
      BY <1>9, <2>3, <2>5 DEF Active
    <3>2. i <= seq => i <= seq'
      BY <1>1, <1>3, BoundsAre
    <3>3. prepared => prepared'
      BY <1>00
    <3> QED BY <3>1, <3>2, <3>3 DEF BackupInv, Taking
  <2> QED BY <2>4, <2>5
<1>20. Locked'
  <2>1. \A i \in Ids : i # id => (HoldsLock(i)' <=> HoldsLock(i))
    BY <1>9 DEF HoldsLock
  <2>2. CASE owner = "app"
    <3>1. \A i \in Ids : ~HoldsLock(i) /\ acts[i].pc # "import"
      BY <2>2, NobodyHolds
    <3>2. lock = "free" /\ lock' = "backup" /\ (svc.desired = "running" => svc.up \/ svc.excused)
      BY <2>2 DEF BackupInv, Locked
    <3>3. \A i \in Ids : HoldsLock(i)' => i = id
      BY <2>1, <3>1
    <3>4. \A i \in Ids : acts'[i].pc # "import"
      BY <3>1
    <3>5. read'[id] \subseteq {svc'.gen} /\ (svc'.desired = "running" => svc'.up \/ svc'.excused)
      BY <1>10, <3>2
    <3> QED BY <3>2, <3>3, <3>4, <3>5 DEF Locked
  <2>3. CASE owner = "state"
    <3>1. \A i \in Ids : HoldsLock(i)' <=> HoldsLock(i)
      BY <1>6, <1>9, <1>18, <2>1, <2>3 DEF HoldsLock
    <3>2. \A i \in Ids : HoldsLock(i) => jobs'[i] = jobs[i] /\ read'[i] = read[i]
      BY <1>9, <1>10, <1>18
    <3>3. UNCHANGED <<lock, svc, acts>>
      BY <2>3
    <3> QED BY <3>1, <3>2, <3>3 DEF BackupInv, Locked
  <2> QED BY <2>2, <2>3
<1>21. ReadOnce'
  <2>1. SUFFICES ASSUME NEW i \in Ids PROVE \E g \in Nat : read'[i] \subseteq {g}
    BY DEF ReadOnce
  <2>2. read'[i] = {} \/ read'[i] = read[i]
    BY <1>10
  <2>3. 0 \in Nat
    OBVIOUS
  <2> QED BY <2>2, <2>3 DEF BackupInv, ReadOnce
<1>22. Pruning'
  <2>1. SUFFICES ASSUME NEW i \in Ids, jobs'[i].pc \in {"prune", "unrecord"}
                 PROVE  jobs'[i].list # {} /\ \A j \in jobs'[i].list : j <= seq' /\ rows'[j].status # "running"
    BY DEF Pruning
  <2>2. jobs'[i] = jobs[i]
    BY <1>7, <1>9, <2>1
  <2>3. jobs[i].list # {} /\ \A j \in jobs[i].list : j \in Ids /\ j <= seq /\ rows[j].status # "running"
    BY <2>1, <2>2, Typed DEF BackupInv, Pruning, JobSet
  <2>4. \A j \in jobs[i].list : j # id /\ j <= seq'
    <3>1. SUFFICES ASSUME NEW j \in jobs[i].list PROVE j # id /\ j <= seq'
      OBVIOUS
    <3>2. j \in Nat /\ j <= seq
      BY <2>3, BoundsAre
    <3>3. j < id
      BY <1>3, <3>2
    <3> QED BY <1>1, <1>3, <3>2, <3>3
  <2> QED BY <1>9, <2>2, <2>3, <2>4
<1>23. Claimed'
  <2>1. \A i \in Ids : acts[i].pc # "none" => i # id /\ i <= seq'
    BY <1>1, <1>3, BoundsAre DEF BackupInv, Claimed
  <2> QED BY <1>6, <1>9, <2>1 DEF BackupInv, Claimed
<1>24. Restoring'
  <2>1. SUFFICES ASSUME used.restores = 0, NEW i \in Ids
                 PROVE  /\ rows'[i].status = "succeeded" => FoundFiles(i) \subseteq rows'[i].vols
                        /\ acts[i].pc \in {"restore", "import"} => FoundFiles(i) \cup rows'[i].vols \subseteq put[i] \cup ToSet(acts[i].left)
    BY <1>0 DEF Restoring, UsedSame, FoundFiles
  <2>2. CASE i = id
    <3>1. acts[id].pc = "none"
      BY <1>1, <1>3 DEF BackupInv, Claimed
    <3> QED BY <1>6, <1>9, <2>2, <3>1
  <2>3. CASE i # id
    BY <1>9, <2>1, <2>3 DEF BackupInv, Restoring
  <2> QED BY <2>2, <2>3
<1>25. RestoreTruthful'
  BY <1>0, <1>6, <1>9 DEF BackupInv, RestoreTruthful, UsedSame
<1>26. BackupsTypeOK'
  <2>1. \A i \in Ids : rows'[i].status # "succeeded" => rows'[i].vols = {}
    BY <1>12 DEF Rows, RowFits
  <2>2. seq' \in 0..MaxRuns /\ prepared' \in BOOLEAN /\ lock' \in {"free", "backup", "restore"}
    <3>1. lock' \in {"free", "backup", "restore"}
      BY DEF BackupInv, BackupsTypeOK
    <3>2. id \in 0..MaxRuns
      BY <1>3, BoundsAre
    <3> QED BY <1>1, <3>1, <3>2
  <2>3. mistaken' \subseteq Ids
    BY <1>1 DEF BackupInv, BackupsTypeOK
  <2> QED BY <1>9, <2>1, <2>2, <2>3 DEF BackupInv, BackupsTypeOK, RowSet
<1>27. WorkTyped'
  <2>1. copy \in [rows : [Ids -> RowSet], seq : {-1} \cup 0..MaxRuns]
    BY <1>2, Typed DEF copy
  <2>2. copies' \in [Ids -> [rows : [Ids -> RowSet], seq : {-1} \cup 0..MaxRuns]]
    BY <1>1, <2>1 DEF BackupInv, WorkTyped
  <2>3. \A k \in Ids : copies'[k] # NoCopy => copies'[k].seq \in 0..MaxRuns
    BY <1>2, <1>11 DEF BackupInv, WorkTyped
  <2> QED BY <1>0, <1>9, <1>10, <2>2, <2>3 DEF BackupInv, WorkTyped, UsedSame
<1> QED BY <1>12, <1>13, <1>14, <1>15, <1>16, <1>17, <1>19, <1>20, <1>21, <1>22, <1>23, <1>24, <1>25, <1>26, <1>27 DEF BackupInv

\* The invariant holds at first, and every step keeps it.
LEMMA BackupInitial == BackupsInit => BackupInv
<1> SUFFICES ASSUME BackupsInit PROVE BackupInv
  OBVIOUS
<1>0. /\ agent = "up" /\ lock = "free" /\ rows = [i \in Ids |-> NoRow] /\ seq = 0 /\ prepared = FALSE
      /\ copies = [i \in Ids |-> NoCopy] /\ jobs = [i \in Ids |-> NoJob] /\ acts = [i \in Ids |-> NoAct]
      /\ adopt = NotAdopting /\ due = FALSE /\ going = {} /\ mistaken = {}
      /\ read = [i \in Ids |-> {}] /\ put = [i \in Ids |-> {}]
      /\ data = [v \in ToSet(Volumes) |-> Live]
  BY DEF BackupsInit
<1>1. /\ svc \in [desired : {"running", "stopped"}, up : BOOLEAN, gen : Nat, excused : BOOLEAN]
      /\ (svc.desired = "running" => svc.up)
  BY DEF BackupsInit
<1>2. /\ "restores" \in DOMAIN used /\ used.restores \in Nat
  BY BackupsAssumption DEF BackupsInit, BackupsAssumption
<1>3. /\ made \in [Ids -> SUBSET Names] /\ files = [i \in Ids |-> Places \X made[i]]
  BY DEF BackupsInit, Names
<1>4. \A i \in Ids : \A v \in made[i] : Readable(i, v)
  BY <1>3 DEF Readable, Places
<1>5. \A i \in Ids : /\ rows[i] = NoRow /\ jobs[i].pc = "none" /\ acts[i].pc = "none" /\ copies[i] = NoCopy
                     /\ NoCopy.rows[i] = NoRow
  BY <1>0, NothingIs DEF NoCopy
<1>6. BackupsTypeOK
  <2>1. files \in [Ids -> SUBSET (Places \X Names)]
    BY <1>3
  <2>2. rows \in [Ids -> RowSet] /\ \A i \in Ids : rows[i].vols = {}
    BY <1>0, NothingIs
  <2>3. seq \in 0..MaxRuns
    BY <1>0, BoundsAre
  <2> QED BY <1>0, <1>1, <2>1, <2>2, <2>3 DEF BackupsTypeOK, RowSet
<1>7. WorkTyped
  <2>1. NoCopy \in [rows : [Ids -> RowSet], seq : {-1} \cup 0..MaxRuns]
    BY NothingIs DEF NoCopy
  <2>2. jobs \in [Ids -> JobSet] /\ acts \in [Ids -> ActSet]
    BY <1>0, NothingIs
  <2> QED BY <1>0, <1>2, <1>3, <2>1, <2>2 DEF WorkTyped
<1>8. Rows /\ Copies
  BY <1>5, NothingIs DEF Rows, Copies, RowFits
<1>9. Made
  BY <1>4 DEF Made
<1>10. Running /\ Reserved /\ Stopped
  BY <1>0, <1>5, NothingIs DEF Running, Reserved, Stopped
<1>11. Taking /\ Pruning /\ Claimed
  BY <1>5, NothingIs DEF Taking, Active, Pruning, Claimed
<1>12. Locked
  BY <1>0, <1>1, <1>5 DEF Locked, HoldsLock
<1>13. ReadOnce
  <2>1. 0 \in Nat
    OBVIOUS
  <2> QED BY <1>0, <2>1 DEF ReadOnce
<1>14. Restoring /\ RestoreTruthful
  BY <1>5, NothingIs DEF Restoring, RestoreTruthful
<1> QED BY <1>6, <1>7, <1>8, <1>9, <1>10, <1>11, <1>12, <1>13, <1>14 DEF BackupInv

\* The steps that begin a backup.
LEMMA BeginSteps ==
  ASSUME BackupInv, StartBackup \/ ScheduleBackup \/ StartStateBackup
  PROVE  BackupInv'
<1>0. due \in BOOLEAN
  BY DEF BackupInv, BackupsTypeOK
<1>1. CASE StartBackup
  BY <1>0, <1>1, BeginStep DEF StartBackup, Held
<1>2. CASE ScheduleBackup
  BY <1>2, BeginStep DEF ScheduleBackup, Held
<1>3. CASE StartStateBackup
  BY <1>0, <1>3, BeginStep DEF StartStateBackup
<1> QED BY <1>1, <1>2, <1>3

\* Every step keeps the invariant.
LEMMA BackupSteps ==
  ASSUME BackupInv, [BackupsNext]_backupVars
  PROVE  BackupInv'
<1>1. CASE UNCHANGED backupVars
  <2>1. UNCHANGED <<agent, lock, svc, data, rows, seq, prepared, files, copies, jobs, acts, adopt, due, used, made, going, mistaken, read, put>>
    BY <1>1 DEF backupVars
  <2>2. BackupsTypeOK'
    BY <2>1 DEF BackupInv, BackupsTypeOK
  <2>3. UsedSame
    BY <2>1, CallIs DEF BackupInv
  <2> QED BY <2>1, <2>2, <2>3, Frames DEF BackupInv
<1>2. CASE BackupsNext
  <2>1. CASE StartBackup \/ ScheduleBackup \/ StartStateBackup
    BY <2>1, BeginSteps
  <2>2. CASE FallsDue \/ AdoptIds
    BY <2>2, ClockSteps
  <2>3. CASE StopOrStart \/ Deploy \/ Supervise
    BY <2>3, ServiceSteps
  <2>4. CASE AdoptFiles
    BY <2>4, AdoptStep
  <2>5. CASE StopAgent
    BY <2>5, StopStep
  <2>6. CASE StartBackups
    BY <2>6, StartStep
  <2>7. ASSUME NEW id \in Ids, Steps(id) PROVE BackupInv'
    BY <2>7, TakeSteps, ReleaseStep, FinishStep, PruneSteps, DeleteSteps, VerifySteps, RestoreSteps DEF Steps
  <2>8. ASSUME NEW id \in Ids, Requests(id) PROVE BackupInv'
    BY <2>8, DeleteSteps, VerifySteps, RestoreSteps, RestoreStateStep DEF Requests
  <2> QED BY <1>2, <2>1, <2>2, <2>3, <2>4, <2>5, <2>6, <2>7, <2>8 DEF BackupsNext, AgentSteps
<1> QED BY <1>1, <1>2

\* What the invariant says of the backups that are kept and restored.
LEMMA BackupImplied == BackupInv => BackupsSafe
<1> SUFFICES ASSUME BackupInv PROVE BackupsSafe
  OBVIOUS
<1>1. KeptIsWhole
  BY DEF BackupInv, Made, Rows, RowFits, KeptIsWhole
<1>2. FreshId
  BY DEF BackupInv, Taking, Active, FreshId
<1>3. OneVersion
  <2>1. SUFFICES ASSUME NEW i \in Ids PROVE Cardinality(read[i]) <= 1
    BY DEF OneVersion
  <2>2. PICK g \in Nat : read[i] \subseteq {g}
    BY DEF BackupInv, ReadOnce
  <2>3. read[i] = {} \/ read[i] = {g}
    BY <2>2
  <2>4. Cardinality({}) = 0 /\ Cardinality({g}) = 1
    BY FS_EmptySet, FS_Singleton
  <2> QED BY <2>3, <2>4
<1>4. RunsAfterwards /\ NotUnderneath
  BY DEF BackupInv, Locked, RunsAfterwards, NotUnderneath
<1> QED BY <1>1, <1>2, <1>3, <1>4 DEF BackupInv, BackupsSafe

\* Whatever is killed, fails or is put back: a backup that says it succeeded
\* can be read in full until its removal is decided, unless the database
\* takes it for one that is being taken; one that is being taken writes over
\* no other and is of one version, and taking or restoring one does the
\* application no harm (takeBackup, restoreVolumes, InterruptBackupRuns).
THEOREM BackupsAreSafe == BackupsSpec => []BackupsSafe
<1>1. BackupInv /\ [BackupsNext]_backupVars => BackupInv'
  BY BackupSteps
<1> QED BY <1>1, BackupInitial, BackupImplied, PTL DEF BackupsSpec
=============================================================================
