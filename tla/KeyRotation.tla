----------------------------- MODULE KeyRotation -----------------------------
(* Rotation of the encryption key (agent/internal/store/rotation.go,        *)
(* crypto.go, the store's Open and agent/internal/config/encryption.go).    *)
(* The database and the key are two files and no step changes both; readers *)
(* and writers of sealed values go on while the key is exchanged, and the   *)
(* agent may stop between any two steps.  A key is a number, a sealed value *)
(* is the key it is under.                                                  *)
EXTENDS Naturals

CONSTANTS Values,          \* sealed values outside deployment specs
          Specs,           \* sealed values inside deployment specs
          FromEnvs,        \* whether the key comes from the environment
          RenameMayFail,   \* the new key may not be moved to the key file
          CommitMayLie,    \* a commit that took effect may report an error
          MaxRotations, MaxKeyStops

ASSUME KeyAssumption ==
  /\ FromEnvs \cup {RenameMayFail, CommitMayLie} \subseteq BOOLEAN
  /\ MaxRotations \in Nat /\ MaxKeyStops \in Nat
  /\ Values # {} /\ Specs # {}

Keys == 1..(MaxRotations + 1)
NoKey == 0
Torn == MaxRotations + 2   \* a key file cut short while it was written
NoSnapshot == [under |-> NoKey, key |-> NoKey]
NoValue == [value |-> "none"]

VARIABLES
  fromEnv,     \* keyFromEnv
  sealed,      \* [Values \cup Specs -> key]: what each value is under
  configured,  \* the key file, or the environment's variable
  pendingKey,  \* the file with pendingKeySuffix
  told,        \* the key the operator was given in a response
  ring,        \* keyring: [current, previous], and how often it was rotated
  process,     \* "up", "down" or "refused" to start
  step,        \* where RotateKey is; it holds keyMu unless "idle"
  fresh,       \* the newest key generated
  writer,      \* a value sealed and not yet stored, holding keyMu shared
  reader,      \* a row fetched and not yet opened
  snapshot,    \* a copy of the database: [under, key], key once it is taken
  keyStops

keyVars == <<fromEnv, sealed, configured, pendingKey, told, ring, process, step, fresh, writer, reader, snapshot, keyStops>>

All == Values \cup Specs

KeyInit ==
  /\ fromEnv \in FromEnvs
  /\ sealed = [v \in All |-> 1]
  /\ configured = 1 /\ pendingKey = NoKey /\ told = NoKey
  /\ ring = [current |-> 1, previous |-> NoKey, turn |-> 0]
  /\ process = "up" /\ step = "idle" /\ fresh = 1
  /\ writer = NoValue /\ reader = NoValue /\ snapshot = NoSnapshot /\ keyStops = 0

-----------------------------------------------------------------------------
(* keyFits: the first sealed value that a key does not open is an error.    *)
Fits(k) == \A v \in All : sealed[v] = k

(* keyring.Open.                                                            *)
Opens(k) == k = ring.current \/ k = ring.previous

(* keyring.rotate.                                                          *)
Rotated(k) == [current |-> k, previous |-> ring.current, turn |-> ring.turn + 1]

-----------------------------------------------------------------------------

(* SetSecret, SetRegistry, SaveCertificate, CreateDeployment: seal with the *)
(* current key under keyMu, shared; a rotation holds it alone.              *)
SealValue(v) ==
  /\ process = "up" /\ step = "idle" /\ writer = NoValue
  /\ writer' = [value |-> v, key |-> ring.current]
  /\ UNCHANGED <<sealed, configured, pendingKey, told, ring, process, step, fresh, reader, snapshot, keyStops, fromEnv>>

(* ... and store it.                                                        *)
StoreValue ==
  /\ process = "up" /\ writer # NoValue
  /\ sealed' = [sealed EXCEPT ![writer.value] = writer.key]
  /\ writer' = NoValue
  /\ UNCHANGED <<configured, pendingKey, told, ring, process, step, fresh, reader, snapshot, keyStops, fromEnv>>

(* A query has fetched a row and will open it; no lock is held meanwhile.   *)
FetchValue(v) ==
  /\ process = "up" /\ reader = NoValue
  /\ reader' = [value |-> v, key |-> sealed[v], at |-> ring.turn]
  /\ UNCHANGED <<sealed, configured, pendingKey, told, ring, process, step, fresh, writer, snapshot, keyStops, fromEnv>>

OpenValue ==
  /\ process = "up" /\ reader # NoValue
  /\ reader' = NoValue
  /\ UNCHANGED <<sealed, configured, pendingKey, told, ring, process, step, fresh, writer, snapshot, keyStops, fromEnv>>

(* Snapshot: the copy of the database, under keyMu shared ...               *)
Snapshot ==
  /\ process = "up" /\ step = "idle" /\ snapshot = NoSnapshot
  /\ \E v \in All : snapshot' = [NoSnapshot EXCEPT !.under = sealed[v]]
  /\ UNCHANGED <<sealed, configured, pendingKey, told, ring, process, step, fresh, writer, reader, keyStops, fromEnv>>

(* ... and the key it is under, which goes with it into the backup.         *)
SnapshotKey ==
  /\ process = "up" /\ snapshot # NoSnapshot /\ snapshot.key = NoKey
  /\ snapshot' = [snapshot EXCEPT !.key = ring.current]
  /\ UNCHANGED <<sealed, configured, pendingKey, told, ring, process, step, fresh, writer, reader, keyStops, fromEnv>>

Copying == snapshot # NoSnapshot /\ snapshot.key = NoKey

-----------------------------------------------------------------------------
(* RotateKey takes keyMu, makes a key and opens the pendingKey file, which     *)
(* truncates one that is there.  With the key in the environment a pendingKey  *)
(* file refuses it (ErrRotationPending).                                    *)
RotateKey ==
  /\ process = "up" /\ step = "idle" /\ writer = NoValue /\ ~Copying /\ fresh \leq MaxRotations
  /\ fromEnv => pendingKey = NoKey
  /\ fresh' = fresh + 1 /\ step' = "writing" /\ pendingKey' = Torn
  /\ UNCHANGED <<sealed, configured, told, ring, process, writer, reader, snapshot, keyStops, fromEnv>>

(* writeKeyFile returns once the key is on disk, or fails.                  *)
KeyWritten ==
  /\ step = "writing"
  /\ \/ pendingKey' = fresh /\ step' = "written"
     \/ UNCHANGED pendingKey /\ step' = "idle"
  /\ UNCHANGED <<sealed, configured, told, ring, process, fresh, writer, reader, snapshot, keyStops, fromEnv>>

(* Mutant: the key file is replaced before the transaction.                 *)
ReencryptLate ==
  /\ step = "written"
  /\ configured' = fresh /\ pendingKey' = NoKey /\ step' = "committed"
  /\ UNCHANGED <<sealed, told, ring, process, fresh, writer, reader, snapshot, keyStops, fromEnv>>

(* reencrypt: every value from the old key to the new one, in one synced    *)
(* transaction.                                                             *)
Reencrypt ==
  /\ step = "written" /\ Fits(ring.current)
  /\ sealed' = [v \in All |-> fresh]
  /\ step' = "switch"
  /\ UNCHANGED <<configured, pendingKey, told, ring, process, fresh, writer, reader, snapshot, keyStops, fromEnv>>

(* The ring follows the commit; the database is in use again already.       *)
SwitchRing ==
  /\ step = "switch"
  /\ ring' = Rotated(fresh)
  /\ told' = IF fromEnv THEN fresh ELSE told
  /\ step' = IF fromEnv THEN "idle" ELSE "committed"
  /\ UNCHANGED <<sealed, configured, pendingKey, process, fresh, writer, reader, snapshot, keyStops, fromEnv>>

(* reencrypt fails.  The pendingKey key is discarded only if the old key       *)
(* demonstrably still opens the data; a commit that reported an error may   *)
(* have taken effect.                                                       *)
ReencryptFails ==
  /\ step = "written"
  /\ \/ sealed' = sealed /\ pendingKey' = NoKey
     \/ CommitMayLie /\ sealed' = [v \in All |-> fresh] /\ UNCHANGED pendingKey
  /\ step' = "idle"
  /\ UNCHANGED <<configured, told, ring, process, fresh, writer, reader, snapshot, keyStops, fromEnv>>

(* The rename over the key file, and keyMu is released; a rename that fails *)
(* is left to the next start.                                               *)
MoveKey ==
  /\ step = "committed"
  /\ \/ configured' = pendingKey /\ pendingKey' = NoKey
     \/ RenameMayFail /\ UNCHANGED <<configured, pendingKey>>
  /\ step' = "idle"
  /\ UNCHANGED <<sealed, told, ring, process, fresh, writer, reader, snapshot, keyStops, fromEnv>>

-----------------------------------------------------------------------------
(* The agent stops: memory is gone, the three files stay.                   *)
KeyAgentStops ==
  /\ process = "up" /\ keyStops < MaxKeyStops /\ keyStops' = keyStops + 1
  /\ process' = "down" /\ step' = "idle" /\ writer' = NoValue /\ reader' = NoValue
  /\ snapshot' = IF snapshot.key = NoKey THEN NoSnapshot ELSE snapshot
  /\ UNCHANGED <<sealed, configured, pendingKey, told, ring, fresh, fromEnv>>

(* ResolveEncryptionKey, Open and settleRotation.                           *)
(* The configured key opens the data: a pendingKey one has served.             *)
OpenStore ==
  /\ process = "down" /\ Fits(configured)
  /\ pendingKey' = NoKey /\ ring' = [current |-> configured, previous |-> NoKey, turn |-> 0]
  /\ process' = "up"
  /\ UNCHANGED <<sealed, configured, told, step, fresh, writer, reader, snapshot, keyStops, fromEnv>>

(* Mutant: a rotation that had committed is not completed.                  *)
CompleteRotationNot ==
  /\ process = "down" /\ ~Fits(configured) /\ Fits(pendingKey) /\ ~fromEnv
  /\ process' = "refused"
  /\ UNCHANGED <<sealed, configured, pendingKey, told, ring, step, fresh, writer, reader, snapshot, keyStops, fromEnv>>

(* The rotation had committed: it is completed from the pendingKey key.        *)
CompleteRotation ==
  /\ process = "down" /\ ~Fits(configured) /\ Fits(pendingKey) /\ ~fromEnv
  /\ configured' = pendingKey /\ pendingKey' = NoKey
  /\ ring' = [current |-> pendingKey, previous |-> configured, turn |-> 0]
  /\ process' = "up"
  /\ UNCHANGED <<sealed, told, step, fresh, writer, reader, snapshot, keyStops, fromEnv>>

(* Neither key does, or the environment still holds the old one.  Without a *)
(* pendingKey key only the values in deployment specs are tried                *)
(* (encryptLegacyEnv).                                                      *)
RefuseToStart ==
  /\ process = "down" /\ ~Fits(configured) /\ (Fits(pendingKey) => fromEnv)
  /\ pendingKey = NoKey => \E v \in Specs : sealed[v] # configured
  /\ process' = "refused"
  /\ UNCHANGED <<sealed, configured, pendingKey, told, ring, step, fresh, writer, reader, snapshot, keyStops, fromEnv>>

(* The operator puts the key of the response, or the one the refusal names, *)
(* into the environment, and starts the agent again.                        *)
SetEnvironment ==
  /\ fromEnv /\ process # "up"
  /\ told' = IF process = "refused" /\ Fits(pendingKey) THEN pendingKey ELSE told
  /\ told' \notin {NoKey, configured} /\ configured' = told'
  /\ process' = "down"
  /\ UNCHANGED <<sealed, pendingKey, ring, step, fresh, writer, reader, snapshot, keyStops, fromEnv>>

KeyStart == OpenStore \/ CompleteRotation \/ RefuseToStart
Rotation == KeyWritten \/ Reencrypt \/ SwitchRing \/ ReencryptFails \/ MoveKey

KeyNext ==
  \/ \E v \in All : SealValue(v) \/ FetchValue(v)
  \/ StoreValue \/ OpenValue \/ Snapshot \/ SnapshotKey
  \/ RotateKey \/ Rotation \/ KeyAgentStops \/ KeyStart \/ SetEnvironment

KeySpec == KeyInit /\ [][KeyNext]_keyVars
KeyFairSpec == KeySpec /\ WF_keyVars(Rotation) /\ WF_keyVars(KeyStart) /\ WF_keyVars(SetEnvironment)

-----------------------------------------------------------------------------
(* Type invariant of the keys, the files and the rotation.                 *)
KeyTypeOK ==
  /\ fromEnv \in BOOLEAN /\ sealed \in [All -> Keys] /\ configured \in Keys
  /\ pendingKey \in Keys \cup {NoKey, Torn} /\ told \in Keys \cup {NoKey}
  /\ ring \in [current : Keys, previous : Keys \cup {NoKey}, turn : 0..MaxRotations]
  /\ process \in {"up", "down", "refused"} /\ fresh \in Keys
  /\ step \in {"idle", "writing", "written", "switch", "committed"}
  /\ writer \in {NoValue} \cup [value : All, key : Keys]
  /\ reader \in {NoValue} \cup [value : All, key : Keys, at : 0..MaxRotations]
  /\ snapshot \in [under : Keys \cup {NoKey}, key : Keys \cup {NoKey}]

(* The order of a rotation makes every point in between recoverable: at    *)
(* each step, with every writer in flight, one of the two keys that are on *)
(* disk opens all of the data.                                             *)
Recoverable == Fits(configured) \/ Fits(pendingKey)

(* The key the agent works with opens the data it works with, but for the  *)
(* moment in which a rotation exchanges both.                              *)
RingFits == process = "up" /\ step # "switch" => Fits(ring.current)

(* A reader that fetched a row before a rotation opens it after that one,  *)
(* though not after a second one.                                          *)
ReadersOpen ==
  reader # NoValue /\ ring.turn <= reader.at + 1 /\ step # "switch" => Opens(reader.key)

(* A copy of the database is under the key that is kept with it.           *)
SnapshotReadable == snapshot.key # NoKey => snapshot.key = snapshot.under

(* However a rotation is cut off, the agent comes up again: by itself when *)
(* the key is in a file, with the operator's help when it is in the        *)
(* environment.                                                            *)
ComesUp == []<>(process = "up")

(* Whatever is stored can be opened by who has to open it (RotateKey,      *)
(* settleRotation, Snapshot).                                              *)
KeysSafe == KeyTypeOK /\ Recoverable /\ RingFits /\ ReadersOpen /\ SnapshotReadable
=============================================================================
