----------------------------- MODULE MCBackups -----------------------------
(* What is kept for the worst day, on small instances: backups of two      *)
(* volumes and of the state, the files they are written to, the upload of  *)
(* one of them, and the rotation of the key.  They share no state: a       *)
(* behaviour is one of a single part.                                      *)
EXTENDS Backups, KeyRotation, Upload, BackupFile

VARIABLE part

TwoVolumes == <<"data", "media">>
Used(r, f) == [requests |-> r, stops |-> 0, faults |-> f, restores |-> 0]
MCSpent == {Used(0, 1), Used(1, 0)}

BackupInit ==
    /\ part \in {"backups", "keys", "upload", "file"}
    /\ BackupsInit /\ KeyInit /\ UploadInit /\ FileInit
    /\ part # "backups" => svc.up /\ made[1] = {} /\ used = (CHOOSE u \in Spent : TRUE)
    /\ part # "keys" => fromEnv = (CHOOSE b \in FromEnvs : TRUE)
    /\ part # "upload" => fsize = (CHOOSE n \in FileSizes : TRUE)

BackupNext ==
    /\ UNCHANGED part
    /\ \/ part = "backups" /\ BackupsNext /\ UNCHANGED <<keyVars, uploadVars, fileVars>>
       \/ part = "keys" /\ KeyNext /\ UNCHANGED <<backupVars, uploadVars, fileVars>>
       \/ part = "upload" /\ UploadNext /\ UNCHANGED <<backupVars, keyVars, fileVars>>
       \/ part = "file" /\ FileNext /\ UNCHANGED <<backupVars, keyVars, uploadVars>>

(* The fairness of the parts: the goroutines run, the service manager      *)
(* starts the agent again, the operator sets the environment.              *)
BackupSpec ==
    /\ BackupInit /\ [][BackupNext]_<<part, backupVars, keyVars, uploadVars, fileVars>>
    /\ WF_<<backupVars, keyVars>>(\/ part = "backups" /\ AgentSteps /\ UNCHANGED keyVars
                                  \/ part = "keys" /\ (Rotation \/ KeyStart \/ SetEnvironment) /\ UNCHANGED backupVars)

(* Whole files: an object in the bucket and the file it is made of.        *)
FilesWhole == UploadSafe /\ FileSafe

(* However it is cut off, what is begun with a backup ends and the agent   *)
(* comes up with a key that fits.                                          *)
ComesThrough == BackupsProgress /\ ComesUp
=============================================================================
