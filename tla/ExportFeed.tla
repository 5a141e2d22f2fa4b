----------------------------- MODULE ExportFeed -----------------------------
(***************************************************************************)
(* What a server that writes exports promises whoever reads them: the      *)
(* bucket shows whole exports only, none of them changes, each names every *)
(* key a reader must know for the configurations it carries, and those     *)
(* that are removed are never the newest.                                  *)
(* Export shows that exports are written so; Transfer reads them.          *)
(***************************************************************************)
EXTENDS Naturals, Sequences

CONSTANTS Contents,     \* what an export may hold: [requires, read]
          MaxExports    \* bound: exports in the bucket

VARIABLES bucket,     \* the exports that were published, oldest first
          removed     \* those of them that are not there any more

feedVars == <<bucket, removed>>

(* An entry with a key the reader may not know is announced.               *)
Announced(x) == (\E i \in DOMAIN x.read : x.read[i].key) => x.requires

Publish ==
    /\ Len(bucket) < MaxExports
    /\ \E x \in Contents : Announced(x) /\ bucket' = Append(bucket, x)
    /\ UNCHANGED removed

(* Retention.                                                              *)
Retire ==
    /\ \E old \in SUBSET (1 .. Len(bucket) - 1) : removed' = removed \union old
    /\ UNCHANGED bucket

FeedInit == bucket = <<>> /\ removed = {}

(* The promise: exports are published and, once there is a newer one,      *)
(* removed; nothing else changes the bucket.                               *)
FeedSpec == FeedInit /\ [][Publish \/ Retire]_feedVars
=============================================================================
