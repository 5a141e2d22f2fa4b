----------------------------- MODULE MCTransfer -----------------------------
(* The two ends of a move between servers, on small instances.  One writes *)
(* exports of two applications while it goes on deploying them.  The     *)
(* other holds a database and the application that uses it, and imports    *)
(* exports of two moments, one of them with an application that is stopped,*)
(* and one that uses a key the standby does not know.  ExportFeed is what  *)
(* they know of each other: a behaviour is one of a single end.            *)
EXTENDS Transfer, Export

VARIABLE part

DatabaseFirst == <<"db", "web">>
Plain(n) == [id |-> n, key |-> FALSE, stopped |-> FALSE]
Exports == {[requires |-> FALSE, read |-> <<Plain(1), Plain(1)>>],
            [requires |-> FALSE, read |-> <<Plain(2), [Plain(2) EXCEPT !.stopped = TRUE]>>],
            [requires |-> TRUE,  read |-> <<Plain(1), [Plain(2) EXCEPT !.key = TRUE]>>]}

(* Each export is of a later moment than the one before it.                *)
Moment(x) == x.read[Len(x.read)].id
InTime == \A i \in DOMAIN bucket : i > 1 => Moment(bucket[i - 1]) < Moment(bucket[i])

Serves(age, domain) == [age |-> age, domain |-> domain]
Two == [web |-> Serves(1, TRUE), db |-> Serves(2, FALSE)]

MoveInit == part \in {"export", "standby"} /\ TransferInit /\ ExportInit

MoveNext ==
    /\ UNCHANGED part
    /\ \/ part = "export" /\ ExportNext /\ UNCHANGED transferVars
       \/ part = "standby" /\ TransferNext /\ InTime' /\ UNCHANGED exportVars

(* The goroutines of both agents run, and the standby's is started again.  *)
MoveSpec ==
    /\ MoveInit /\ [][MoveNext]_<<part, transferVars, exportVars>>
    /\ WF_<<transferVars, exportVars>>(\/ part = "export" /\ WriterStep /\ UNCHANGED transferVars
                                       \/ part = "standby" /\ AgentStep /\ UNCHANGED exportVars)

(* Exports, imports and promotions that are begun end with a record that   *)
(* says how (finishExport, recoverTransfers).                              *)
MovesEnd == TransferEnds /\ ExportEnds
=============================================================================
