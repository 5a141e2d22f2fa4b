---------------------------- MODULE ExportProofs ----------------------------
(***************************************************************************)
(* Export implements ExportFeed, for any applications, deployments made    *)
(* while exports are written, and calls that fail; and the standby that    *)
(* reads the exports (Transfer) has what they hold, whole, and is not      *)
(* undone by them once it took over.                                       *)
(***************************************************************************)
EXTENDS Export, Transfer, SequenceTheorems, FiniteSetTheorems, TLAPS

\* The deployments of the source: numbered in the order they were made.
SourceOK ==
    /\ spent \in [deploys : Nat, faults : Nat] /\ spent.deploys <= MaxDeploys
    /\ source \in [Name -> Entry]
    /\ \A a \in Name : source[a].id <= spent.deploys + 1

\* The export that is written, if there is one.
Draft == [on : {TRUE}, listed : [Name -> Entry], requires : BOOLEAN, read : Seq(Entry), failed : BOOLEAN, ended : BOOLEAN]

\* What was listed is what runs, or a deployment of a higher number has
\* replaced it; and what a reader must know was taken from the list.
ListedOK ==
    writing.on =>
        /\ \A a \in Name : /\ writing.listed[a].id <= source[a].id
                           /\ writing.listed[a].id = source[a].id => writing.listed[a] = source[a]
        /\ \A a \in Name : writing.listed[a].key => writing.requires

\* What was read so far is no longer than the list and announced.
ReadOK ==
    writing.on =>
        /\ Len(writing.read) <= Len(ExportOrder)
        /\ \A i \in DOMAIN writing.read : writing.read[i].key => writing.requires

\* An application that is locked is the next one, and the one that was listed.
HeldOK ==
    held # "none" =>
        /\ held \in Name /\ writing.on /\ ~writing.ended
        /\ source[held] = writing.listed[held]
        /\ Len(writing.read) < Len(ExportOrder)

Outcomes == {"running", "succeeded", "failed", "gone"}

\* Every export in the bucket has a record, and so has the one written.
CountOK ==
    /\ runs \in Seq(Outcomes) /\ written \in Seq(Whole)
    /\ Len(written) <= Len(runs) /\ Len(runs) <= MaxWritten
    /\ writing.on /\ ~writing.ended => Len(written) < Len(runs)

\* A record that says succeeded is of an export, and a later one of a later.
FilesOK ==
    \A n \in DOMAIN runs : runs[n] = "succeeded" =>
        /\ file[n] \in 1 .. Len(written)
        /\ \A m \in DOMAIN runs : m > n /\ runs[m] = "succeeded" => file[n] < file[m]

\* The inductive invariant.
ExportInv ==
    /\ SourceOK /\ writing \in {NotWriting} \cup Draft
    /\ ListedOK /\ ReadOK /\ HeldOK /\ CountOK /\ FilesOK
    /\ DOMAIN file = 1 .. MaxWritten

-----------------------------------------------------------------------------
\* An export that is not being written is no draft.
LEMMA DraftOrNot ==
  ASSUME writing \in {NotWriting} \cup Draft, writing.on
  PROVE  writing \in Draft
BY DEF NotWriting

\* What is left of the list is empty when everything was read, and begins
\* with the next application otherwise.
LEMMA RemainingIs ==
  ASSUME ExportInv, writing.on
  PROVE  /\ writing \in Draft
         /\ Len(writing.read) \in Nat /\ Len(ExportOrder) \in Nat
         /\ IF Len(writing.read) < Len(ExportOrder)
              THEN Remaining # <<>> /\ Head(Remaining) \in Name
              ELSE Remaining = <<>> /\ Len(writing.read) = Len(ExportOrder)
<1> DEFINE m == Len(writing.read) + 1
           n == Len(ExportOrder)
<1>1. writing \in Draft
  BY DraftOrNot DEF ExportInv
<1>2. m - 1 \in Nat /\ n \in Nat /\ m - 1 <= n /\ m \in Nat
  <2>1. writing.read \in Seq(Entry)
    BY <1>1 DEF Draft
  <2> QED BY <2>1, OrderAssumption DEF ExportInv, ReadOK
<1>3. Remaining = SubSeq(ExportOrder, m, n)
  BY DEF Remaining
<1>4. Len(writing.read) < n <=> m <= n
  BY <1>2
<1>5. Len(writing.read) = n <=> m = n + 1
  BY <1>2
<1> HIDE DEF m, n
<1>6. CASE m <= n
  <2>1. m \in 1 .. n /\ n \in m .. n
    BY <1>2, <1>6
  <2>2. \A i \in m .. n : ExportOrder[i] \in Name
    BY <1>2, <2>1, OrderAssumption, ElementOfSeq DEF n
  <2>3. Remaining \in Seq(Name) /\ Len(Remaining) = n - m + 1
    BY <1>2, <1>3, <1>6, <2>2, SubSeqProperties
  <2>4. Remaining # <<>>
    BY <1>2, <1>6, <2>3
  <2> QED BY <1>1, <1>2, <1>4, <1>6, <2>3, <2>4, HeadTailProperties DEF m, n
<1>7. CASE n < m
  <2>1. Remaining = <<>>
    BY <1>2, <1>3, <1>7, SubSeqEmpty
  <2> QED BY <1>1, <1>2, <1>4, <1>5, <1>7, <2>1 DEF m, n
<1> QED BY <1>2, <1>6, <1>7

\* Nothing was exported.
LEMMA ExportInitial == ExportInit => ExportInv
<1> SUFFICES ASSUME ExportInit PROVE ExportInv
  OBVIOUS
<1> USE ExportAssumption
<1>1. SourceOK
  BY DEF ExportInit, SourceOK, Entry, Versions
<1>2. ~writing.on
  BY DEF ExportInit, NotWriting
<1> QED BY <1>1, <1>2 DEF ExportInit, ExportInv, ListedOK, ReadOK, HeldOK, CountOK, FilesOK

\* A deployment of the source (DeployAtSource) leaves a locked application
\* alone and gives any other a number that was not listed.
LEMMA DeployKeeps ==
  ASSUME ExportInv, NEW a \in Name, DeployAtSource(a)
  PROVE  ExportInv'
<1> USE ExportAssumption
<1>1. PICK key \in BOOLEAN, stopped \in BOOLEAN :
        source' = [source EXCEPT ![a] = [id |-> source[a].id + 1, key |-> key, stopped |-> stopped]]
  BY DEF DeployAtSource
<1>2. held # a /\ spent.deploys < MaxDeploys /\ UNCHANGED <<held, writing, runs, written, kept>>
  BY DEF DeployAtSource
<1>3. spent' \in [deploys : Nat, faults : Nat] /\ spent'.deploys = spent.deploys + 1
  BY DEF DeployAtSource, ExportInv, SourceOK
<1>4. \A b \in Name : source[b].id \in Nat
  BY DEF ExportInv, SourceOK, Entry, Versions
<1>5. SourceOK'
  BY <1>1, <1>2, <1>3, <1>4 DEF ExportInv, SourceOK, Entry, Versions
<1>6. ListedOK'
  <2> SUFFICES ASSUME writing.on, NEW b \in Name
               PROVE  /\ writing.listed[b].id <= source'[b].id
                      /\ writing.listed[b].id = source'[b].id => writing.listed[b] = source'[b]
    BY <1>2 DEF ListedOK, ExportInv
  <2>1. writing.listed[b].id <= source[b].id /\ (writing.listed[b].id = source[b].id => writing.listed[b] = source[b])
    BY DEF ExportInv, ListedOK
  <2>2. writing.listed[b].id \in Nat
    <3>1. writing.listed \in [Name -> Entry]
      BY DraftOrNot DEF ExportInv, Draft
    <3> QED BY <3>1 DEF Entry, Versions
  <2>3. CASE b = a
    <3>1. source'[b].id = source[b].id + 1
      BY <1>1, <2>3 DEF ExportInv, SourceOK
    <3> QED BY <2>1, <2>2, <3>1, <1>4
  <2>4. CASE b # a
    BY <2>1, <2>4, <1>1 DEF ExportInv, SourceOK
  <2> QED BY <2>3, <2>4
<1>7. HeldOK'
  BY <1>1, <1>2 DEF ExportInv, HeldOK, SourceOK
<1> QED BY <1>2, <1>5, <1>6, <1>7 DEF ExportInv, ReadOK, CountOK, FilesOK, kept

\* The manifest lists what runs and what that needs.
LEMMA StartKeeps ==
  ASSUME ExportInv, StartExport
  PROVE  ExportInv'
<1> USE ExportAssumption
<1>1. ~writing.on /\ Len(runs) < MaxWritten /\ UNCHANGED <<source, held, written, kept, spent>>
  BY DEF StartExport
<1>2. runs' = Append(runs, "running")
  BY DEF StartExport
<1>3. writing' = [on |-> TRUE, listed |-> source, requires |-> \E a \in Name : source[a].key, read |-> <<>>,
                 failed |-> FALSE, ended |-> FALSE]
  BY DEF StartExport, Manifest, RequiredKeys
<1>4. writing' \in Draft /\ ListedOK' /\ ReadOK'
  <2>0. <<>> \in Seq(Entry)
    OBVIOUS
  <2>1. writing' \in Draft
    BY <1>3, <2>0 DEF Draft, ExportInv, SourceOK
  <2>2. ListedOK'
    BY <1>1, <1>3 DEF ListedOK, ExportInv, SourceOK, Entry, Versions
  <2>3. ReadOK'
    BY <1>3, OrderAssumption DEF ReadOK
  <2> QED BY <2>1, <2>2, <2>3
<1>5. held = "none"
  BY <1>1 DEF ExportInv, HeldOK
<1>6. CountOK'
  <2>1. runs \in Seq(Outcomes) /\ Len(runs) \in Nat /\ Len(written) \in Nat /\ Len(written) <= Len(runs)
    BY DEF ExportInv, CountOK
  <2>2. runs' \in Seq(Outcomes) /\ Len(runs') = Len(runs) + 1
    BY <1>2, <2>1, AppendProperties DEF Outcomes
  <2> QED BY <1>1, <2>1, <2>2 DEF ExportInv, CountOK
<1>7. FilesOK'
  <2>1. runs \in Seq(Outcomes) /\ Len(runs) \in Nat
    BY DEF ExportInv, CountOK
  <2>2. \A n \in DOMAIN runs' : runs'[n] = "succeeded" => n \in DOMAIN runs /\ runs'[n] = runs[n]
    BY <1>2, <2>1
  <2> QED BY <1>1, <2>2 DEF ExportInv, FilesOK, kept
<1> QED BY <1>1, <1>4, <1>5, <1>6, <1>7 DEF ExportInv, SourceOK, HeldOK, kept

\* The next application is locked only as it was listed.
LEMMA LockKeeps ==
  ASSUME ExportInv, LockApplication
  PROVE  ExportInv'
<1> USE ExportAssumption, OrderAssumption
<1>1. writing.on /\ ~writing.ended /\ held = "none" /\ Remaining # <<>> /\ UNCHANGED <<source, runs, written, kept, spent>>
  BY DEF LockApplication
<1>2. writing \in Draft
  BY <1>1, DraftOrNot DEF ExportInv
<1>3. Len(writing.read) \in Nat /\ Len(ExportOrder) \in Nat /\ Len(writing.read) <= Len(ExportOrder)
  BY <1>1, <1>2 DEF Draft, ExportInv, ReadOK
<1>4. Len(writing.read) < Len(ExportOrder)
  BY <1>1, RemainingIs
<1>5. Head(Remaining) \in Name
  BY <1>1, RemainingIs
<1> DEFINE a == Head(Remaining)
<1>6. CASE StillListed(a)
  <2>1. held' = a /\ UNCHANGED writing
    BY <1>6 DEF LockApplication
  <2>2. source[a] = writing.listed[a]
    BY <1>1, <1>5, <1>6 DEF StillListed, ExportInv, ListedOK
  <2> QED BY <1>1, <1>4, <1>5, <2>1, <2>2 DEF ExportInv, SourceOK, ListedOK, ReadOK, HeldOK, CountOK, FilesOK, kept
<1>7. CASE ~StillListed(a)
  <2>1. writing' = [writing EXCEPT !.failed = TRUE] /\ UNCHANGED held
    BY <1>7 DEF LockApplication
  <2>2. writing' \in Draft /\ writing'.on /\ writing'.listed = writing.listed /\ writing'.ended = writing.ended
        /\ writing'.requires = writing.requires /\ writing'.read = writing.read
    BY <1>2, <2>1 DEF Draft
  <2> QED BY <1>1, <2>1, <2>2 DEF ExportInv, SourceOK, ListedOK, ReadOK, HeldOK, CountOK, FilesOK, kept
<1> QED BY <1>6, <1>7

\* What is read is the deployment that was listed.
LEMMA CopyKeeps ==
  ASSUME ExportInv, NEW ok \in BOOLEAN, CopyApplication(ok)
  PROVE  ExportInv'
<1> USE ExportAssumption, OrderAssumption
<1>1. writing.on /\ held # "none" /\ held' = "none" /\ UNCHANGED <<source, runs, written, kept>>
  BY DEF CopyApplication
<1>2. writing \in Draft
  BY <1>1, DraftOrNot DEF ExportInv
<1>3. /\ held \in Name /\ source[held] = writing.listed[held] /\ source[held] \in Entry
      /\ Len(writing.read) < Len(ExportOrder)
  BY <1>1 DEF ExportInv, HeldOK, SourceOK
<1>4. SourceOK'
  <2>1. spent' \in [deploys : Nat, faults : Nat] /\ spent'.deploys = spent.deploys
    BY DEF CopyApplication, Worked, ExportInv, SourceOK
  <2> QED BY <1>1, <2>1 DEF ExportInv, SourceOK
<1>5. CASE ok
  <2>1. writing' = [writing EXCEPT !.read = Append(writing.read, source[held])]
    BY <1>5 DEF CopyApplication
  <2>2. writing' \in Draft /\ writing'.on /\ writing'.listed = writing.listed /\ writing'.ended = writing.ended
        /\ writing'.requires = writing.requires /\ writing'.read = Append(writing.read, source[held])
    <3>1. Append(writing.read, source[held]) \in Seq(Entry)
      BY <1>2, <1>3, AppendProperties DEF Draft
    <3> QED BY <1>2, <2>1, <3>1 DEF Draft
  <2>3. source[held].key => writing.requires
    BY <1>1, <1>3 DEF ExportInv, ListedOK
  <2>4. ReadOK'
    <3>1. Len(writing.read) \in Nat /\ Len(ExportOrder) \in Nat /\ writing.read \in Seq(Entry)
      BY <1>2 DEF Draft
    <3>2. Len(writing'.read) = Len(writing.read) + 1
      BY <2>2, <3>1
    <3>3. ASSUME NEW i \in DOMAIN writing'.read, writing'.read[i].key PROVE writing'.requires
      <4>1. i \in 1 .. Len(writing.read) + 1
        BY <2>2, <3>1, <3>2, <3>3
      <4>2. CASE i = Len(writing.read) + 1
        BY <2>2, <2>3, <3>1, <3>3, <4>2
      <4>3. CASE i # Len(writing.read) + 1
        <5>1. i \in 1 .. Len(writing.read) /\ writing'.read[i] = writing.read[i]
          BY <2>2, <3>1, <4>1, <4>3
        <5> QED BY <1>1, <2>2, <3>1, <3>3, <5>1 DEF ExportInv, ReadOK
      <4> QED BY <4>2, <4>3
    <3> QED BY <1>3, <3>1, <3>2, <3>3 DEF ReadOK
  <2> QED BY <1>1, <1>4, <2>2, <2>4 DEF ExportInv, ListedOK, HeldOK, CountOK, FilesOK, kept
<1>6. CASE ~ok
  <2>1. writing' = [writing EXCEPT !.failed = TRUE]
    BY <1>6 DEF CopyApplication
  <2>2. writing' \in Draft /\ writing'.on /\ writing'.listed = writing.listed /\ writing'.ended = writing.ended
        /\ writing'.requires = writing.requires /\ writing'.read = writing.read
    BY <1>2, <2>1 DEF Draft
  <2> QED BY <1>1, <1>4, <2>2 DEF ExportInv, ListedOK, ReadOK, HeldOK, CountOK, FilesOK, kept
<1> QED BY <1>5, <1>6

\* What an export looks like to a reader once everything was read.
LEMMA DraftIsWhole ==
  ASSUME ExportInv, writing.on, Remaining = <<>>
  PROVE  LET x == [requires |-> writing.requires, read |-> writing.read]
         IN  x \in Whole /\ Feed!Announced(x)
<1> USE OrderAssumption
<1>1. writing \in Draft
  BY DraftOrNot DEF ExportInv
<1>2. Len(writing.read) \in Nat /\ Len(ExportOrder) \in Nat /\ Len(writing.read) <= Len(ExportOrder)
  BY <1>1 DEF Draft, ExportInv, ReadOK
<1>3. Len(writing.read) = Len(ExportOrder)
  BY RemainingIs
<1>4. writing.read \in [1 .. Len(ExportOrder) -> Entry] /\ writing.requires \in BOOLEAN
  BY <1>1, <1>3 DEF Draft
<1>5. (\E i \in DOMAIN writing.read : writing.read[i].key) => writing.requires
  BY DEF ExportInv, ReadOK
<1> QED BY <1>4, <1>5 DEF Whole, Feed!Announced

\* Only a whole export is published, it is the next one, and a record that
\* says succeeded is of it.
LEMMA FinishPublishes ==
  ASSUME ExportInv, NEW ok \in BOOLEAN, FinishExport(ok)
  PROVE  ExportInv' /\ UNCHANGED pruned /\ (written' # written => Feed!Publish)
<1> USE ExportAssumption
<1> DEFINE x == [requires |-> writing.requires, read |-> writing.read]
           good == ok /\ ~writing.failed
           last == Len(runs)
<1>1. /\ writing.on /\ ~writing.ended /\ held = "none" /\ (writing.failed \/ Remaining = <<>>)
      /\ writing' = [writing EXCEPT !.ended = TRUE] /\ UNCHANGED <<source, held, pruned>>
  BY DEF FinishExport
<1>2. PICK shown \in BOOLEAN :
        /\ shown => ~writing.failed
        /\ good => shown
        /\ written' = IF shown THEN Append(written, x) ELSE written
        /\ file' = IF good THEN [file EXCEPT ![last] = Len(written) + 1] ELSE file
        /\ runs' = [runs EXCEPT ![last] = IF good THEN "succeeded" ELSE "failed"]
  BY DEF FinishExport
<1>3. shown => x \in Whole /\ Feed!Announced(x)
  BY <1>1, <1>2, DraftIsWhole
<1>4. /\ Len(written) < last /\ last <= MaxWritten /\ written \in Seq(Whole) /\ Len(written) \in Nat /\ last \in Nat
      /\ runs \in Seq(Outcomes) /\ last \in 1 .. last /\ last \in DOMAIN file /\ DOMAIN runs = 1 .. last
  BY <1>1 DEF ExportInv, CountOK
<1> DEFINE outcome == IF good THEN "succeeded" ELSE "failed"
<1>5. runs' \in Seq(Outcomes) /\ Len(runs') = last
  <2>1. outcome \in Outcomes /\ runs' = [runs EXCEPT ![last] = outcome]
    BY <1>2 DEF Outcomes
  <2> HIDE DEF outcome
  <2> QED BY <1>4, <2>1, ExceptSeq
<1>6. written' \in Seq(Whole) /\ Len(written') = IF shown THEN Len(written) + 1 ELSE Len(written)
  BY <1>2, <1>3, <1>4
<1>7. SourceOK'
  <2>1. spent' \in [deploys : Nat, faults : Nat] /\ spent'.deploys = spent.deploys
    BY DEF FinishExport, Worked, ExportInv, SourceOK
  <2> QED BY <1>1, <2>1 DEF ExportInv, SourceOK
<1>8. /\ writing' \in Draft /\ writing'.on /\ writing'.ended /\ writing'.listed = writing.listed
      /\ writing'.requires = writing.requires /\ writing'.read = writing.read
  BY <1>1, DraftOrNot DEF ExportInv, Draft
<1>9. CountOK'
  BY <1>4, <1>5, <1>6, <1>8 DEF CountOK
<1>10. FilesOK'
  <2>1. \A n \in DOMAIN runs' : /\ n \in 1 .. last
                                /\ runs'[n] = IF n = last THEN outcome ELSE runs[n]
                                /\ file'[n] = IF n = last /\ good THEN Len(written) + 1 ELSE file[n]
    BY <1>2, <1>4
  <2>2. \A n \in 1 .. last : runs[n] = "succeeded" =>
          file[n] \in 1 .. Len(written) /\ \A m \in 1 .. last : m > n /\ runs[m] = "succeeded" => file[n] < file[m]
    BY <1>4 DEF ExportInv, FilesOK
  <2>3. SUFFICES ASSUME NEW n \in DOMAIN runs', runs'[n] = "succeeded"
                 PROVE  /\ file'[n] \in 1 .. Len(written')
                        /\ \A m \in DOMAIN runs' : m > n /\ runs'[m] = "succeeded" => file'[n] < file'[m]
    BY DEF FilesOK
  <2>4. CASE n = last
    BY <1>2, <1>4, <1>6, <2>1, <2>3, <2>4
  <2>5. CASE n # last
    <3>1. runs[n] = "succeeded" /\ file'[n] = file[n] /\ file[n] \in 1 .. Len(written)
      BY <2>1, <2>2, <2>3, <2>5
    <3>2. ASSUME NEW m \in DOMAIN runs', m > n, runs'[m] = "succeeded" PROVE file'[n] < file'[m]
      BY <1>4, <2>1, <2>2, <3>1, <3>2
    <3> QED BY <1>4, <1>6, <3>1, <3>2
  <2> QED BY <2>4, <2>5
<1>11. DOMAIN file' = 1 .. MaxWritten
  BY <1>2 DEF ExportInv
<1>12. ExportInv'
  BY <1>1, <1>7, <1>8, <1>9, <1>10, <1>11 DEF ExportInv, ListedOK, ReadOK, HeldOK
<1>13. written' # written => Feed!Publish
  BY <1>1, <1>2, <1>3, <1>4 DEF Feed!Publish
<1> QED BY <1>1, <1>12, <1>13

\* Retention has a newer export for each it removes.
LEMMA PruneRetires ==
  ASSUME ExportInv, PruneExports
  PROVE  ExportInv' /\ UNCHANGED written /\ Feed!Retire
<1> USE ExportAssumption
<1> DEFINE old == {n \in DOMAIN runs : Overdue(n, "succeeded")}
<1>1. writing' = NotWriting /\ UNCHANGED <<source, held, written, file>> /\ writing.on /\ writing.ended
  BY DEF PruneExports
<1>2. PICK stay \in SUBSET old :
        /\ Worked(stay = {})
        /\ \E half \in SUBSET stay : pruned' = pruned \union {file[n] : n \in (old \ stay) \union half}
        /\ runs' = [n \in DOMAIN runs |-> IF n \in old \ stay \/ Overdue(n, "failed") THEN "gone" ELSE runs[n]]
  BY DEF PruneExports
<1>3. runs \in Seq(Outcomes) /\ DOMAIN runs = 1 .. Len(runs) /\ Len(runs) \in Nat /\ Len(written) \in Nat
  BY DEF ExportInv, CountOK
<1>4. \A n \in old : file[n] \in 1 .. Len(written) - 1
  <2> SUFFICES ASSUME NEW n \in DOMAIN runs, Overdue(n, "succeeded") PROVE file[n] \in 1 .. Len(written) - 1
    OBVIOUS
  <2>1. runs[n] = "succeeded" /\ Cardinality(Later(n)) >= ExportsKept
    BY DEF Overdue
  <2>2. Later(n) # {}
    BY <2>1, FS_EmptySet
  <2>3. PICK m \in DOMAIN runs : m > n /\ runs[m] = "succeeded"
    BY <2>1, <2>2 DEF Later
  <2>4. file[n] \in 1 .. Len(written) /\ file[m] \in 1 .. Len(written) /\ file[n] < file[m]
    BY <2>1, <2>3 DEF ExportInv, FilesOK
  <2> QED BY <1>3, <2>4
<1>5. Feed!Retire
  <2>1. PICK half \in SUBSET stay : pruned' = pruned \union {file[n] : n \in (old \ stay) \union half}
    BY <1>2
  <2>2. {file[n] : n \in (old \ stay) \union half} \in SUBSET (1 .. Len(written) - 1)
    BY <1>4
  <2> HIDE DEF old
  <2> QED BY <1>1, <2>1, <2>2 DEF Feed!Retire
<1>6. runs' \in Seq(Outcomes) /\ DOMAIN runs' = DOMAIN runs /\ Len(runs') = Len(runs)
  <2>1. \A n \in 1 .. Len(runs) : runs[n] \in Outcomes /\ runs'[n] \in Outcomes
    BY <1>2, <1>3, ElementOfSeq DEF Outcomes
  <2> QED BY <1>2, <1>3, <2>1
<1>7. \A n \in DOMAIN runs' : runs'[n] = "succeeded" => runs[n] = "succeeded"
  BY <1>2
<1>8. FilesOK'
  BY <1>1, <1>6, <1>7 DEF ExportInv, FilesOK
<1>9. ~writing'.on
  BY <1>1 DEF NotWriting
<1>10. SourceOK'
  <2>1. spent' \in [deploys : Nat, faults : Nat] /\ spent'.deploys = spent.deploys
    BY <1>2 DEF Worked, ExportInv, SourceOK
  <2> QED BY <1>1, <2>1 DEF ExportInv, SourceOK
<1>11. held = "none"
  BY <1>1 DEF PruneExports, ExportInv, HeldOK
<1>12. CountOK'
  BY <1>1, <1>6, <1>9 DEF ExportInv, CountOK
<1> QED BY <1>1, <1>5, <1>8, <1>9, <1>10, <1>11, <1>12 DEF ExportInv, ListedOK, ReadOK, HeldOK

-----------------------------------------------------------------------------
\* Exports are written and kept as ExportFeed promises (writeExport,
\* exportApplication, requiredKeys, pruneBackups): the bucket gains only
\* exports that are whole and whose manifest announces every key their
\* configurations use, and loses only such as have a newer one.
THEOREM ExportsFeedReaders == ExportSpec => FeedsReaders
<1>1. ExportInit => Feed!FeedInit
  BY DEF ExportInit, Feed!FeedInit
<1>2. ExportInv /\ [ExportNext]_exportVars => ExportInv' /\ [Feed!Publish \/ Feed!Retire]_(Feed!feedVars)
  <2> SUFFICES ASSUME ExportInv, [ExportNext]_exportVars
               PROVE  ExportInv' /\ (Feed!Publish \/ Feed!Retire \/ UNCHANGED <<written, pruned>>)
    BY DEF Feed!feedVars
  <2>1. ASSUME NEW a \in Name, DeployAtSource(a) PROVE ExportInv' /\ UNCHANGED <<written, pruned>>
    BY <2>1, DeployKeeps DEF DeployAtSource, kept
  <2>2. CASE StartExport
    BY <2>2, StartKeeps DEF StartExport, kept
  <2>3. CASE LockApplication
    BY <2>3, LockKeeps DEF LockApplication, kept
  <2>4. ASSUME NEW ok \in BOOLEAN, CopyApplication(ok) PROVE ExportInv' /\ UNCHANGED <<written, pruned>>
    BY <2>4, CopyKeeps DEF CopyApplication, kept
  <2>5. ASSUME NEW ok \in BOOLEAN, FinishExport(ok)
        PROVE ExportInv' /\ (Feed!Publish \/ UNCHANGED <<written, pruned>>)
    BY <2>5, FinishPublishes
  <2>6. CASE PruneExports
    BY <2>6, PruneRetires
  <2>7. CASE UNCHANGED exportVars
    BY <2>7 DEF exportVars, ExportInv, SourceOK, ListedOK, ReadOK, HeldOK, CountOK, FilesOK
  <2> QED BY <2>1, <2>2, <2>3, <2>4, <2>5, <2>6, <2>7 DEF ExportNext, WriterStep
<1> QED BY <1>1, <1>2, ExportInitial, PTL DEF ExportSpec, FeedsReaders, Feed!FeedSpec

-----------------------------------------------------------------------------
(* The standby.                                                             *)

(* A deployment that has begun and is not over: its lock is held, or will   *)
(* be again.                                                                *)
InFlight(a) == roll[a].at \in {"created", "boxed", "active"}

(* What can be fetched names every key a reader must know.                  *)
BucketOK == bucket \in Seq(Contents) /\ \A k \in DOMAIN bucket : Announced(bucket[k])

(* Where an import can be, and what becomes of an application.              *)
Places == {"manifest", "next", "resolve", "clear", "fill", "await"}
Statuses == {"none", "pending", "running", "skipped", "failed", "imported"}

(* The deployments an import began.                                         *)
RollRec == [at : {"created", "boxed", "active", "done", "failed"}, id : Ids,
            key : BOOLEAN, dormant : BOOLEAN, kind : {"standby", "import"}]
RollsOK == roll \in [App -> {NoRoll} \cup RollRec]

(* The import that runs, in memory and in its record.                       *)
ImportRun == [on : {TRUE}, at : Places, n : Nat, fetched : BOOLEAN, stopped : BOOLEAN,
              overwrite : BOOLEAN, next : Nat]
ImportRec == [status : {"none", "running", "succeeded", "failed"}, fetched : BOOLEAN, apps : [App -> Statuses]]
ImportOK ==
    /\ imp \in {NotImporting} \cup ImportRun /\ impRec \in ImportRec
    /\ pull \in [last : Nat, error : BOOLEAN]
    /\ imp.on =>
        /\ imp.n \in DOMAIN bucket /\ imp.next \in 1..(Len(Applications) + 1)
        /\ imp.at \in {"resolve", "clear", "fill", "await"} => imp.next \in DOMAIN Applications
        /\ impRec.status = "running" /\ impRec.fetched = imp.fetched
        /\ imp.at # "manifest" => ~bucket[imp.n].requires /\ secrets # 0
        /\ imp.at = "manifest" => imp.next = 1

(* The server is in one transfer at a time, and in none while it is down.   *)
OneTransfer ==
    /\ up \in BOOLEAN /\ ~(imp.on /\ promo.on)
    /\ ~up => ~imp.on /\ ~promo.on /\ \A a \in App : lock[a] = "free"
    /\ "on" \in DOMAIN promo /\ promo.on \in BOOLEAN
    /\ {"status", "apps"} \subseteq DOMAIN promoRec

(* What is being replaced is down and stays so.                             *)
ReplacedIsDown ==
    imp.on /\ imp.at \in {"clear", "fill"} =>
        /\ lock[Current] = "import" /\ app[Current].desired = "stopped"
        /\ imp.at = "fill" => app[Current].box = "none"

(* One application: whose data its volume holds, and who had it started.    *)
DataOK(a) ==
    /\ InFlight(a) => app[a].vol = roll[a].id
    /\ roll[a].at \in {"created", "boxed"} => app[a].desired = "stopped"
    /\ roll[a].at = "active" => app[a].dep = roll[a].id /\ roll[a].dormant
    /\ a \notin blind /\ app[a].box # "none" => app[a].vol = IF InFlight(a) THEN roll[a].id ELSE app[a].dep
    /\ a \notin blind /\ Runs(a) => app[a].vol = app[a].dep
    /\ lock[a] = "start" => app[a].box = "running" \/ a \in blind
    /\ Active(a) \/ roll[a].at # "none" => secrets # 0
(* Whether somebody asked for it, since it was imported.                    *)
AskedOK(a) ==
    /\ InFlight(a) => (roll[a].dormant <=> a \notin asked)
    /\ ~StopsInCommit =>
        /\ roll[a].at = "active" => up
        /\ app[a].box = "running" => a \in asked
        /\ Runs(a) /\ roll[a].at # "active" => a \in asked
        /\ lock[a] = "start" => a \in asked

(* The applications an import is done with, and those of the last fetch.    *)
Here(i, n) == LET a == Applications[i] IN a \in asked \/ app[a].vol = bucket[n].read[i].id
FetchOK ==
    /\ impRec.fetched /\ impRec.status = "succeeded" =>
        /\ pull.last \in DOMAIN bucket
        /\ \A i \in DOMAIN Applications : impRec.apps[Applications[i]] = "skipped" \/ Here(i, pull.last)
    /\ imp.on /\ imp.at # "manifest" =>
        \A i \in 1..(imp.next - 1) :
            /\ impRec.apps[Applications[i]] \in {"skipped", "failed", "imported"}
            /\ impRec.apps[Applications[i]] = "imported" => Here(i, imp.n)
    /\ imp.on /\ imp.at = "await" => app[Current].vol = bucket[imp.n].read[imp.next].id

UpsetsOK == "upsets" \in DOMAIN used /\ used.upsets \in Nat

(* The inductive invariant.                                                 *)
StandbyInv ==
    /\ TransferTypeOK /\ RollsOK /\ BucketOK /\ ImportOK /\ OneTransfer /\ ReplacedIsDown
    /\ \A a \in App : DataOK(a) /\ AskedOK(a)
    /\ NothingDropped /\ FetchOK
    /\ UpsetsOK

(* The parts of the type invariant.                                         *)
AppRec == [dep : Ids \union {0}, key : BOOLEAN, kind : {"none", "standby", "import"},
           desired : {"running", "stopped"}, box : {"none", "created", "running"},
           vol : Ids \union {0, Half}]
AppsTyped == app \in [App -> AppRec] /\ lock \in [App -> Holders]
ImportLock == \A a \in App : lock[a] = "import" => imp.on /\ Current = a /\ imp.at \in {"clear", "fill"}
DeploymentLock == \A a \in App : up /\ InFlight(a) <=> lock[a] = "deployment"

(* Its parts are those the type invariant has.                              *)
LEMMA TypeParts ==
  TransferTypeOK <=> /\ AppsTyped /\ ImportLock /\ DeploymentLock
                     /\ impRec.status \in {"none", "running", "succeeded", "failed"}
                     /\ promoRec.status \in {"none", "running", "succeeded", "failed"}
  BY DEF TransferTypeOK, AppsTyped, ImportLock, DeploymentLock, AppRec, InFlight

(* And after a step.                                                        *)
LEMMA TypePartsNext ==
  TransferTypeOK' <=> /\ AppsTyped' /\ ImportLock' /\ DeploymentLock'
                      /\ impRec'.status \in {"none", "running", "succeeded", "failed"}
                      /\ promoRec'.status \in {"none", "running", "succeeded", "failed"}
  BY DEF TransferTypeOK, AppsTyped, ImportLock, DeploymentLock, AppRec, InFlight

(* The fields of a deployment.                                              *)
LEMMA RollFields ==
  ASSUME NEW x \in {NoRoll} \cup RollRec
  PROVE  /\ x.at \in {"none", "created", "boxed", "active", "done", "failed"}
         /\ x.at # "none" => /\ x \in RollRec /\ x.id \in Ids /\ x.key \in BOOLEAN /\ x.dormant \in BOOLEAN
                             /\ x.kind \in {"standby", "import"}
         /\ x.at = "none" => x = NoRoll
  BY DEF RollRec, NoRoll

(* An import that runs is at a place of its own.                            *)
LEMMA RunningImport ==
  ASSUME ImportOK, imp.on
  PROVE  imp \in ImportRun
  BY DEF ImportOK, NotImporting

(* The application an import is at is another than those it is done with.   *)
LEMMA CurrentIs ==
  ASSUME TransferAssumption, imp.next \in DOMAIN Applications
  PROVE  /\ Current \in App
         /\ \A i \in DOMAIN Applications : i # imp.next => Applications[i] \in App /\ Applications[i] # Current
  BY DEF TransferAssumption, Current, App, Range

(* What is in the order of an export is an application.                      *)
LEMMA ApplicationsAreApps ==
  ASSUME TransferAssumption
  PROVE  /\ \A i \in DOMAIN Applications : Applications[i] \in App
         /\ DOMAIN Applications = 1..Len(Applications) /\ Len(Applications) \in Nat
  BY DEF TransferAssumption, App, Range

(* What an import is done with stays so while nothing of it is exchanged.   *)
LEMMA FetchKept ==
  ASSUME TransferAssumption, FetchOK, ImportOK, UNCHANGED <<imp, impRec, pull, bucket>>,
         \A a \in App : app'[a].vol = app[a].vol, asked \subseteq asked'
  PROVE  FetchOK'
<1>1. \A k : \A i \in DOMAIN Applications : Here(i, k) => Here(i, k)'
  BY ApplicationsAreApps DEF Here
<1>2. impRec.fetched /\ impRec.status = "succeeded" =>
        /\ pull.last \in DOMAIN bucket
        /\ \A i \in DOMAIN Applications : impRec.apps[Applications[i]] = "skipped" \/ Here(i, pull.last)'
  BY <1>1 DEF FetchOK
<1>3. imp.on => imp.next \in 1..(Len(Applications) + 1)
  BY DEF ImportOK
<1>4. imp.on => \A i \in 1..(imp.next - 1) : i \in DOMAIN Applications
  BY <1>3, ApplicationsAreApps
<1>5. imp.on /\ imp.at # "manifest" =>
        \A i \in 1..(imp.next - 1) :
            /\ impRec.apps[Applications[i]] \in {"skipped", "failed", "imported"}
            /\ impRec.apps[Applications[i]] = "imported" => Here(i, imp.n)'
  BY <1>1, <1>4 DEF FetchOK
<1>6. imp.on /\ imp.at = "await" => app'[Current].vol = bucket[imp.n].read[imp.next].id
  <2>1. imp.on /\ imp.at = "await" => Current \in App
    BY CurrentIs DEF ImportOK
  <2> QED
    BY <2>1 DEF FetchOK
<1> QED
  BY <1>2, <1>5, <1>6 DEF FetchOK, Current

-----------------------------------------------------------------------------
(* A step of one application outside of an import: no volume is exchanged,  *)
(* and who was asked for stays so.                                          *)
OneApp(c) ==
    /\ AppsTyped' /\ RollsOK'
    /\ \A a \in App \ {c} : app'[a] = app[a] /\ roll'[a] = roll[a] /\ lock'[a] = lock[a]
    /\ \A a \in App \ {c} : (a \in asked' <=> a \in asked) /\ (a \in blind' <=> a \in blind)
    /\ asked \subseteq asked'
    /\ app'[c].vol = app[c].vol
    /\ lock[c] # "import" /\ lock'[c] # "import"

(* An application whose rows stay as they are keeps what is known of it.    *)
LEMMA RowsKept ==
  ASSUME StandbyInv, NEW C,
         \A a \in App \ C : app'[a] = app[a] /\ roll'[a] = roll[a] /\ lock'[a] = lock[a] /\ (a \in asked' <=> a \in asked) /\ (a \in blind' <=> a \in blind),
         up' = up, secrets # 0 => secrets' # 0
  PROVE  \A a \in App \ C : DataOK(a)' /\ AskedOK(a)' /\ ~app'[a].key /\ (roll'[a].at # "none" => ~roll'[a].key)
<1> TAKE a \in App \ C
<1>1. DataOK(a) /\ AskedOK(a) /\ ~app[a].key /\ (roll[a].at # "none" => ~roll[a].key)
  BY DEF StandbyInv, NothingDropped
<1>2. app'[a] = app[a] /\ roll'[a] = roll[a] /\ lock'[a] = lock[a] /\ (a \in asked' <=> a \in asked) /\ (a \in blind' <=> a \in blind)
  OBVIOUS
<1>3. DataOK(a)'
  BY <1>1, <1>2 DEF DataOK, InFlight, Runs, Active
<1>4. AskedOK(a)'
  BY <1>1, <1>2 DEF AskedOK, InFlight, Runs, Active
<1> QED
  BY <1>1, <1>2, <1>3, <1>4

(* Such a step keeps what is known of the standby.                          *)
LEMMA OneAppKeeps ==
  ASSUME TransferAssumption, StandbyInv, NEW c \in App, OneApp(c),
         UNCHANGED <<bucket, importVars, up>>, OneTransfer', UpsetsOK',
         promoRec'.status \in {"none", "running", "succeeded", "failed"},
         up /\ InFlight(c)' <=> lock'[c] = "deployment",
         DataOK(c)', AskedOK(c)', ~app'[c].key, roll'[c].at # "none" => ~roll'[c].key
  PROVE  StandbyInv'
<1>1. UNCHANGED <<imp, impRec, pull, secrets, bucket, up>>
  BY DEF importVars
<1>2. TransferTypeOK'
  <2>1. AppsTyped' /\ (\A a \in App \ {c} : lock'[a] = lock[a] /\ roll'[a] = roll[a]) /\ lock'[c] # "import"
    BY DEF OneApp
  <2>2. ImportLock /\ DeploymentLock /\ impRec.status \in {"none", "running", "succeeded", "failed"}
    BY TypeParts DEF StandbyInv
  <2>3. ImportLock'
    BY <1>1, <2>1, <2>2 DEF ImportLock, Current
  <2>4. DeploymentLock'
    BY <1>1, <2>1, <2>2 DEF DeploymentLock, InFlight
  <2> QED
    BY <1>1, <2>1, <2>2, <2>3, <2>4, TypePartsNext
<1>3. RollsOK' /\ BucketOK' /\ ImportOK'
  BY <1>1 DEF OneApp, StandbyInv, BucketOK, ImportOK
<1>4. ReplacedIsDown'
  <2>1. ReplacedIsDown /\ ImportOK
    BY DEF StandbyInv
  <2>2. imp.on /\ imp.at \in {"clear", "fill"} => Current # c /\ Current \in App
    BY <2>1, CurrentIs DEF ReplacedIsDown, OneApp, ImportOK
  <2> QED
    BY <1>1, <2>1, <2>2 DEF ReplacedIsDown, Current, OneApp
<1>5. \A a \in App \ {c} : DataOK(a)' /\ AskedOK(a)' /\ ~app'[a].key /\ (roll'[a].at # "none" => ~roll'[a].key)
  BY <1>1, RowsKept DEF OneApp
<1>6. \A a \in App : DataOK(a)' /\ AskedOK(a)'
  BY <1>5
<1>7. NothingDropped'
  BY <1>5 DEF NothingDropped
<1>8. FetchOK'
  <2>1. FetchOK /\ ImportOK
    BY DEF StandbyInv
  <2>2. \A a \in App : app'[a].vol = app[a].vol
    BY DEF OneApp
  <2>3. asked \subseteq asked'
    BY DEF OneApp
  <2> QED
    BY <1>1, <2>1, <2>2, <2>3, FetchKept
<1> QED
  BY <1>2, <1>3, <1>4, <1>6, <1>7, <1>8 DEF StandbyInv

(* What is known of one application.                                        *)
LEMMA RowIs ==
  ASSUME StandbyInv, NEW c \in App
  PROVE  /\ app \in [App -> AppRec] /\ roll \in [App -> {NoRoll} \cup RollRec] /\ lock \in [App -> Holders]
         /\ app[c] \in AppRec /\ roll[c] \in {NoRoll} \cup RollRec /\ lock[c] \in Holders
         /\ DataOK(c) /\ AskedOK(c) /\ ~app[c].key /\ (roll[c].at # "none" => ~roll[c].key)
         /\ up /\ InFlight(c) <=> lock[c] = "deployment"
         /\ promoRec.status \in {"none", "running", "succeeded", "failed"}
  BY TypeParts DEF StandbyInv, RollsOK, AppsTyped, DeploymentLock, NothingDropped

(* One row of a function of rows is replaced.                               *)
LEMMA RowReplaced ==
  ASSUME NEW S, NEW f \in [App -> S], NEW c \in App, NEW x \in S
  PROVE  /\ [f EXCEPT ![c] = x] \in [App -> S] /\ [f EXCEPT ![c] = x][c] = x
         /\ \A a \in App \ {c} : [f EXCEPT ![c] = x][a] = f[a]
  OBVIOUS

(* The row of an application is replaced.                                   *)
LEMMA AppIs ==
  ASSUME StandbyInv, NEW c \in App, NEW x \in AppRec, app' = [app EXCEPT ![c] = x]
  PROVE  app' \in [App -> AppRec] /\ app'[c] = x /\ \A a \in App \ {c} : app'[a] = app[a]
  BY RowIs, RowReplaced

(* The row of its deployment is replaced.                                   *)
LEMMA RollIs ==
  ASSUME StandbyInv, NEW c \in App, NEW y \in {NoRoll} \cup RollRec, roll' = [roll EXCEPT ![c] = y]
  PROVE  roll' \in [App -> {NoRoll} \cup RollRec] /\ roll'[c] = y /\ \A a \in App \ {c} : roll'[a] = roll[a]
<1> DEFINE S == {NoRoll} \cup RollRec
<1>1. roll \in [App -> S] /\ y \in S
  BY RowIs
<1> HIDE DEF S
<1>2. /\ roll' \in [App -> S] /\ roll'[c] = y /\ \A a \in App \ {c} : roll'[a] = roll[a]
  BY <1>1, RowReplaced
<1> QED
  BY <1>2 DEF S

(* The holder of its lock is replaced.                                      *)
LEMMA LockIs ==
  ASSUME StandbyInv, NEW c \in App, NEW h \in Holders, lock' = [lock EXCEPT ![c] = h]
  PROVE  lock' \in [App -> Holders] /\ lock'[c] = h /\ \A a \in App \ {c} : lock'[a] = lock[a]
  BY RowIs, RowReplaced

(* What stays as it is for both ends of a transfer.                         *)
LEMMA NoTransferStep ==
  ASSUME StandbyInv, UNCHANGED <<up, imp, promo, promoRec>>, ~up => lock' = lock
  PROVE  OneTransfer'
  BY DEF StandbyInv, OneTransfer

(* The containers of a deployment are created, and started unless it is     *)
(* dormant (execute, executeDormant).                                       *)
LEMMA CreateReplicasKeeps ==
  ASSUME TransferAssumption, StandbyInv, NEW c \in App, CreateReplicas(c)
  PROVE  StandbyInv'
<1> DEFINE x == [app[c] EXCEPT !.desired = IF roll[c].dormant THEN "stopped" ELSE @,
                               !.box = IF roll[c].dormant THEN "created" ELSE "running"]
           y == [roll[c] EXCEPT !.at = "boxed"]
<1>1. /\ up /\ roll[c].at = "created"
      /\ app' = [app EXCEPT ![c] = x] /\ roll' = [roll EXCEPT ![c] = y]
      /\ UNCHANGED <<lock, order, used, bucket, importVars, promoVars, up, asked, blind>>
  BY DEF feedVars, CreateReplicas, RollOnly
<1>2. /\ app \in [App -> AppRec] /\ roll \in [App -> {NoRoll} \cup RollRec] /\ lock \in [App -> Holders]
      /\ app[c] \in AppRec /\ roll[c] \in {NoRoll} \cup RollRec
      /\ DataOK(c) /\ AskedOK(c) /\ ~app[c].key /\ (roll[c].at # "none" => ~roll[c].key)
      /\ up /\ InFlight(c) <=> lock[c] = "deployment"
  BY RowIs
<1>3. roll[c] \in RollRec /\ lock[c] = "deployment"
  BY <1>1, <1>2, RollFields DEF InFlight
<1>4. /\ x \in AppRec /\ x.desired = "stopped" /\ x.box # "none"
      /\ x.box = "running" <=> ~roll[c].dormant
      /\ x.vol = app[c].vol /\ x.dep = app[c].dep /\ ~x.key
  BY <1>1, <1>2, <1>3 DEF AppRec, RollRec, DataOK
<1>5. /\ y \in RollRec /\ y.at = "boxed" /\ y.id = roll[c].id /\ y.dormant = roll[c].dormant /\ ~y.key
  BY <1>2, <1>3, <1>1 DEF RollRec
<1> HIDE DEF x, y
<1>6. /\ app' \in [App -> AppRec] /\ app'[c] = x /\ \A a \in App \ {c} : app'[a] = app[a]
  BY <1>1, <1>4, AppIs
<1>7. /\ roll' \in [App -> {NoRoll} \cup RollRec] /\ roll'[c] = y /\ \A a \in App \ {c} : roll'[a] = roll[a]
  BY <1>1, <1>5, RollIs
<1>8. OneApp(c)
  BY <1>1, <1>2, <1>3, <1>4, <1>6, <1>7 DEF OneApp, AppsTyped, RollsOK
<1>9. DataOK(c)'
  BY <1>1, <1>2, <1>3, <1>4, <1>5, <1>6, <1>7 DEF DataOK, InFlight, Runs, Active, importVars
<1>10. AskedOK(c)'
  BY <1>1, <1>2, <1>3, <1>4, <1>5, <1>6, <1>7 DEF AskedOK, InFlight, Runs, Active, importVars, RollRec
<1>11. OneTransfer' /\ UpsetsOK' /\ promoRec'.status \in {"none", "running", "succeeded", "failed"}
  BY <1>1, <1>2, NoTransferStep, RowIs DEF importVars, promoVars, StandbyInv, UpsetsOK
<1>12. up /\ InFlight(c)' <=> lock'[c] = "deployment"
  BY <1>1, <1>3, <1>5, <1>7 DEF InFlight
<1> QED
  BY <1>1, <1>4, <1>5, <1>6, <1>7, <1>8, <1>9, <1>10, <1>11, <1>12, OneAppKeeps

(* An end, a failing call or a start or stop by hand uses up an upset.      *)
LEMMA UpsetSpent ==
  ASSUME StandbyInv, Spend("upsets")
  PROVE  UpsetsOK' /\ used'.upsets > used.upsets
<1>1. used.upsets \in Nat /\ "upsets" \in DOMAIN used /\ used' = [used EXCEPT !["upsets"] = @ + 1]
  BY DEF StandbyInv, UpsetsOK, Spend
<1>2. used'.upsets = used.upsets + 1 /\ "upsets" \in DOMAIN used'
  BY <1>1
<1> QED
  BY <1>1, <1>2 DEF UpsetsOK

(* The commit of a deployment: the volume it runs on is its own.            *)
LEMMA ActivateKeeps ==
  ASSUME TransferAssumption, StandbyInv, NEW c \in App, Activate(c)
  PROVE  StandbyInv'
<1> DEFINE x == [app[c] EXCEPT !.dep = roll[c].id, !.key = roll[c].key, !.kind = roll[c].kind, !.desired = "running"]
           y == [roll[c] EXCEPT !.at = IF roll[c].dormant THEN "active" ELSE "done"]
<1>1. /\ up /\ roll[c].at = "boxed"
      /\ app' = [app EXCEPT ![c] = x] /\ roll' = [roll EXCEPT ![c] = y]
      /\ lock' = IF roll[c].dormant THEN lock ELSE [lock EXCEPT ![c] = "free"]
      /\ UNCHANGED <<used, bucket, importVars, promoVars, up, asked, blind>>
  BY DEF feedVars, Activate, RollOnly, ReleasedFrom, KeptStopped, Started, Spend, CanStart
<1>2. /\ app \in [App -> AppRec] /\ roll \in [App -> {NoRoll} \cup RollRec] /\ lock \in [App -> Holders]
      /\ app[c] \in AppRec /\ roll[c] \in {NoRoll} \cup RollRec /\ lock[c] \in Holders
      /\ DataOK(c) /\ AskedOK(c) /\ ~app[c].key /\ (roll[c].at # "none" => ~roll[c].key)
      /\ up /\ InFlight(c) <=> lock[c] = "deployment"
  BY RowIs
<1>3. roll[c] \in RollRec /\ lock[c] = "deployment"
  BY <1>1, <1>2, RollFields DEF InFlight
<1>4. /\ x \in AppRec /\ x.desired = "running" /\ x.box = app[c].box /\ x.vol = app[c].vol
      /\ x.dep = roll[c].id /\ ~x.key
  BY <1>1, <1>2, <1>3 DEF AppRec, RollRec
<1>5. /\ y \in RollRec /\ y.at = (IF roll[c].dormant THEN "active" ELSE "done") /\ y.id = roll[c].id
      /\ y.dormant = roll[c].dormant /\ ~y.key
  BY <1>1, <1>2, <1>3 DEF RollRec
<1> HIDE DEF x, y
<1>6. /\ app' \in [App -> AppRec] /\ app'[c] = x /\ \A a \in App \ {c} : app'[a] = app[a]
  BY <1>1, <1>4, AppIs
<1>7. /\ roll' \in [App -> {NoRoll} \cup RollRec] /\ roll'[c] = y /\ \A a \in App \ {c} : roll'[a] = roll[a]
  BY <1>1, <1>5, RollIs
<1>13. /\ lock' \in [App -> Holders] /\ \A a \in App \ {c} : lock'[a] = lock[a]
       /\ lock'[c] = IF roll[c].dormant THEN "deployment" ELSE "free"
  <2>1. lock' = lock \/ lock' = [lock EXCEPT ![c] = "free"]
    BY <1>1
  <2>2. CASE roll[c].dormant
    BY <1>1, <1>2, <1>3, <2>2
  <2>3. CASE ~roll[c].dormant
    <3>1. lock' = [lock EXCEPT ![c] = "free"] /\ "free" \in Holders
      BY <1>1, <2>3 DEF Holders
    <3> QED
      BY <3>1, <2>3, LockIs
  <2> QED
    BY <2>2, <2>3
<1>8. OneApp(c)
  BY <1>1, <1>2, <1>3, <1>4, <1>5, <1>6, <1>7, <1>13 DEF OneApp, AppsTyped, RollsOK, Holders, importVars
<1>9. DataOK(c)'
  BY <1>1, <1>2, <1>3, <1>4, <1>5, <1>6, <1>7, <1>13 DEF DataOK, InFlight, Runs, Active, importVars
<1>10. AskedOK(c)'
  BY <1>1, <1>2, <1>3, <1>4, <1>5, <1>6, <1>7, <1>13 DEF AskedOK, InFlight, Runs, Active, importVars, DataOK
<1>11. OneTransfer' /\ UpsetsOK' /\ promoRec'.status \in {"none", "running", "succeeded", "failed"}
  BY <1>1, <1>2, NoTransferStep, RowIs DEF importVars, promoVars, StandbyInv, UpsetsOK
<1>12. up /\ InFlight(c)' <=> lock'[c] = "deployment"
  BY <1>1, <1>2, <1>3, <1>5, <1>7, <1>13 DEF InFlight
<1> QED
  BY <1>1, <1>2, <1>4, <1>5, <1>6, <1>7, <1>8, <1>9, <1>10, <1>11, <1>12, OneAppKeeps

(* A dormant deployment is noted as stopped once it is committed.           *)
LEMMA KeepStoppedKeeps ==
  ASSUME TransferAssumption, StandbyInv, NEW c \in App, KeepStopped(c)
  PROVE  StandbyInv'
<1> DEFINE x == [app[c] EXCEPT !.desired = "stopped"]
           y == [roll[c] EXCEPT !.at = "done"]
<1>1. /\ up /\ roll[c].at = "active"
      /\ app' = [app EXCEPT ![c] = x] /\ roll' = [roll EXCEPT ![c] = y]
      /\ lock' = [lock EXCEPT ![c] = "free"]
      /\ UNCHANGED <<used, bucket, importVars, promoVars, up, asked, blind>>
  BY DEF feedVars, KeepStopped, RollOnly, ReleasedFrom, KeptStopped, Started, Spend, CanStart
<1>2. /\ app \in [App -> AppRec] /\ roll \in [App -> {NoRoll} \cup RollRec] /\ lock \in [App -> Holders]
      /\ app[c] \in AppRec /\ roll[c] \in {NoRoll} \cup RollRec /\ lock[c] \in Holders
      /\ DataOK(c) /\ AskedOK(c) /\ ~app[c].key /\ (roll[c].at # "none" => ~roll[c].key)
      /\ up /\ InFlight(c) <=> lock[c] = "deployment"
  BY RowIs
<1>3. roll[c] \in RollRec /\ lock[c] = "deployment"
  BY <1>1, <1>2, RollFields DEF InFlight
<1>4. /\ x \in AppRec /\ x.desired = "stopped" /\ x.box = app[c].box /\ x.vol = app[c].vol
      /\ x.dep = app[c].dep /\ ~x.key
  BY <1>1, <1>2, <1>3 DEF AppRec
<1>5. /\ y \in RollRec /\ y.at = "done" /\ y.id = roll[c].id /\ y.dormant = roll[c].dormant /\ ~y.key
  BY <1>1, <1>2, <1>3 DEF RollRec
<1> HIDE DEF x, y
<1>6. /\ app' \in [App -> AppRec] /\ app'[c] = x /\ \A a \in App \ {c} : app'[a] = app[a]
  BY <1>1, <1>4, AppIs
<1>7. /\ roll' \in [App -> {NoRoll} \cup RollRec] /\ roll'[c] = y /\ \A a \in App \ {c} : roll'[a] = roll[a]
  BY <1>1, <1>5, RollIs
<1>13. lock' \in [App -> Holders] /\ lock'[c] = "free" /\ \A a \in App \ {c} : lock'[a] = lock[a]
  BY <1>1, <1>2, LockIs DEF Holders
<1>8. OneApp(c)
  BY <1>1, <1>2, <1>3, <1>4, <1>5, <1>6, <1>7, <1>13 DEF OneApp, AppsTyped, RollsOK, Holders, importVars
<1>9. DataOK(c)'
  BY <1>1, <1>2, <1>3, <1>4, <1>5, <1>6, <1>7, <1>13 DEF DataOK, InFlight, Runs, Active, importVars
<1>10. AskedOK(c)'
  BY <1>1, <1>2, <1>3, <1>4, <1>5, <1>6, <1>7, <1>13 DEF AskedOK, InFlight, Runs, Active, importVars, DataOK
<1>11. OneTransfer' /\ UpsetsOK' /\ promoRec'.status \in {"none", "running", "succeeded", "failed"}
  BY <1>1, <1>2, NoTransferStep, RowIs DEF importVars, promoVars, StandbyInv, UpsetsOK
<1>12. up /\ InFlight(c)' <=> lock'[c] = "deployment"
  BY <1>1, <1>2, <1>3, <1>5, <1>7, <1>13 DEF InFlight
<1> QED
  BY <1>1, <1>2, <1>4, <1>5, <1>6, <1>7, <1>8, <1>9, <1>10, <1>11, <1>12, OneAppKeeps

(* A deployment is given up: what it created goes.                          *)
LEMMA AbortKeeps ==
  ASSUME TransferAssumption, StandbyInv, NEW c \in App, Abort(c)
  PROVE  StandbyInv'
<1> DEFINE x == [app[c] EXCEPT !.box = "none"]
           y == [roll[c] EXCEPT !.at = "failed"]
<1>1. /\ up /\ roll[c].at \in {"created", "boxed"} /\ Spend("upsets")
      /\ app' = [app EXCEPT ![c] = x] /\ roll' = [roll EXCEPT ![c] = y]
      /\ lock' = [lock EXCEPT ![c] = "free"]
      /\ UNCHANGED <<bucket, importVars, promoVars, up, asked, blind>>
  BY DEF feedVars, Abort, RollOnly, ReleasedFrom, KeptStopped, Started, Spend, CanStart
<1>2. /\ app \in [App -> AppRec] /\ roll \in [App -> {NoRoll} \cup RollRec] /\ lock \in [App -> Holders]
      /\ app[c] \in AppRec /\ roll[c] \in {NoRoll} \cup RollRec /\ lock[c] \in Holders
      /\ DataOK(c) /\ AskedOK(c) /\ ~app[c].key /\ (roll[c].at # "none" => ~roll[c].key)
      /\ up /\ InFlight(c) <=> lock[c] = "deployment"
  BY RowIs
<1>3. roll[c] \in RollRec /\ lock[c] = "deployment"
  BY <1>1, <1>2, RollFields DEF InFlight
<1>4. /\ x \in AppRec /\ x.desired = app[c].desired /\ x.box = "none" /\ x.vol = app[c].vol
      /\ x.dep = app[c].dep /\ ~x.key
  BY <1>1, <1>2, <1>3 DEF AppRec
<1>5. /\ y \in RollRec /\ y.at = "failed" /\ y.id = roll[c].id /\ y.dormant = roll[c].dormant /\ ~y.key
  BY <1>1, <1>2, <1>3 DEF RollRec
<1> HIDE DEF x, y
<1>6. /\ app' \in [App -> AppRec] /\ app'[c] = x /\ \A a \in App \ {c} : app'[a] = app[a]
  BY <1>1, <1>4, AppIs
<1>7. /\ roll' \in [App -> {NoRoll} \cup RollRec] /\ roll'[c] = y /\ \A a \in App \ {c} : roll'[a] = roll[a]
  BY <1>1, <1>5, RollIs
<1>13. lock' \in [App -> Holders] /\ lock'[c] = "free" /\ \A a \in App \ {c} : lock'[a] = lock[a]
  BY <1>1, <1>2, LockIs DEF Holders
<1>8. OneApp(c)
  BY <1>1, <1>2, <1>3, <1>4, <1>5, <1>6, <1>7, <1>13 DEF OneApp, AppsTyped, RollsOK, Holders, importVars
<1>9. DataOK(c)'
  BY <1>1, <1>2, <1>3, <1>4, <1>5, <1>6, <1>7, <1>13 DEF DataOK, InFlight, Runs, Active, importVars
<1>10. AskedOK(c)'
  BY <1>1, <1>2, <1>3, <1>4, <1>5, <1>6, <1>7, <1>13 DEF AskedOK, InFlight, Runs, Active, importVars, DataOK
<1>11. OneTransfer' /\ UpsetsOK' /\ promoRec'.status \in {"none", "running", "succeeded", "failed"}
  BY <1>1, <1>2, NoTransferStep, RowIs, UpsetSpent DEF importVars, promoVars, StandbyInv
<1>12. up /\ InFlight(c)' <=> lock'[c] = "deployment"
  BY <1>1, <1>2, <1>3, <1>5, <1>7, <1>13 DEF InFlight
<1> QED
  BY <1>1, <1>2, <1>4, <1>5, <1>6, <1>7, <1>8, <1>9, <1>10, <1>11, <1>12, OneAppKeeps

(* A stop by hand.                                                          *)
LEMMA StopKeeps ==
  ASSUME TransferAssumption, StandbyInv, NEW c \in App, Stop(c)
  PROVE  StandbyInv'
<1> DEFINE x == [app[c] EXCEPT !.desired = "stopped", !.box = IF @ = "none" THEN @ ELSE "created"]
<1>1. /\ up /\ lock[c] = "free" /\ Spend("upsets")
      /\ app' = [app EXCEPT ![c] = x]
      /\ UNCHANGED <<lock, roll, bucket, importVars, promoVars, up, asked, blind>>
  BY DEF feedVars, Stop, RollOnly, ReleasedFrom, KeptStopped, Started, Spend, CanStart
<1>2. /\ app \in [App -> AppRec] /\ roll \in [App -> {NoRoll} \cup RollRec] /\ lock \in [App -> Holders]
      /\ app[c] \in AppRec /\ roll[c] \in {NoRoll} \cup RollRec /\ lock[c] \in Holders
      /\ DataOK(c) /\ AskedOK(c) /\ ~app[c].key /\ (roll[c].at # "none" => ~roll[c].key)
      /\ up /\ InFlight(c) <=> lock[c] = "deployment"
  BY RowIs
<1>3. ~InFlight(c)
  BY <1>1, <1>2
<1>4. /\ x \in AppRec /\ x.desired = "stopped" /\ x.box = (IF app[c].box = "none" THEN "none" ELSE "created")
      /\ x.vol = app[c].vol /\ x.dep = app[c].dep /\ ~x.key
  BY <1>1, <1>2, <1>3 DEF AppRec
<1> HIDE DEF x
<1>6. /\ app' \in [App -> AppRec] /\ app'[c] = x /\ \A a \in App \ {c} : app'[a] = app[a]
  BY <1>1, <1>4, AppIs
<1>7. /\ roll' \in [App -> {NoRoll} \cup RollRec] /\ roll'[c] = roll[c] /\ \A a \in App \ {c} : roll'[a] = roll[a]
  BY <1>1, <1>2
<1>13. lock' \in [App -> Holders] /\ lock'[c] = lock[c] /\ \A a \in App \ {c} : lock'[a] = lock[a]
  BY <1>1, <1>2
<1>8. OneApp(c)
  BY <1>1, <1>2, <1>3, <1>4, <1>6, <1>7, <1>13 DEF OneApp, AppsTyped, RollsOK, Holders, importVars
<1>9. DataOK(c)'
  BY <1>1, <1>2, <1>3, <1>4, <1>6, <1>7, <1>13 DEF DataOK, InFlight, Runs, Active, importVars
<1>10. AskedOK(c)'
  BY <1>1, <1>2, <1>3, <1>4, <1>6, <1>7, <1>13 DEF AskedOK, InFlight, Runs, Active, importVars, DataOK
<1>11. OneTransfer' /\ UpsetsOK' /\ promoRec'.status \in {"none", "running", "succeeded", "failed"}
  BY <1>1, <1>2, NoTransferStep, RowIs, UpsetSpent DEF importVars, promoVars, StandbyInv
<1>12. up /\ InFlight(c)' <=> lock'[c] = "deployment"
  BY <1>1, <1>2, <1>3, <1>7, <1>13 DEF InFlight
<1> QED
  BY <1>1, <1>2, <1>4, <1>6, <1>7, <1>8, <1>9, <1>10, <1>11, <1>12, OneAppKeeps

(* A start, by hand or by a promotion: the containers first.                *)
LEMMA StartedKeeps ==
  ASSUME TransferAssumption, StandbyInv, NEW c \in App, up, CanStart(c), Started(c),
         UNCHANGED <<roll, bucket, importVars, up>>, OneTransfer', UpsetsOK',
         promoRec'.status \in {"none", "running", "succeeded", "failed"}
  PROVE  StandbyInv'
<1> DEFINE x == [app[c] EXCEPT !.box = IF @ = "none" THEN @ ELSE "running"]
<1>1. /\ up /\ lock[c] = "free" /\ Active(c)
      /\ app' = [app EXCEPT ![c] = x] /\ lock' = [lock EXCEPT ![c] = "start"] /\ asked' = asked \union {c}
      /\ blind' = IF app[c].box = "none" THEN blind \union {c} ELSE blind
      /\ UNCHANGED <<roll, bucket, importVars, up>>
  BY DEF Started, CanStart
<1>2. /\ app \in [App -> AppRec] /\ roll \in [App -> {NoRoll} \cup RollRec] /\ lock \in [App -> Holders]
      /\ app[c] \in AppRec /\ roll[c] \in {NoRoll} \cup RollRec /\ lock[c] \in Holders
      /\ DataOK(c) /\ AskedOK(c) /\ ~app[c].key /\ (roll[c].at # "none" => ~roll[c].key)
      /\ up /\ InFlight(c) <=> lock[c] = "deployment"
  BY RowIs
<1>3. ~InFlight(c)
  BY <1>1, <1>2
<1>4. /\ x \in AppRec /\ x.desired = app[c].desired
      /\ x.box = IF app[c].box = "none" THEN "none" ELSE "running"
      /\ x.vol = app[c].vol /\ x.dep = app[c].dep /\ ~x.key
  BY <1>1, <1>2, <1>3 DEF AppRec
<1> HIDE DEF x
<1>6. /\ app' \in [App -> AppRec] /\ app'[c] = x /\ \A a \in App \ {c} : app'[a] = app[a]
  BY <1>1, <1>4, AppIs
<1>7. /\ roll' \in [App -> {NoRoll} \cup RollRec] /\ roll'[c] = roll[c] /\ \A a \in App \ {c} : roll'[a] = roll[a]
  BY <1>1, <1>2
<1>13. lock' \in [App -> Holders] /\ lock'[c] = "start" /\ \A a \in App \ {c} : lock'[a] = lock[a]
  BY <1>1, <1>2, LockIs DEF Holders
<1>8. OneApp(c)
  BY <1>1, <1>2, <1>3, <1>4, <1>6, <1>7, <1>13 DEF OneApp, AppsTyped, RollsOK, Holders, importVars
<1>9. DataOK(c)'
  BY <1>1, <1>2, <1>3, <1>4, <1>6, <1>7, <1>13 DEF DataOK, InFlight, Runs, Active, importVars
<1>10. AskedOK(c)'
  BY <1>1, <1>2, <1>3, <1>4, <1>6, <1>7, <1>13 DEF AskedOK, InFlight, Runs, Active, importVars, DataOK
<1>12. up /\ InFlight(c)' <=> lock'[c] = "deployment"
  BY <1>1, <1>2, <1>3, <1>7, <1>13 DEF InFlight
<1> QED
  BY <1>1, <1>2, <1>4, <1>6, <1>7, <1>8, <1>9, <1>10, <1>12, OneAppKeeps

(* A start by hand uses up an upset.                                        *)
LEMMA StartByHandKeeps ==
  ASSUME TransferAssumption, StandbyInv, NEW c \in App, Start(c)
  PROVE  StandbyInv'
<1>1. OneTransfer' /\ UpsetsOK' /\ promoRec'.status \in {"none", "running", "succeeded", "failed"}
  BY NoTransferStep, RowIs, UpsetSpent DEF feedVars, Start, importVars, promoVars, StandbyInv
<1> QED
  BY <1>1, StartedKeeps DEF feedVars, Start

(* A start, by hand or of a promotion: the desired state second.            *)
LEMMA RecordStartedKeeps ==
  ASSUME TransferAssumption, StandbyInv, NEW c \in App, RecordStarted(c)
  PROVE  StandbyInv'
<1> DEFINE x == [app[c] EXCEPT !.desired = "running"]
<1>1. /\ up /\ lock[c] = "start"
      /\ app' = [app EXCEPT ![c] = x] /\ lock' = [lock EXCEPT ![c] = "free"]
      /\ UNCHANGED <<roll, used, bucket, importVars, promoVars, up, asked, blind>>
  BY DEF feedVars, RecordStarted, RollOnly, ReleasedFrom, KeptStopped, Started, Spend, CanStart
<1>2. /\ app \in [App -> AppRec] /\ roll \in [App -> {NoRoll} \cup RollRec] /\ lock \in [App -> Holders]
      /\ app[c] \in AppRec /\ roll[c] \in {NoRoll} \cup RollRec /\ lock[c] \in Holders
      /\ DataOK(c) /\ AskedOK(c) /\ ~app[c].key /\ (roll[c].at # "none" => ~roll[c].key)
      /\ up /\ InFlight(c) <=> lock[c] = "deployment"
  BY RowIs
<1>3. ~InFlight(c)
  BY <1>1, <1>2
<1>4. /\ x \in AppRec /\ x.desired = "running" /\ x.box = app[c].box
      /\ x.vol = app[c].vol /\ x.dep = app[c].dep /\ ~x.key
  BY <1>1, <1>2, <1>3 DEF AppRec
<1> HIDE DEF x
<1>6. /\ app' \in [App -> AppRec] /\ app'[c] = x /\ \A a \in App \ {c} : app'[a] = app[a]
  BY <1>1, <1>4, AppIs
<1>7. /\ roll' \in [App -> {NoRoll} \cup RollRec] /\ roll'[c] = roll[c] /\ \A a \in App \ {c} : roll'[a] = roll[a]
  BY <1>1, <1>2
<1>13. lock' \in [App -> Holders] /\ lock'[c] = "free" /\ \A a \in App \ {c} : lock'[a] = lock[a]
  BY <1>1, <1>2, LockIs DEF Holders
<1>8. OneApp(c)
  BY <1>1, <1>2, <1>3, <1>4, <1>6, <1>7, <1>13 DEF OneApp, AppsTyped, RollsOK, Holders, importVars
<1>9. DataOK(c)'
  BY <1>1, <1>2, <1>3, <1>4, <1>6, <1>7, <1>13 DEF DataOK, InFlight, Runs, Active, importVars
<1>10. AskedOK(c)'
  BY <1>1, <1>2, <1>3, <1>4, <1>6, <1>7, <1>13 DEF AskedOK, InFlight, Runs, Active, importVars, DataOK
<1>11. OneTransfer' /\ UpsetsOK' /\ promoRec'.status \in {"none", "running", "succeeded", "failed"}
  BY <1>1, <1>2, NoTransferStep, RowIs DEF importVars, promoVars, StandbyInv, UpsetsOK
<1>12. up /\ InFlight(c)' <=> lock'[c] = "deployment"
  BY <1>1, <1>2, <1>3, <1>7, <1>13 DEF InFlight
<1> QED
  BY <1>1, <1>2, <1>4, <1>6, <1>7, <1>8, <1>9, <1>10, <1>11, <1>12, OneAppKeeps

(* The supervisor brings up what is meant to run.                           *)
LEMMA SuperviseKeeps ==
  ASSUME TransferAssumption, StandbyInv, NEW c \in App, Supervise(c)
  PROVE  StandbyInv'
<1> DEFINE x == [app[c] EXCEPT !.box = "running"]
<1>1. /\ up /\ lock[c] = "free" /\ Runs(c)
      /\ app' = [app EXCEPT ![c] = x]
      /\ UNCHANGED <<lock, roll, used, bucket, importVars, promoVars, up, asked, blind>>
  BY DEF feedVars, Supervise, RollOnly, ReleasedFrom, KeptStopped, Started, Spend, CanStart
<1>2. /\ app \in [App -> AppRec] /\ roll \in [App -> {NoRoll} \cup RollRec] /\ lock \in [App -> Holders]
      /\ app[c] \in AppRec /\ roll[c] \in {NoRoll} \cup RollRec /\ lock[c] \in Holders
      /\ DataOK(c) /\ AskedOK(c) /\ ~app[c].key /\ (roll[c].at # "none" => ~roll[c].key)
      /\ up /\ InFlight(c) <=> lock[c] = "deployment"
  BY RowIs
<1>3. ~InFlight(c)
  BY <1>1, <1>2
<1>4. /\ x \in AppRec /\ x.desired = app[c].desired /\ x.box = "running"
      /\ x.vol = app[c].vol /\ x.dep = app[c].dep /\ ~x.key
  BY <1>1, <1>2, <1>3 DEF AppRec
<1> HIDE DEF x
<1>6. /\ app' \in [App -> AppRec] /\ app'[c] = x /\ \A a \in App \ {c} : app'[a] = app[a]
  BY <1>1, <1>4, AppIs
<1>7. /\ roll' \in [App -> {NoRoll} \cup RollRec] /\ roll'[c] = roll[c] /\ \A a \in App \ {c} : roll'[a] = roll[a]
  BY <1>1, <1>2
<1>13. lock' \in [App -> Holders] /\ lock'[c] = lock[c] /\ \A a \in App \ {c} : lock'[a] = lock[a]
  BY <1>1, <1>2
<1>8. OneApp(c)
  BY <1>1, <1>2, <1>3, <1>4, <1>6, <1>7, <1>13 DEF OneApp, AppsTyped, RollsOK, Holders, importVars
<1>9. DataOK(c)'
  BY <1>1, <1>2, <1>3, <1>4, <1>6, <1>7, <1>13 DEF DataOK, InFlight, Runs, Active, importVars
<1>10. AskedOK(c)'
  BY <1>1, <1>2, <1>3, <1>4, <1>6, <1>7, <1>13 DEF AskedOK, InFlight, Runs, Active, importVars, DataOK
<1>11. OneTransfer' /\ UpsetsOK' /\ promoRec'.status \in {"none", "running", "succeeded", "failed"}
  BY <1>1, <1>2, NoTransferStep, RowIs DEF importVars, promoVars, StandbyInv, UpsetsOK
<1>12. up /\ InFlight(c)' <=> lock'[c] = "deployment"
  BY <1>1, <1>2, <1>3, <1>7, <1>13 DEF InFlight
<1> QED
  BY <1>1, <1>2, <1>4, <1>6, <1>7, <1>8, <1>9, <1>10, <1>11, <1>12, OneAppKeeps
-----------------------------------------------------------------------------
(* The import goes on.                                                      *)

(* What it is done with stays as it is.                                     *)
EarlierKept == \A i \in 1..(imp.next - 1) : \A k : Here(i, k) => Here(i, k)'

(* One more application has its outcome.                                    *)
LEMMA DoneKeeps ==
  ASSUME TransferAssumption, ImportOK, FetchOK, imp.on, imp.at # "manifest", imp.next \in DOMAIN Applications,
         NEW n, n = imp.n, NEW j, j = imp.next,
         NEW s \in {"skipped", "failed", "imported"}, Done(Current, s), s = "imported" => Here(j, n)',
         UNCHANGED <<bucket, pull, secrets>>, EarlierKept
  PROVE  ImportOK' /\ FetchOK' /\ imp'.on /\ imp'.at = "next" /\ imp'.next = imp.next + 1
<1>1. imp \in ImportRun /\ impRec \in ImportRec
  BY RunningImport DEF ImportOK
<1>2. /\ imp' = [imp EXCEPT !.at = "next", !.next = @ + 1]
      /\ impRec' = [impRec EXCEPT !.apps = [impRec.apps EXCEPT ![Current] = s]]
  BY DEF Done, InRecord
<1>3. /\ imp' \in ImportRun /\ imp'.on /\ imp'.at = "next" /\ imp'.n = imp.n /\ imp'.fetched = imp.fetched
      /\ imp'.next = imp.next + 1 /\ imp.next \in Nat
  <2>1. imp.next \in Nat /\ imp.next + 1 \in Nat
    BY <1>1 DEF ImportRun
  <2> DEFINE k == imp.next + 1
  <2>2. imp' = [imp EXCEPT !.at = "next", !.next = k] /\ k \in Nat
    BY <1>2, <2>1
  <2> HIDE DEF k
  <2>3. /\ imp' \in ImportRun /\ imp'.on /\ imp'.at = "next" /\ imp'.n = imp.n /\ imp'.fetched = imp.fetched
        /\ imp'.next = k
    BY <1>1, <2>2 DEF ImportRun, Places
  <2> QED
    BY <2>1, <2>3 DEF k
<1> DEFINE m == [impRec.apps EXCEPT ![Current] = s]
<1>4. impRec.apps \in [App -> Statuses] /\ m \in [App -> Statuses]
  BY <1>1 DEF ImportRec, Statuses
<1>5. /\ \A a \in App \ {Current} : m[a] = impRec.apps[a]
      /\ m[Current] = s /\ Current \in App
  BY <1>4, CurrentIs
<1> HIDE DEF m
<1>6. impRec' = [impRec EXCEPT !.apps = m]
  BY <1>2 DEF m
<1>7. impRec' \in ImportRec /\ impRec'.apps = m /\ impRec'.status = "running" /\ impRec'.fetched = imp.fetched
  BY <1>1, <1>4, <1>6 DEF ImportRec, ImportOK
<1>8. imp'.next \in 1..(Len(Applications) + 1)
  BY <1>3, ApplicationsAreApps
<1>9. ImportOK'
  BY <1>3, <1>7, <1>8 DEF ImportOK
<1>10. FetchOK'
  <2>1. \A i \in 1..(imp'.next - 1) : i = imp.next \/ i \in 1..(imp.next - 1)
    BY <1>3
  <2>2. \A i \in 1..(imp.next - 1) : m[Applications[i]] = impRec.apps[Applications[i]]
    BY <1>5, <1>3, ApplicationsAreApps, CurrentIs
  <2>3. \A i \in 1..(imp.next - 1) :
            /\ m[Applications[i]] \in {"skipped", "failed", "imported"}
            /\ m[Applications[i]] = "imported" => Here(i, n)'
    BY <2>2 DEF FetchOK, EarlierKept
  <2>4. \A i \in 1..(imp'.next - 1) :
            /\ m[Applications[i]] \in {"skipped", "failed", "imported"}
            /\ m[Applications[i]] = "imported" => Here(i, n)'
    BY <1>5, <2>1, <2>3 DEF Current
  <2> QED
    BY <1>3, <1>7, <2>4 DEF FetchOK
<1> QED
  BY <1>3, <1>9, <1>10

(* It goes on with the same application.                                    *)
LEMMA GotoKeeps ==
  ASSUME TransferAssumption, ImportOK, FetchOK, imp.on, imp.at # "manifest", imp.next \in DOMAIN Applications,
         NEW n, n = imp.n, NEW p \in {"resolve", "clear", "fill", "await"}, Goto(p),
         InRecord(Current, "running") \/ UNCHANGED impRec,
         p = "await" => app'[Current].vol = bucket[imp.n].read[imp.next].id,
         UNCHANGED <<bucket, pull, secrets>>, EarlierKept
  PROVE  ImportOK' /\ FetchOK' /\ imp' = [imp EXCEPT !.at = p] /\ imp'.on /\ imp'.at = p /\ imp'.next = imp.next
<1>1. imp \in ImportRun /\ impRec \in ImportRec
  BY RunningImport DEF ImportOK
<1>2. imp' = [imp EXCEPT !.at = p]
  BY DEF Goto
<1>3. /\ imp' \in ImportRun /\ imp'.on /\ imp'.at = p /\ imp'.n = imp.n /\ imp'.fetched = imp.fetched
      /\ imp'.next = imp.next /\ imp.next \in Nat
  BY <1>1, <1>2 DEF ImportRun, Places
<1>4. /\ impRec' \in ImportRec /\ impRec'.status = impRec.status /\ impRec'.fetched = impRec.fetched
      /\ \A a \in App \ {Current} : impRec'.apps[a] = impRec.apps[a]
  <2>1. CASE UNCHANGED impRec
    BY <1>1, <2>1
  <2>2. CASE InRecord(Current, "running")
    <3> DEFINE m == [impRec.apps EXCEPT ![Current] = "running"]
    <3>1. impRec.apps \in [App -> Statuses] /\ m \in [App -> Statuses] /\ \A a \in App \ {Current} : m[a] = impRec.apps[a]
      BY <1>1 DEF ImportRec, Statuses
    <3>2. impRec' = [impRec EXCEPT !.apps = m]
      BY <2>2 DEF InRecord
    <3> HIDE DEF m
    <3> QED
      BY <1>1, <3>1, <3>2 DEF ImportRec
  <2> QED
    BY <2>1, <2>2
<1>5. ImportOK'
  BY <1>3, <1>4 DEF ImportOK
<1>6. FetchOK'
  <2>1. \A i \in 1..(imp.next - 1) : Applications[i] \in App \ {Current}
    BY <1>3, ApplicationsAreApps, CurrentIs
  <2>2. \A i \in 1..(imp.next - 1) :
            /\ impRec'.apps[Applications[i]] \in {"skipped", "failed", "imported"}
            /\ impRec'.apps[Applications[i]] = "imported" => Here(i, n)'
    BY <1>4, <2>1 DEF FetchOK, EarlierKept
  <2>3. impRec'.status # "succeeded"
    BY <1>4 DEF ImportOK
  <2>4. p = "await" => app'[Current'].vol = bucket[imp.n].read[imp.next].id
    BY <1>3 DEF Current
  <2> QED
    BY <1>3, <2>2, <2>3, <2>4 DEF FetchOK
<1> QED
  BY <1>2, <1>3, <1>5, <1>6

(* The record of an import that ends.                                       *)
LEMMA EndedIs ==
  ASSUME impRec \in ImportRec, NEW ok \in BOOLEAN
  PROVE  /\ Ended(impRec, ok) \in ImportRec /\ Ended(impRec, ok).fetched = impRec.fetched
         /\ Ended(impRec, ok).status \in {"succeeded", "failed"}
         /\ Ended(impRec, ok).status = "succeeded" => ok
         /\ \A a \in App : impRec.apps[a] \notin {"pending", "running"} => Ended(impRec, ok).apps[a] = impRec.apps[a]
<1> DEFINE m == [a \in App |-> IF impRec.apps[a] \in {"pending", "running"} THEN "failed" ELSE impRec.apps[a]]
           st == IF ok /\ \A a \in App : impRec.apps[a] # "failed" THEN "succeeded" ELSE "failed"
<1>1. impRec.apps \in [App -> Statuses] /\ impRec.fetched \in BOOLEAN
  BY DEF ImportRec
<1>2. m \in [App -> Statuses] /\ \A a \in App : impRec.apps[a] \notin {"pending", "running"} => m[a] = impRec.apps[a]
  BY <1>1 DEF Statuses
<1>3. st \in {"succeeded", "failed"} /\ (st = "succeeded" => ok)
  OBVIOUS
<1>4. Ended(impRec, ok) = [status |-> st, fetched |-> impRec.fetched, apps |-> m]
  BY DEF Ended
<1> HIDE DEF m, st
<1> QED
  BY <1>1, <1>2, <1>3, <1>4 DEF ImportRec

(* An import that ends without success.                                     *)
LEMMA EndKeeps ==
  ASSUME ImportOK, imp.on, EndImport(Ended(impRec, FALSE)), UNCHANGED bucket
  PROVE  ImportOK' /\ FetchOK' /\ ~imp'.on
<1>1. imp \in ImportRun /\ impRec \in ImportRec /\ pull \in [last : Nat, error : BOOLEAN]
  BY RunningImport DEF ImportOK
<1>2. /\ impRec' = Ended(impRec, FALSE) /\ imp' = NotImporting
      /\ impRec' \in ImportRec /\ impRec'.status = "failed"
  BY <1>1, EndedIs DEF EndImport
<1>3. pull' \in [last : Nat, error : BOOLEAN]
  BY <1>1 DEF EndImport, NotePull, ImportRun
<1>4. ~imp'.on
  BY <1>2 DEF NotImporting
<1> QED
  BY <1>2, <1>3, <1>4 DEF ImportOK, FetchOK

(* A step that leaves the applications alone.                               *)
LEMMA SameAppsKeeps ==
  ASSUME StandbyInv, UNCHANGED <<app, roll, lock, up>>, \A a \in App : (a \in asked' <=> a \in asked) /\ (a \in blind' <=> a \in blind), secrets # 0 => secrets' # 0,
         BucketOK', ImportOK', FetchOK', OneTransfer', UpsetsOK', ReplacedIsDown', ImportLock',
         promoRec'.status \in {"none", "running", "succeeded", "failed"}
  PROVE  StandbyInv'
<1>1. \A a \in App \ {} : DataOK(a)' /\ AskedOK(a)' /\ ~app'[a].key /\ (roll'[a].at # "none" => ~roll'[a].key)
  BY RowsKept
<1>2. NothingDropped' /\ \A a \in App : DataOK(a)' /\ AskedOK(a)'
  BY <1>1 DEF NothingDropped
<1>3. AppsTyped' /\ DeploymentLock' /\ RollsOK'
  BY TypeParts DEF StandbyInv, AppsTyped, DeploymentLock, RollsOK, InFlight
<1>4. TransferTypeOK'
  <2>1. impRec'.status \in {"none", "running", "succeeded", "failed"}
    BY DEF ImportOK, ImportRec
  <2> QED
    BY <1>3, <2>1, TypePartsNext
<1> QED
  BY <1>2, <1>3, <1>4 DEF StandbyInv

(* A step of a promotion that touches no application.                       *)
LEMMA PromotionKeeps ==
  ASSUME TransferAssumption, StandbyInv, UNCHANGED <<app, roll, lock, up, bucket, importVars>>,
         asked \subseteq asked', \A a \in App : (a \in asked' <=> a \in asked) /\ (a \in blind' <=> a \in blind), OneTransfer', UpsetsOK', promoRec'.status \in {"none", "running", "succeeded", "failed"}
  PROVE  StandbyInv'
<1>1. UNCHANGED <<imp, impRec, pull, secrets, bucket, app, lock>>
  BY DEF importVars
<1>2. BucketOK' /\ ImportOK' /\ ReplacedIsDown'
  BY <1>1 DEF StandbyInv, BucketOK, ImportOK, ReplacedIsDown, Current
<1>3. ImportLock'
  BY <1>1, TypeParts DEF StandbyInv, ImportLock, Current
<1>4. FetchOK'
  BY <1>1, FetchKept DEF StandbyInv
<1> QED
  BY <1>1, <1>2, <1>3, <1>4, SameAppsKeeps
(* Requests spend a budget of their own, and a call that may fail one upset.*)
LEMMA OtherSpent ==
  ASSUME UpsetsOK, NEW what \in {"imports", "promotions"}, Spend(what)
  PROVE  UpsetsOK' /\ used'.upsets = used.upsets
  BY DEF UpsetsOK, Spend

(* A call that may fail spends an upset at most.                            *)
LEMMA GoesIs ==
  ASSUME StandbyInv, NEW ok \in BOOLEAN, Goes(ok)
  PROVE  UpsetsOK'
<1>1. CASE ok
  BY <1>1 DEF StandbyInv, Goes, UpsetsOK
<1>2. CASE ~ok
  BY <1>2, UpsetSpent DEF Goes
<1> QED
  BY <1>1, <1>2

(* The record of a promotion stays as it is.                                *)
LEMMA RowPromo ==
  ASSUME StandbyInv, UNCHANGED promoRec
  PROVE  promoRec'.status \in {"none", "running", "succeeded", "failed"}
  BY TypeParts DEF StandbyInv

(* An import begins, while neither an import nor a promotion runs.          *)
LEMMA BeginKeeps ==
  ASSUME TransferAssumption, StandbyInv, up, MayImport, UpsetsOK',
         NEW n \in DOMAIN bucket, NEW f \in BOOLEAN, NEW s \in BOOLEAN, NEW o \in BOOLEAN, BeginImport(n, f, s, o),
         UNCHANGED <<bucket, promoVars, standbyVars, pull, secrets>>
  PROVE  StandbyInv'
<1>1. UNCHANGED <<bucket, promo, promoRec, up, app, roll, lock, asked, blind, pull, secrets>>
  BY DEF feedVars, promoVars, standbyVars
<1>2. bucket \in Seq(Contents) /\ n \in Nat
  BY DEF StandbyInv, BucketOK
<1>3. /\ imp' \in ImportRun /\ imp'.on /\ imp'.at = "manifest" /\ imp'.n = n /\ imp'.fetched = f /\ imp'.next = 1
      /\ impRec' \in ImportRec /\ impRec'.status = "running" /\ impRec'.fetched = f
  BY <1>2 DEF BeginImport, ImportRun, ImportRec, Places, Statuses
<1>4. 1 \in 1..(Len(Applications) + 1)
  BY ApplicationsAreApps
<1>5. ImportOK'
  BY <1>1, <1>3, <1>4 DEF StandbyInv, ImportOK
<1>6. FetchOK'
  BY <1>3 DEF FetchOK
<1>7. OneTransfer'
  BY <1>1 DEF StandbyInv, OneTransfer, MayImport
<1>8. ReplacedIsDown'
  BY <1>3 DEF ReplacedIsDown
<1>9. ImportLock'
  <2>1. ImportLock
    BY TypeParts DEF StandbyInv
  <2>2. \A a \in App : lock[a] # "import"
    BY <2>1 DEF ImportLock, MayImport
  <2> QED
    BY <1>1, <2>2 DEF ImportLock
<1> QED
  BY <1>1, <1>5, <1>6, <1>7, <1>8, <1>9, SameAppsKeeps, RowPromo DEF StandbyInv, BucketOK

(* An upload of an export.                                                  *)
LEMMA UploadKeeps ==
  ASSUME TransferAssumption, StandbyInv, Upload
  PROVE  StandbyInv'
<1>1. PICK n \in DOMAIN bucket, stopped \in BOOLEAN, overwrite \in BOOLEAN : BeginImport(n, FALSE, stopped, overwrite)
  BY DEF feedVars, Upload
<1>2. UpsetsOK'
  BY OtherSpent DEF Upload, StandbyInv
<1> QED
  BY <1>1, <1>2, BeginKeeps DEF feedVars, Upload

(* A fetch, on its schedule or asked for, begins or is refused.             *)
LEMMA PullKeeps ==
  ASSUME TransferAssumption, StandbyInv, NEW onlyNew \in BOOLEAN, Pull(onlyNew)
  PROVE  StandbyInv'
<1>1. UpsetsOK'
  BY OtherSpent DEF Pull, StandbyInv
<1>2. CASE MayImport
  <2>1. bucket \in Seq(Contents) /\ bucket # <<>>
    BY DEF StandbyInv, BucketOK, Pull
  <2>2. Len(bucket) \in DOMAIN bucket
    BY <2>1
  <2> QED
    BY <1>1, <1>2, <2>2, BeginKeeps DEF feedVars, Pull
<1>3. CASE ~MayImport
  <2>1. /\ UNCHANGED <<imp, impRec, secrets, bucket, promo, promoRec, up, app, roll, lock, asked, blind>>
        /\ pull' \in {pull, [pull EXCEPT !.error = TRUE]}
    BY <1>3 DEF feedVars, Pull, RefusedPull, promoVars, standbyVars
  <2>2. pull \in [last : Nat, error : BOOLEAN]
    BY DEF StandbyInv, ImportOK
  <2>3. pull' \in [last : Nat, error : BOOLEAN] /\ pull'.last = pull.last
    BY <2>1, <2>2
  <2>4. ImportOK' /\ BucketOK' /\ OneTransfer' /\ ReplacedIsDown'
    BY <2>1, <2>3 DEF StandbyInv, ImportOK, BucketOK, OneTransfer, ReplacedIsDown, Current
  <2>5. ImportLock'
    BY <2>1, TypeParts DEF StandbyInv, ImportLock, Current
  <2>6. FetchOK'
    BY <2>1, <2>3 DEF StandbyInv, FetchOK, Here, Current
  <2> QED
    BY <1>1, <2>1, <2>4, <2>5, <2>6, SameAppsKeeps, RowPromo
<1> QED
  BY <1>2, <1>3

(* The manifest is read: an export that uses what this agent does not know  *)
(* is refused.                                                              *)
LEMMA ReadManifestKeeps ==
  ASSUME TransferAssumption, StandbyInv, NEW ok \in BOOLEAN, ReadManifest(ok)
  PROVE  StandbyInv'
<1>1. /\ up /\ imp.on /\ imp.at = "manifest"
      /\ UNCHANGED <<bucket, promo, promoRec, up, app, roll, lock, asked, blind>>
  BY DEF feedVars, ReadManifest, promoVars, standbyVars
<1>2. UpsetsOK'
  <2>1. CASE Gone
    BY <2>1 DEF ReadManifest, StandbyInv, UpsetsOK
  <2>2. CASE ~Gone
    BY <2>2, GoesIs DEF ReadManifest
  <2> QED
    BY <2>1, <2>2
<1>3. ImportOK /\ imp \in ImportRun /\ impRec \in ImportRec
  BY <1>1, RunningImport DEF StandbyInv, ImportOK
<1>4. ImportLock
  BY TypeParts DEF StandbyInv
<1>5. \A a \in App : lock[a] # "import"
  BY <1>1, <1>4 DEF ImportLock
<1>6. BucketOK' /\ ImportLock'
  BY <1>1, <1>5 DEF StandbyInv, BucketOK, ImportLock
<1>7. CASE ~ok \/ Refused
  <2>1. EndImport(Ended(impRec, FALSE)) /\ UNCHANGED secrets
    BY <1>7 DEF ReadManifest
  <2>2. ImportOK' /\ FetchOK' /\ ~imp'.on
    BY <1>1, <1>3, <2>1, EndKeeps
  <2>3. OneTransfer' /\ ReplacedIsDown'
    BY <1>1, <2>2 DEF StandbyInv, OneTransfer, ReplacedIsDown
  <2> QED
    BY <1>1, <1>2, <1>6, <2>1, <2>2, <2>3, SameAppsKeeps, RowPromo
<1>8. CASE ok /\ ~Refused
  <2>1. /\ impRec' = [impRec EXCEPT !.apps = [a \in App |-> "pending"]]
        /\ secrets' = StoredSecrets
        /\ imp' = [imp EXCEPT !.at = "next"] /\ UNCHANGED pull
    BY <1>8 DEF ReadManifest
  <2>2. /\ imp' \in ImportRun /\ imp'.on /\ imp'.at = "next" /\ imp'.n = imp.n /\ imp'.next = imp.next
        /\ imp'.fetched = imp.fetched /\ imp.n \in Nat
    BY <1>3, <2>1 DEF ImportRun, Places
  <2>3. [a \in App |-> "pending"] \in [App -> Statuses]
    BY DEF Statuses
  <2>4. impRec' \in ImportRec /\ impRec'.status = impRec.status /\ impRec'.fetched = impRec.fetched
    BY <1>3, <2>1, <2>3 DEF ImportRec
  <2>5. secrets' # 0 /\ ~bucket[imp.n].requires
    <3>1. imp.n # 0
      BY <1>1 DEF StandbyInv, BucketOK, ImportOK
    <3> QED
      BY <1>8, <2>1, <3>1 DEF StoredSecrets, Refused
  <2>6. imp.next = 1 /\ imp.n \in DOMAIN bucket /\ impRec.status = "running" /\ impRec.fetched = imp.fetched
        /\ imp.next \in 1..(Len(Applications) + 1) /\ pull \in [last : Nat, error : BOOLEAN]
    BY <1>1, <1>3 DEF ImportOK
  <2>7. ImportOK'
    BY <1>1, <2>1, <2>2, <2>4, <2>5, <2>6 DEF ImportOK
  <2>8. FetchOK'
    BY <2>2, <2>4, <2>6 DEF FetchOK
  <2>9. OneTransfer' /\ ReplacedIsDown'
    BY <1>1, <2>2 DEF StandbyInv, OneTransfer, ReplacedIsDown
  <2> QED
    BY <1>1, <1>2, <1>6, <2>5, <2>7, <2>8, <2>9, SameAppsKeeps, RowPromo
<1> QED
  BY <1>7, <1>8

(* The next application of an export, or the end of it.                     *)
LEMMA EarlierSame ==
  ASSUME UNCHANGED <<app, asked, blind, bucket>>
  PROVE  EarlierKept
  BY DEF EarlierKept, Here

(* The import turns to the next application, skips it or fails it.          *)
LEMMA NextApplicationKeeps ==
  ASSUME TransferAssumption, StandbyInv, NEW ok \in BOOLEAN, NextApplication(ok)
  PROVE  StandbyInv'
<1>1. /\ up /\ imp.on /\ imp.at = "next" /\ imp.next <= Len(Applications)
      /\ UNCHANGED <<bucket, promo, promoRec, up, app, roll, lock, asked, blind, pull, secrets>>
      /\ \/ Done(Current, "skipped") \/ Done(Current, "failed")
         \/ Goto("resolve") /\ InRecord(Current, "running")
  BY DEF feedVars, NextApplication, promoVars, standbyVars
<1>2. UpsetsOK'
  BY GoesIs DEF NextApplication, StandbyInv, UpsetsOK
<1>3. ImportOK /\ FetchOK /\ imp.next \in DOMAIN Applications /\ EarlierKept
  BY <1>1, ApplicationsAreApps, EarlierSame DEF StandbyInv, ImportOK
<1>4. ImportOK' /\ FetchOK' /\ imp'.on /\ imp'.at \in {"next", "resolve"}
  <2>0. PICK n, j : n = imp.n /\ j = imp.next
    OBVIOUS
  <2>1. CASE Done(Current, "skipped")
    BY <1>1, <1>3, <2>0, <2>1, DoneKeeps
  <2>2. CASE Done(Current, "failed")
    BY <1>1, <1>3, <2>0, <2>2, DoneKeeps
  <2>3. CASE Goto("resolve") /\ InRecord(Current, "running")
    BY <1>1, <1>3, <2>0, <2>3, GotoKeeps
  <2> QED
    BY <1>1, <2>1, <2>2, <2>3
<1>5. ImportLock
  BY TypeParts DEF StandbyInv
<1>6. ImportLock' /\ BucketOK' /\ OneTransfer' /\ ReplacedIsDown'
  BY <1>1, <1>4, <1>5 DEF ImportLock, StandbyInv, BucketOK, OneTransfer, ReplacedIsDown
<1> QED
  BY <1>1, <1>2, <1>4, <1>6, SameAppsKeeps, RowPromo

(* The import ends: a fetch that succeeded has everything here.             *)
LEMMA FinishImportKeeps ==
  ASSUME TransferAssumption, StandbyInv, FinishImport
  PROVE  StandbyInv'
<1>1. /\ up /\ imp.on /\ imp.at = "next" /\ imp.next > Len(Applications)
      /\ EndImport(Ended(impRec, TRUE))
      /\ UNCHANGED <<bucket, promo, promoRec, up, app, roll, lock, asked, blind, secrets, used>>
  BY DEF feedVars, FinishImport, promoVars, standbyVars
<1>2. ImportOK /\ imp \in ImportRun /\ impRec \in ImportRec /\ FetchOK
  BY <1>1, RunningImport DEF StandbyInv, ImportOK
<1>3. /\ imp.n \in DOMAIN bucket /\ impRec.fetched = imp.fetched /\ imp.n \in Nat /\ imp.fetched \in BOOLEAN
      /\ \A i \in DOMAIN Applications : i \in 1..(imp.next - 1)
  BY <1>1, <1>2, ApplicationsAreApps DEF ImportOK, ImportRun
<1>4. /\ imp' = NotImporting /\ impRec' = Ended(impRec, TRUE) /\ ~imp'.on
      /\ impRec' \in ImportRec /\ impRec'.fetched = imp.fetched
      /\ \A a \in App : impRec.apps[a] \notin {"pending", "running"} => impRec'.apps[a] = impRec.apps[a]
  BY <1>1, <1>2, <1>3, EndedIs DEF EndImport, NotImporting
<1>5. /\ pull' \in [last : Nat, error : BOOLEAN]
      /\ imp.fetched => pull'.last = imp.n
  BY <1>1, <1>2, <1>3 DEF EndImport, NotePull, ImportOK
<1>6. ImportOK'
  BY <1>4, <1>5 DEF ImportOK
<1>7. FetchOK'
  <2> SUFFICES ASSUME impRec'.fetched, impRec'.status = "succeeded"
               PROVE  /\ pull'.last \in DOMAIN bucket
                      /\ \A i \in DOMAIN Applications : impRec'.apps[Applications[i]] = "skipped" \/ Here(i, imp.n)
    BY <1>1, <1>4, <1>5 DEF FetchOK, Here
  <2>1. pull'.last \in DOMAIN bucket
    BY <1>3, <1>4, <1>5
  <2>2. ASSUME NEW i \in DOMAIN Applications PROVE impRec'.apps[Applications[i]] = "skipped" \/ Here(i, imp.n)
    <3>1. /\ impRec.apps[Applications[i]] \in {"skipped", "failed", "imported"}
          /\ impRec.apps[Applications[i]] = "imported" => Here(i, imp.n)
      BY <1>1, <1>2, <1>3 DEF FetchOK
    <3>2. impRec.apps[Applications[i]] # "failed"
      BY <1>4, ApplicationsAreApps DEF Ended
    <3> QED
      BY <1>4, <3>1, <3>2, ApplicationsAreApps
  <2> QED
    BY <2>1, <2>2
<1>8. ImportLock
  BY TypeParts DEF StandbyInv
<1>9. ImportLock' /\ BucketOK' /\ OneTransfer' /\ ReplacedIsDown' /\ UpsetsOK'
  BY <1>1, <1>4, <1>8 DEF ImportLock, StandbyInv, BucketOK, OneTransfer, ReplacedIsDown, UpsetsOK
<1> QED
  BY <1>1, <1>6, <1>7, <1>9, SameAppsKeeps, RowPromo
-----------------------------------------------------------------------------
(* The application an import is at.                                         *)

(* What the import is done with is not the application it is at.            *)
LEMMA EarlierOthers ==
  ASSUME TransferAssumption, imp.next \in DOMAIN Applications, UNCHANGED bucket,
         \A a \in App \ {Current} : app'[a] = app[a] /\ (a \in asked' <=> a \in asked) /\ (a \in blind' <=> a \in blind)
  PROVE  EarlierKept
<1>1. \A i \in 1..(imp.next - 1) : Applications[i] \in App \ {Current}
  BY ApplicationsAreApps, CurrentIs
<1> QED
  BY <1>1 DEF EarlierKept, Here

(* Only the application the import is at changes.                           *)
CurrentOnly(c) ==
    /\ c = Current /\ c \in App
    /\ AppsTyped' /\ RollsOK'
    /\ \A a \in App \ {c} : app'[a] = app[a] /\ roll'[a] = roll[a] /\ lock'[a] = lock[a]
    /\ \A a \in App \ {c} : (a \in asked' <=> a \in asked) /\ (a \in blind' <=> a \in blind)
    /\ lock'[c] = "import" => imp'.on /\ imp'.next = imp.next /\ imp'.at \in {"clear", "fill"}
    /\ up /\ InFlight(c)' <=> lock'[c] = "deployment"
    /\ DataOK(c)' /\ AskedOK(c)' /\ ~app'[c].key /\ (roll'[c].at # "none" => ~roll'[c].key)

(* A step of the import that changes the application it is at.              *)
LEMMA CurrentKeeps ==
  ASSUME TransferAssumption, StandbyInv, NEW c, CurrentOnly(c), UNCHANGED <<bucket, up, promo, promoRec, secrets>>, up,
         ImportOK', FetchOK', ReplacedIsDown', UpsetsOK', imp'.on => ~promo.on
  PROVE  StandbyInv'
<1>1. \A a \in App \ {c} : DataOK(a)' /\ AskedOK(a)' /\ ~app'[a].key /\ (roll'[a].at # "none" => ~roll'[a].key)
  BY RowsKept DEF CurrentOnly
<1>2. NothingDropped' /\ \A a \in App : DataOK(a)' /\ AskedOK(a)'
  BY <1>1 DEF NothingDropped, CurrentOnly
<1>3. ImportLock /\ DeploymentLock
  BY TypeParts DEF StandbyInv
<1>4. ImportLock'
  <2> SUFFICES ASSUME NEW a \in App, lock'[a] = "import"
               PROVE  imp'.on /\ (Current = a)' /\ imp'.at \in {"clear", "fill"}
    BY DEF ImportLock
  <2>1. a = c
    BY <1>3 DEF ImportLock, CurrentOnly
  <2>2. imp'.on /\ imp'.next = imp.next /\ imp'.at \in {"clear", "fill"} /\ c = Applications[imp.next]
    BY <2>1 DEF CurrentOnly, Current
  <2> QED
    BY <2>1, <2>2 DEF Current
<1>5. DeploymentLock'
  <2> SUFFICES ASSUME NEW a \in App PROVE up /\ InFlight(a)' <=> lock'[a] = "deployment"
    BY DEF DeploymentLock
  <2>1. CASE a = c
    BY <2>1 DEF CurrentOnly
  <2>2. CASE a # c
    BY <1>3, <2>2 DEF DeploymentLock, CurrentOnly, InFlight
  <2> QED
    BY <2>1, <2>2
<1>6. TransferTypeOK'
  <2>1. impRec'.status \in {"none", "running", "succeeded", "failed"}
    BY DEF ImportOK, ImportRec
  <2>2. AppsTyped'
    BY DEF CurrentOnly
  <2> QED
    BY <1>4, <1>5, <2>1, <2>2, RowPromo, TypePartsNext
<1>7. RollsOK' /\ BucketOK' /\ OneTransfer'
  BY DEF CurrentOnly, StandbyInv, BucketOK, OneTransfer
<1> QED
  BY <1>2, <1>6, <1>7 DEF StandbyInv

(* The application may be replaced, and its lock is taken: it is noted as   *)
(* stopped first (resolve).                                                 *)
LEMMA ResolveKeeps ==
  ASSUME TransferAssumption, StandbyInv, NEW ok \in BOOLEAN, Resolve(ok)
  PROVE  StandbyInv'
<1>0. PICK c : c = Current
  OBVIOUS
<1>1. /\ up /\ imp.on /\ imp.at = "resolve" /\ UNCHANGED <<bucket, promo, promoRec, up, roll, asked, blind, pull, secrets>>
      /\ \/ Done(c, "skipped") /\ UNCHANGED <<app, lock>>
         \/ Done(c, "failed") /\ UNCHANGED <<app, lock>>
         \/ /\ lock[c] = "free" /\ Goto("clear") /\ UNCHANGED impRec
            /\ lock' = [lock EXCEPT ![c] = "import"]
            /\ app' = [app EXCEPT ![c] = [app[c] EXCEPT !.desired = "stopped"]]
  BY <1>0 DEF feedVars, Resolve, promoVars, standbyVars
<1>2. UpsetsOK'
  <2>1. UNCHANGED used \/ Goes(ok)
    BY DEF Resolve
  <2> QED
    BY <2>1, GoesIs DEF StandbyInv, UpsetsOK
<1>3. ImportOK /\ FetchOK /\ imp.next \in DOMAIN Applications /\ c \in App /\ ~promo.on
  BY <1>0, <1>1, CurrentIs DEF StandbyInv, ImportOK, OneTransfer
<1>4. CASE UNCHANGED <<app, lock>> /\ \E s \in {"skipped", "failed"} : Done(c, s)
  <2>0. PICK n, j : n = imp.n /\ j = imp.next
    OBVIOUS
  <2>1. ImportOK' /\ FetchOK' /\ imp'.on /\ imp'.at = "next"
    BY <1>0, <1>1, <1>3, <1>4, <2>0, EarlierSame, DoneKeeps
  <2>2. ImportLock
    BY TypeParts DEF StandbyInv
  <2>3. ImportLock' /\ BucketOK' /\ OneTransfer' /\ ReplacedIsDown'
    BY <1>1, <1>4, <2>1, <2>2 DEF ImportLock, StandbyInv, BucketOK, OneTransfer, ReplacedIsDown
  <2> QED
    BY <1>1, <1>2, <1>4, <2>1, <2>3, SameAppsKeeps, RowPromo
<1>5. CASE /\ lock[c] = "free" /\ Goto("clear") /\ UNCHANGED impRec
           /\ lock' = [lock EXCEPT ![c] = "import"]
           /\ app' = [app EXCEPT ![c] = [app[c] EXCEPT !.desired = "stopped"]]
  <2> DEFINE x == [app[c] EXCEPT !.desired = "stopped"]
  <2>1. /\ app[c] \in AppRec /\ DataOK(c) /\ AskedOK(c) /\ ~app[c].key /\ (roll[c].at # "none" => ~roll[c].key)
        /\ up /\ InFlight(c) <=> lock[c] = "deployment"
        /\ roll \in [App -> {NoRoll} \cup RollRec]
    BY <1>3, RowIs
  <2>2. /\ x \in AppRec /\ x.desired = "stopped" /\ x.box = app[c].box /\ x.vol = app[c].vol /\ x.dep = app[c].dep /\ ~x.key
    BY <2>1 DEF AppRec
  <2>3. app' = [app EXCEPT ![c] = x]
    BY <1>5
  <2> HIDE DEF x
  <2>4. /\ app' \in [App -> AppRec] /\ app'[c] = x /\ \A a \in App \ {c} : app'[a] = app[a]
    BY <1>3, <2>2, <2>3, AppIs
  <2>5. lock' \in [App -> Holders] /\ lock'[c] = "import" /\ \A a \in App \ {c} : lock'[a] = lock[a]
    BY <1>3, <1>5, LockIs DEF Holders
  <2>6. EarlierKept
    BY <1>0, <1>1, <1>3, <2>4, EarlierOthers
  <2>7. ImportOK' /\ FetchOK' /\ imp'.on /\ imp'.at = "clear" /\ imp'.next = imp.next
    <3>0. PICK n : n = imp.n
      OBVIOUS
    <3> QED
      BY <1>1, <1>3, <1>5, <2>6, <3>0, GotoKeeps
  <2>8. ~InFlight(c) /\ ~(InFlight(c)')
    BY <1>1, <1>5, <2>1 DEF InFlight
  <2>9. DataOK(c)' /\ AskedOK(c)'
    <3>1. DataOK(c)'
      BY <1>1, <2>1, <2>2, <2>4, <2>5, <2>8 DEF DataOK, InFlight, Runs, Active
    <3>2. AskedOK(c)'
      BY <1>1, <2>1, <2>2, <2>4, <2>5, <2>8 DEF AskedOK, InFlight, Runs, Active
    <3> QED
      BY <3>1, <3>2
  <2>10. CurrentOnly(c)
    BY <1>0, <1>1, <1>3, <2>1, <2>2, <2>4, <2>5, <2>7, <2>8, <2>9 DEF CurrentOnly, AppsTyped, RollsOK
  <2>11. ReplacedIsDown'
    BY <1>0, <2>2, <2>4, <2>5, <2>7 DEF ReplacedIsDown, Current
  <2> QED
    BY <1>1, <1>2, <1>3, <2>7, <2>10, <2>11, CurrentKeeps
<1> QED
  BY <1>1, <1>4, <1>5

(* The containers go, and the volume is emptied.                            *)
LEMMA ClearKeeps ==
  ASSUME TransferAssumption, StandbyInv, NEW ok \in BOOLEAN, Clear(ok)
  PROVE  StandbyInv'
<1>0. PICK c : c = Current
  OBVIOUS
<1>1. /\ up /\ imp.on /\ imp.at = "clear" /\ UNCHANGED <<bucket, promo, promoRec, up, roll, asked, blind, pull, secrets>>
      /\ \/ ok /\ Goto("fill") /\ UNCHANGED <<lock, impRec>>
         \/ ~ok /\ Done(c, "failed") /\ lock' = [lock EXCEPT ![c] = "free"]
  BY <1>0 DEF feedVars, Clear, promoVars, ReleasedFrom
<1>2. UpsetsOK'
  BY GoesIs DEF Clear
<1>3. /\ ImportOK /\ FetchOK /\ imp.next \in DOMAIN Applications /\ c \in App /\ ~promo.on
      /\ lock[c] = "import" /\ app[c].desired = "stopped"
  BY <1>0, <1>1, CurrentIs DEF StandbyInv, ImportOK, OneTransfer, ReplacedIsDown
<1>4. /\ app \in [App -> AppRec] /\ lock \in [App -> Holders]
      /\ app[c] \in AppRec /\ DataOK(c) /\ AskedOK(c) /\ ~app[c].key /\ (roll[c].at # "none" => ~roll[c].key)
      /\ up /\ InFlight(c) <=> lock[c] = "deployment"
      /\ roll \in [App -> {NoRoll} \cup RollRec]
  BY <1>3, RowIs
<1>5. PICK x : /\ app' = [app EXCEPT ![c] = x]
               /\ x \in AppRec /\ x.desired = "stopped" /\ x.dep = app[c].dep /\ ~x.key
               /\ x.box # "none" => x.box # "running" \/ app[c].box = "running"
               /\ x.box # "none" => app[c].box # "none" /\ x.vol = app[c].vol
               /\ ok => x.box = "none"
  <2>1. PICK x \in IF ok THEN Cleared(c) ELSE ClearedInPart(c) : app' = [app EXCEPT ![c] = x]
    BY <1>0 DEF Clear
  <2>2. x \in {app[c], [app[c] EXCEPT !.box = "none"], [app[c] EXCEPT !.box = IF @ = "none" THEN @ ELSE "created"],
               [app[c] EXCEPT !.box = "none", !.vol = Half]}
    BY <2>1 DEF Cleared, ClearedInPart
  <2>3. ok => x = [app[c] EXCEPT !.box = "none", !.vol = Half]
    BY <2>1 DEF Cleared
  <2>4. x \in AppRec /\ x.desired = "stopped" /\ x.dep = app[c].dep /\ ~x.key
    BY <1>3, <1>4, <2>2 DEF AppRec
  <2>5. /\ x.box # "none" => x.box # "running" \/ app[c].box = "running"
        /\ x.box # "none" => app[c].box # "none" /\ x.vol = app[c].vol
    BY <1>4, <2>2 DEF AppRec
  <2>6. ok => x.box = "none"
    BY <1>4, <2>3 DEF AppRec
  <2> QED
    BY <2>1, <2>4, <2>5, <2>6
<1>6. app' \in [App -> AppRec] /\ app'[c] = x /\ \A a \in App \ {c} : app'[a] = app[a]
  BY <1>3, <1>5, AppIs
<1>7. EarlierKept
  BY <1>0, <1>1, <1>3, <1>6, EarlierOthers
<1>8. /\ lock' \in [App -> Holders] /\ \A a \in App \ {c} : lock'[a] = lock[a]
      /\ lock'[c] = IF ok THEN "import" ELSE "free"
  <2>1. CASE ok
    BY <1>1, <1>3, <1>4, <2>1
  <2>2. CASE ~ok
    BY <1>1, <1>3, <2>2, LockIs DEF Holders
  <2> QED
    BY <2>1, <2>2
<1>9. ImportOK' /\ FetchOK' /\ imp'.on /\ (ok => imp'.at = "fill" /\ imp'.next = imp.next) /\ (~ok => imp'.at = "next")
  <2>0. PICK n, j : n = imp.n /\ j = imp.next
    OBVIOUS
  <2>1. CASE ok
    BY <1>1, <1>3, <1>7, <2>0, <1>0, <2>1, GotoKeeps
  <2>2. CASE ~ok
    BY <1>1, <1>3, <1>7, <2>0, <1>0, <2>2, DoneKeeps
  <2> QED
    BY <2>1, <2>2
<1>10. ~InFlight(c) /\ ~(InFlight(c)')
  BY <1>1, <1>3, <1>4 DEF InFlight
<1>11. app'[c].desired = "stopped" /\ app'[c].dep = app[c].dep /\ ~app'[c].key
  BY <1>5, <1>6
<1>12. DataOK(c)' /\ AskedOK(c)'
  <2>1. DataOK(c)'
    BY <1>1, <1>4, <1>5, <1>6, <1>8, <1>10, <1>11 DEF DataOK, InFlight, Runs, Active
  <2>2. AskedOK(c)'
    BY <1>1, <1>4, <1>5, <1>6, <1>8, <1>10, <1>11 DEF AskedOK, InFlight, Runs, Active
  <2> QED
    BY <2>1, <2>2
<1>13. CurrentOnly(c)
  BY <1>0, <1>1, <1>3, <1>4, <1>6, <1>8, <1>9, <1>10, <1>11, <1>12 DEF CurrentOnly, AppsTyped, RollsOK
<1>14. ReplacedIsDown'
  BY <1>0, <1>5, <1>6, <1>8, <1>9, <1>11 DEF ReplacedIsDown, Current
<1> QED
  BY <1>1, <1>2, <1>3, <1>9, <1>13, <1>14, CurrentKeeps
(* What an export holds of an application: its configuration uses no key    *)
(* that the export does not announce.                                       *)
LEMMA EntryIs ==
  ASSUME TransferAssumption, StandbyInv, imp.on, imp.at # "manifest", imp.next \in DOMAIN Applications,
         NEW e, e = bucket[imp.n].read[imp.next]
  PROVE  e.id \in Ids /\ e.stopped \in BOOLEAN /\ e.key = FALSE
<1>1. imp.n \in DOMAIN bucket /\ ~bucket[imp.n].requires
  BY DEF StandbyInv, ImportOK
<1>2. bucket[imp.n] \in Contents /\ Announced(bucket[imp.n])
  BY <1>1 DEF StandbyInv, BucketOK
<1>3. bucket[imp.n].read \in [DOMAIN Applications -> [id : Nat \ {0}, key : BOOLEAN, stopped : BOOLEAN]]
  BY <1>2 DEF TransferAssumption
<1>4. e.id \in Ids
  BY <1>2 DEF Ids
<1>5. e \in [id : Nat \ {0}, key : BOOLEAN, stopped : BOOLEAN]
  BY <1>3
<1>6. ~e.key
  BY <1>1, <1>2, <1>3 DEF Announced
<1> QED
  BY <1>4, <1>5, <1>6

(* The volume is filled, and the deployment begins: dormant, or asked for.  *)
LEMMA FillAndCreateKeeps ==
  ASSUME TransferAssumption, StandbyInv, NEW ok \in BOOLEAN, FillAndCreate(ok)
  PROVE  StandbyInv'
<1>0. PICK c, n, j, e : c = Current /\ n = imp.n /\ j = imp.next /\ e = bucket[imp.n].read[imp.next]
  OBVIOUS
<1>1. up /\ imp.on /\ imp.at = "fill" /\ UNCHANGED <<bucket, promo, promoRec, up, pull, secrets>>
  BY DEF feedVars, FillAndCreate, promoVars
<1>2. UpsetsOK'
  BY GoesIs DEF FillAndCreate
<1>3. /\ ImportOK /\ FetchOK /\ imp.next \in DOMAIN Applications /\ c \in App /\ ~promo.on
      /\ lock[c] = "import" /\ app[c].desired = "stopped" /\ app[c].box = "none" /\ secrets # 0
      /\ imp \in ImportRun
  BY <1>0, <1>1, CurrentIs, RunningImport DEF StandbyInv, ImportOK, OneTransfer, ReplacedIsDown
<1>4. /\ app \in [App -> AppRec] /\ lock \in [App -> Holders] /\ roll \in [App -> {NoRoll} \cup RollRec]
      /\ app[c] \in AppRec /\ DataOK(c) /\ AskedOK(c) /\ ~app[c].key /\ (roll[c].at # "none" => ~roll[c].key)
      /\ up /\ InFlight(c) <=> lock[c] = "deployment"
  BY <1>3, RowIs
<1>5. e.id \in Ids /\ e.stopped \in BOOLEAN /\ e.key = FALSE
  BY <1>0, <1>1, <1>3, EntryIs
<1>6. ~InFlight(c)
  BY <1>1, <1>3, <1>4
<1>7. CASE ok
  <2>1. PICK d \in BOOLEAN, k \in {"standby", "import"} :
          /\ app' = [app EXCEPT ![c] = [app[c] EXCEPT !.vol = e.id]]
          /\ roll' = [roll EXCEPT ![c] = [at |-> "created", id |-> e.id, key |-> e.key, dormant |-> d, kind |-> k]]
          /\ lock' = [lock EXCEPT ![c] = "deployment"]
          /\ asked' = IF d THEN asked \ {c} ELSE asked \union {c}
          /\ blind' = blind \ {c}
          /\ Goto("await") /\ UNCHANGED impRec
    <3>1. (imp.stopped \/ e.stopped) \in BOOLEAN /\ (IF imp.stopped THEN "standby" ELSE "import") \in {"standby", "import"}
      BY <1>3, <1>5 DEF ImportRun
    <3> QED
      BY <1>0, <1>7, <3>1 DEF FillAndCreate, Filled
  <2> DEFINE x == [app[c] EXCEPT !.vol = e.id]
             y == [at |-> "created", id |-> e.id, key |-> e.key, dormant |-> d, kind |-> k]
  <2>2. x \in AppRec /\ x.desired = "stopped" /\ x.box = "none" /\ x.vol = e.id /\ x.dep = app[c].dep /\ ~x.key
    BY <1>3, <1>4, <1>5 DEF AppRec
  <2>3. y \in RollRec /\ y.at = "created" /\ y.id = e.id /\ ~y.key /\ y.dormant = d
    BY <1>5 DEF RollRec
  <2>4. app' = [app EXCEPT ![c] = x] /\ roll' = [roll EXCEPT ![c] = y]
    BY <2>1
  <2> HIDE DEF x, y
  <2>5. /\ app' \in [App -> AppRec] /\ app'[c] = x /\ \A a \in App \ {c} : app'[a] = app[a]
    BY <1>3, <2>2, <2>4, AppIs
  <2>6. roll' \in [App -> {NoRoll} \cup RollRec] /\ roll'[c] = y /\ \A a \in App \ {c} : roll'[a] = roll[a]
    BY <1>3, <2>3, <2>4, RollIs
  <2>7. lock' \in [App -> Holders] /\ lock'[c] = "deployment" /\ \A a \in App \ {c} : lock'[a] = lock[a]
    BY <1>3, <2>1, LockIs DEF Holders
  <2>8. \A a \in App \ {c} : (a \in asked' <=> a \in asked) /\ (a \in blind' <=> a \in blind)
    BY <2>1
  <2>9. d <=> c \notin asked'
    BY <2>1
  <2>10. EarlierKept
    BY <1>0, <1>1, <1>3, <2>5, <2>8, EarlierOthers
  <2>11. ImportOK' /\ FetchOK' /\ imp'.on /\ imp'.at = "await" /\ imp'.next = imp.next
    BY <1>0, <1>1, <1>3, <2>1, <2>2, <2>5, <2>10, GotoKeeps
  <2>12. InFlight(c)'
    BY <2>3, <2>6 DEF InFlight
  <2>13. DataOK(c)' /\ AskedOK(c)'
    <3>1. DataOK(c)'
      BY <1>1, <1>3, <2>2, <2>3, <2>5, <2>6, <2>7, <2>12 DEF DataOK, Runs, Active
    <3>2. AskedOK(c)'
      BY <1>1, <2>2, <2>3, <2>5, <2>6, <2>7, <2>9, <2>12 DEF AskedOK, Runs, Active
    <3> QED
      BY <3>1, <3>2
  <2>14. CurrentOnly(c)
    BY <1>0, <1>1, <1>3, <2>2, <2>3, <2>5, <2>6, <2>7, <2>8, <2>12, <2>13 DEF CurrentOnly, AppsTyped, RollsOK
  <2>15. ReplacedIsDown'
    BY <2>11 DEF ReplacedIsDown
  <2> QED
    BY <1>1, <1>2, <1>3, <2>11, <2>14, <2>15, CurrentKeeps
<1>8. CASE ~ok
  <2>1. Done(c, "failed") /\ lock' = [lock EXCEPT ![c] = "free"] /\ UNCHANGED <<app, roll, asked, blind>>
    BY <1>0, <1>8 DEF feedVars, FillAndCreate, ReleasedFrom
  <2>2. lock' \in [App -> Holders] /\ lock'[c] = "free" /\ \A a \in App \ {c} : lock'[a] = lock[a]
    BY <1>3, <2>1, LockIs DEF Holders
  <2>3. ImportOK' /\ FetchOK' /\ imp'.on /\ imp'.at = "next"
    BY <1>0, <1>1, <1>3, <2>1, EarlierSame, DoneKeeps
  <2>4. DataOK(c)' /\ AskedOK(c)' /\ ~(InFlight(c)')
    <3>1. DataOK(c)'
      BY <1>1, <1>4, <1>6, <2>1, <2>2 DEF DataOK, InFlight, Runs, Active
    <3>2. AskedOK(c)'
      BY <1>1, <1>4, <1>6, <2>1, <2>2 DEF AskedOK, InFlight, Runs, Active
    <3> QED
      BY <1>6, <2>1, <3>1, <3>2 DEF InFlight
  <2>5. CurrentOnly(c)
    BY <1>0, <1>1, <1>3, <1>4, <2>1, <2>2, <2>4 DEF CurrentOnly, AppsTyped, RollsOK
  <2>6. ReplacedIsDown'
    BY <2>3 DEF ReplacedIsDown
  <2> QED
    BY <1>1, <1>2, <1>3, <2>3, <2>5, <2>6, CurrentKeeps
<1> QED
  BY <1>7, <1>8

(* The deployment is over, and so is the application.                       *)
LEMMA AwaitDeploymentKeeps ==
  ASSUME TransferAssumption, StandbyInv, AwaitDeployment
  PROVE  StandbyInv'
<1>0. PICK c, n, j : c = Current /\ n = imp.n /\ j = imp.next
  OBVIOUS
<1>1. /\ up /\ imp.on /\ imp.at = "await" /\ roll[c].at \in {"done", "failed"}
      /\ UNCHANGED <<bucket, promo, promoRec, up, pull, secrets, app, lock, asked, blind, used>>
      /\ \E s \in {"imported", "failed"} : Done(c, s)
      /\ roll' = [roll EXCEPT ![c] = NoRoll]
  BY <1>0 DEF feedVars, AwaitDeployment, promoVars
<1>2. /\ ImportOK /\ FetchOK /\ imp.next \in DOMAIN Applications /\ c \in App /\ ~promo.on /\ UpsetsOK'
      /\ app[c].vol = bucket[n].read[j].id
  BY <1>0, <1>1, CurrentIs DEF StandbyInv, ImportOK, OneTransfer, FetchOK, UpsetsOK
<1>3. /\ app \in [App -> AppRec] /\ lock \in [App -> Holders]
      /\ DataOK(c) /\ AskedOK(c) /\ ~app[c].key
      /\ up /\ InFlight(c) <=> lock[c] = "deployment"
  BY <1>2, RowIs
<1>4. roll' \in [App -> {NoRoll} \cup RollRec] /\ roll'[c] = NoRoll /\ \A a \in App \ {c} : roll'[a] = roll[a]
  BY <1>1, <1>2, RollIs
<1>5. Here(j, n)'
  BY <1>0, <1>1, <1>2 DEF Here, Current
<1>6. ImportOK' /\ FetchOK' /\ imp'.on /\ imp'.at = "next"
  BY <1>0, <1>1, <1>2, <1>5, EarlierSame, DoneKeeps
<1>7. ~InFlight(c) /\ ~(InFlight(c)') /\ roll'[c].at = "none"
  BY <1>1, <1>4 DEF InFlight, NoRoll
<1>8. DataOK(c)' /\ AskedOK(c)'
  <2>1. DataOK(c)'
    BY <1>1, <1>3, <1>7 DEF DataOK, InFlight, Runs, Active
  <2>2. AskedOK(c)'
    BY <1>1, <1>3, <1>7 DEF AskedOK, InFlight, Runs, Active
  <2> QED
    BY <2>1, <2>2
<1>9. lock'[c] # "import" /\ lock'[c] # "deployment"
  <2>1. ImportLock
    BY TypeParts DEF StandbyInv
  <2> QED
    BY <1>1, <1>2, <1>3, <1>7, <2>1 DEF ImportLock
<1>10. CurrentOnly(c)
  BY <1>0, <1>1, <1>2, <1>3, <1>4, <1>7, <1>8, <1>9 DEF CurrentOnly, AppsTyped, RollsOK
<1>11. ReplacedIsDown'
  BY <1>6 DEF ReplacedIsDown
<1> QED
  BY <1>1, <1>2, <1>6, <1>10, <1>11, CurrentKeeps

(* The stream breaks off: the import has failed, and holds nothing.         *)
LEMMA BreakOffKeeps ==
  ASSUME TransferAssumption, StandbyInv, BreakOff
  PROVE  StandbyInv'
<1>1. /\ up /\ imp.on /\ EndImport(Ended(impRec, FALSE))
      /\ UNCHANGED <<bucket, promo, promoRec, up, app, roll, asked, blind, secrets>>
      /\ lock' = IF imp.at \in {"clear", "fill"} THEN [lock EXCEPT ![Current] = "free"] ELSE lock
  BY DEF feedVars, BreakOff, promoVars
<1>2. UpsetsOK'
  BY UpsetSpent DEF BreakOff
<1>3. ImportOK' /\ FetchOK' /\ ~imp'.on
  BY <1>1, EndKeeps DEF StandbyInv
<1>4. ReplacedIsDown' /\ ImportLock
  BY <1>3, TypeParts DEF ReplacedIsDown, StandbyInv
<1>5. CASE imp.at \in {"clear", "fill"}
  <2>0. PICK c : c = Current
    OBVIOUS
  <2>1. c \in App /\ lock[c] = "import" /\ lock' = [lock EXCEPT ![c] = "free"]
    BY <1>1, <1>5, <2>0, CurrentIs DEF StandbyInv, ImportOK, ReplacedIsDown
  <2>2. /\ app \in [App -> AppRec] /\ roll \in [App -> {NoRoll} \cup RollRec]
        /\ DataOK(c) /\ AskedOK(c) /\ ~app[c].key /\ (roll[c].at # "none" => ~roll[c].key)
        /\ up /\ InFlight(c) <=> lock[c] = "deployment"
    BY <2>1, RowIs
  <2>3. lock' \in [App -> Holders] /\ lock'[c] = "free" /\ \A a \in App \ {c} : lock'[a] = lock[a]
    BY <2>1, LockIs DEF Holders
  <2>4. DataOK(c)' /\ AskedOK(c)' /\ ~(InFlight(c)')
    <3>1. DataOK(c)'
      BY <1>1, <2>2, <2>3 DEF DataOK, InFlight, Runs, Active
    <3>2. AskedOK(c)'
      BY <1>1, <2>2, <2>3 DEF AskedOK, InFlight, Runs, Active
    <3> QED
      BY <1>1, <2>1, <2>2, <3>1, <3>2 DEF InFlight
  <2>5. CurrentOnly(c)
    BY <1>1, <2>0, <2>1, <2>2, <2>3, <2>4 DEF CurrentOnly, AppsTyped, RollsOK
  <2> QED
    BY <1>1, <1>2, <1>3, <1>4, <2>5, CurrentKeeps
<1>6. CASE imp.at \notin {"clear", "fill"}
  <2>1. UNCHANGED lock /\ \A a \in App : lock[a] # "import"
    BY <1>1, <1>4, <1>6 DEF ImportLock
  <2>2. ImportLock' /\ BucketOK' /\ OneTransfer'
    BY <1>1, <1>3, <2>1 DEF ImportLock, StandbyInv, BucketOK, OneTransfer
  <2> QED
    BY <1>1, <1>2, <1>3, <1>4, <2>1, <2>2, SameAppsKeeps, RowPromo
<1> QED
  BY <1>5, <1>6

-----------------------------------------------------------------------------
(* What is published, promotions, and the agent's ends and starts.          *)

(* One more export in the bucket changes none that is there.                *)
LEMMA PublishKeeps ==
  ASSUME TransferAssumption, StandbyInv, Publish, UNCHANGED <<importVars, promoVars, standbyVars, used>>
  PROVE  StandbyInv'
<1>1. UNCHANGED <<imp, impRec, pull, secrets, promo, promoRec, up, app, roll, lock, asked, blind, used>>
  BY DEF feedVars, importVars, promoVars, standbyVars
<1>2. PICK x \in Contents : Announced(x) /\ bucket' = Append(bucket, x)
  BY DEF feedVars, Publish
<1>3. bucket \in Seq(Contents) /\ \A k \in DOMAIN bucket : Announced(bucket[k])
  BY DEF StandbyInv, BucketOK
<1>4. /\ bucket' \in Seq(Contents) /\ DOMAIN bucket \subseteq DOMAIN bucket'
      /\ \A k \in DOMAIN bucket : bucket'[k] = bucket[k]
      /\ \A k \in DOMAIN bucket' : k \in DOMAIN bucket \/ bucket'[k] = x
  BY <1>2, <1>3
<1>5. BucketOK'
  BY <1>2, <1>3, <1>4 DEF BucketOK
<1>6. ImportOK /\ FetchOK /\ OneTransfer /\ ReplacedIsDown /\ ImportLock /\ UpsetsOK
  BY TypeParts DEF StandbyInv
<1>7. ImportOK' /\ OneTransfer' /\ ReplacedIsDown' /\ ImportLock' /\ UpsetsOK'
  BY <1>1, <1>4, <1>6 DEF ImportOK, OneTransfer, ReplacedIsDown, ImportLock, UpsetsOK, Current
<1>8. FetchOK'
  <2>0. PICK l, n : l = pull.last /\ n = imp.n
    OBVIOUS
  <2>1. \A k \in DOMAIN bucket : \A i \in DOMAIN Applications : Here(i, k) => Here(i, k)'
    BY <1>1, <1>4 DEF Here
  <2>2. \A i \in 1..(imp.next - 1) : imp.on => i \in DOMAIN Applications
    BY <1>6, ApplicationsAreApps DEF ImportOK
  <2>3. impRec.fetched /\ impRec.status = "succeeded" =>
          /\ pull.last \in DOMAIN bucket
          /\ \A i \in DOMAIN Applications : impRec.apps[Applications[i]] = "skipped" \/ Here(i, l)'
    BY <1>6, <2>0, <2>1 DEF FetchOK
  <2>4. imp.on /\ imp.at # "manifest" =>
          \A i \in 1..(imp.next - 1) :
              /\ impRec.apps[Applications[i]] \in {"skipped", "failed", "imported"}
              /\ impRec.apps[Applications[i]] = "imported" => Here(i, n)'
    BY <1>6, <2>0, <2>1, <2>2 DEF FetchOK, ImportOK
  <2>5. imp.on /\ imp.at = "await" => app[Current].vol = bucket'[imp.n].read[imp.next].id
    BY <1>4, <1>6 DEF FetchOK, ImportOK
  <2> QED
    BY <1>1, <1>4, <2>0, <2>3, <2>4, <2>5 DEF FetchOK, Current
<1> QED
  BY <1>1, <1>5, <1>7, <1>8, SameAppsKeeps, RowPromo

(* Retention at the other server leaves the standby as it is.               *)
LEMMA RetireKeeps ==
  ASSUME TransferAssumption, StandbyInv, Retire, UNCHANGED <<importVars, promoVars, standbyVars, used>>
  PROVE  StandbyInv'
<1>1. UNCHANGED <<app, roll, lock, up, bucket, importVars, imp, asked, blind, promo, promoRec, used>>
  BY DEF Retire, importVars, promoVars, standbyVars
<1>2. OneTransfer' /\ UpsetsOK'
  BY <1>1, NoTransferStep DEF StandbyInv, UpsetsOK
<1> QED
  BY <1>1, <1>2, RowPromo, PromotionKeeps

(* A promotion begins: no import runs, and nothing is started yet.          *)
LEMMA StartPromotionKeeps ==
  ASSUME TransferAssumption, StandbyInv, StartPromotion
  PROVE  StandbyInv'
<1>1. /\ up /\ Spend("promotions") /\ ~promo.on /\ ~imp.on
      /\ UNCHANGED <<app, roll, lock, up, bucket, importVars, imp, asked, blind>>
  BY DEF feedVars, StartPromotion, PromoteRequest, MayPromote, importVars, standbyVars
<1>2. promo'.on = TRUE /\ "on" \in DOMAIN promo' /\ promoRec'.status = "running"
      /\ {"status", "apps"} \subseteq DOMAIN promoRec'
  BY DEF StartPromotion
<1>3. OneTransfer'
  BY <1>1, <1>2 DEF StandbyInv, OneTransfer
<1>4. UpsetsOK'
  BY <1>1, OtherSpent DEF StandbyInv
<1> QED
  BY <1>1, <1>2, <1>3, <1>4, PromotionKeeps

(* An outcome in the record of a promotion.                                 *)
LEMMA SetIs ==
  ASSUME StandbyInv, NEW a, NEW status, Set(a, status)
  PROVE  {"status", "apps"} \subseteq DOMAIN promoRec' /\ promoRec'.status = promoRec.status
  BY DEF StandbyInv, OneTransfer, Set

(* The promotion waits, and notes what it saw.                              *)
LEMMA PromoteOutcomeKeeps ==
  ASSUME TransferAssumption, StandbyInv, PromoteOutcome
  PROVE  StandbyInv'
<1>1. /\ up /\ promo.on /\ UNCHANGED <<app, roll, lock, up, bucket, importVars, imp, asked, blind, used>>
      /\ promo' = [promo EXCEPT !.at = "next"]
  BY DEF feedVars, PromoteOutcome, importVars, standbyVars
<1>2. {"status", "apps"} \subseteq DOMAIN promoRec' /\ promoRec'.status = promoRec.status
  BY SetIs DEF PromoteOutcome
<1>3. OneTransfer'
  BY <1>1, <1>2 DEF StandbyInv, OneTransfer
<1>4. UpsetsOK' /\ promoRec'.status \in {"none", "running", "succeeded", "failed"}
  BY <1>1, <1>2, TypeParts DEF StandbyInv, UpsetsOK
<1> QED
  BY <1>1, <1>3, <1>4, PromotionKeeps

(* The promotion is over.                                                   *)
LEMMA FinishPromotionKeeps ==
  ASSUME TransferAssumption, StandbyInv, FinishPromotion
  PROVE  StandbyInv'
<1> DEFINE st == IF \E a \in App : promoRec.apps[a] = "failed" THEN "failed" ELSE "succeeded"
<1>1. /\ up /\ promo.on /\ UNCHANGED <<app, roll, lock, up, bucket, importVars, imp, asked, blind, used>>
      /\ promo' = NotPromoting /\ promoRec' = [promoRec EXCEPT !.status = st]
  BY DEF feedVars, FinishPromotion, importVars, standbyVars
<1>2. st \in {"failed", "succeeded"}
  OBVIOUS
<1> HIDE DEF st
<1>3. {"status", "apps"} \subseteq DOMAIN promoRec' /\ promoRec'.status = st
  BY <1>1 DEF StandbyInv, OneTransfer
<1>4. OneTransfer'
  BY <1>1, <1>3 DEF StandbyInv, OneTransfer, NotPromoting
<1>5. UpsetsOK'
  BY <1>1 DEF StandbyInv, UpsetsOK
<1> QED
  BY <1>1, <1>2, <1>3, <1>4, <1>5, PromotionKeeps

(* The next application of a promotion is started, waited for, or failed.   *)
LEMMA PromoteNextKeeps ==
  ASSUME TransferAssumption, StandbyInv, PromoteNext
  PROVE  StandbyInv'
<1>1. PICK a : /\ promo' = [promo EXCEPT !.at = a] \/ promo' = promo
               /\ \E status : Set(a, status)
               /\ (CanStart(a) /\ Started(a)) \/ UNCHANGED <<app, lock, asked, blind>>
  BY DEF feedVars, PromoteNext
<1>2. up /\ promo.on /\ UNCHANGED <<bucket, importVars, up, roll, used, imp>>
  BY DEF feedVars, PromoteNext, importVars
<1>3. {"status", "apps"} \subseteq DOMAIN promoRec' /\ promoRec'.status = promoRec.status
  BY <1>1, SetIs
<1>4. OneTransfer'
  BY <1>1, <1>2, <1>3 DEF StandbyInv, OneTransfer
<1>5. UpsetsOK' /\ promoRec'.status \in {"none", "running", "succeeded", "failed"}
  BY <1>2, <1>3, TypeParts DEF StandbyInv, UpsetsOK
<1>6. CASE UNCHANGED <<app, lock, asked, blind>>
  BY <1>2, <1>4, <1>5, <1>6, PromotionKeeps
<1>7. CASE a \in App /\ CanStart(a) /\ Started(a)
  BY <1>2, <1>4, <1>5, <1>7, StartedKeeps
<1>8. CASE a \notin App /\ Started(a)
  <2>1. app \in [App -> AppRec] /\ lock \in [App -> Holders]
    BY TypeParts DEF StandbyInv, AppsTyped
  <2>2. app' = app /\ lock' = lock /\ asked' = asked \union {a} /\ blind' \in {blind, blind \union {a}}
    BY <1>8, <2>1 DEF Started
  <2> QED
    BY <1>2, <1>4, <1>5, <1>8, <2>2, PromotionKeeps
<1> QED
  BY <1>1, <1>6, <1>7, <1>8

(* The agent ends: nobody holds anything, and what runs in Docker runs on.  *)
LEMMA StopAgentKeeps ==
  ASSUME TransferAssumption, StandbyInv, StopAgent
  PROVE  StandbyInv'
<1>1. /\ up /\ Spend("upsets") /\ up' = FALSE /\ imp' = NotImporting /\ promo' = NotPromoting
      /\ ~StopsInCommit => \A a \in App : roll[a].at # "active"
      /\ lock' = [a \in App |-> "free"]
      /\ UNCHANGED <<bucket, impRec, pull, secrets, promoRec, app, roll, asked, blind>>
  BY DEF feedVars, StopAgent
<1>2. UpsetsOK'
  BY <1>1, UpsetSpent
<1>3. AppsTyped /\ ImportOK /\ FetchOK /\ OneTransfer /\ impRec \in ImportRec
  BY TypeParts DEF StandbyInv, ImportOK
<1>4. AppsTyped' /\ ImportLock' /\ DeploymentLock' /\ ~imp'.on /\ ~promo'.on
  BY <1>1, <1>3 DEF AppsTyped, ImportLock, DeploymentLock, NotImporting, NotPromoting, Holders
<1>5. ImportOK'
  BY <1>1, <1>3, <1>4 DEF ImportOK
<1>6. FetchOK'
  BY <1>1, <1>3, <1>4 DEF FetchOK, Here
<1>7. ReplacedIsDown'
  BY <1>4 DEF ReplacedIsDown
<1>8. OneTransfer'
  BY <1>1, <1>3 DEF OneTransfer, NotImporting, NotPromoting
<1>9. TransferTypeOK'
  BY <1>1, <1>3, <1>4, TypePartsNext, RowPromo DEF ImportRec
<1>10. ASSUME NEW a \in App PROVE DataOK(a)' /\ AskedOK(a)'
  <2>1. DataOK(a) /\ AskedOK(a) /\ lock'[a] = "free"
    BY <1>1, RowIs
  <2>2. DataOK(a)'
    BY <1>1, <2>1 DEF DataOK, InFlight, Runs, Active
  <2>3. AskedOK(a)'
    BY <1>1, <2>1 DEF AskedOK, InFlight, Runs, Active
  <2> QED
    BY <2>2, <2>3
<1>11. NothingDropped' /\ RollsOK' /\ BucketOK'
  BY <1>1 DEF StandbyInv, NothingDropped, RollsOK, BucketOK
<1> QED
  BY <1>2, <1>5, <1>6, <1>7, <1>8, <1>9, <1>10, <1>11 DEF StandbyInv

(* The agent is back: a deployment that was not committed goes on, one that *)
(* was is over, an import has failed and a promotion is resumed.            *)
LEMMA RecoverKeeps ==
  ASSUME TransferAssumption, StandbyInv, Recover
  PROVE  StandbyInv'
<1>1. /\ ~up /\ up' = TRUE /\ impRec' = Settled /\ promo' = Resumed
      /\ roll' = [a \in App |-> IF roll[a].at \in {"created", "boxed"} THEN roll[a] ELSE NoRoll]
      /\ lock' = [a \in App |-> IF roll[a].at \in {"created", "boxed"} THEN "deployment" ELSE "free"]
      /\ UNCHANGED <<bucket, imp, pull, secrets, promoRec, app, asked, blind, used>>
  BY DEF feedVars, Recover
<1>2. /\ ImportOK /\ FetchOK /\ OneTransfer /\ impRec \in ImportRec /\ ~imp.on
      /\ app \in [App -> AppRec] /\ roll \in [App -> {NoRoll} \cup RollRec]
  BY <1>1, TypeParts DEF StandbyInv, ImportOK, OneTransfer, AppsTyped, RollsOK
<1>3. impRec' \in ImportRec /\ (impRec'.status = "succeeded" => impRec' = impRec)
  BY <1>1, <1>2, EndedIs DEF Settled
<1>4. ImportOK' /\ ReplacedIsDown'
  BY <1>1, <1>2, <1>3 DEF ImportOK, ReplacedIsDown
<1>5. FetchOK'
  BY <1>1, <1>2, <1>3 DEF FetchOK, Here
<1>6. "on" \in DOMAIN promo' /\ promo'.on \in BOOLEAN
  BY <1>1 DEF Resumed, NotPromoting
<1>7. OneTransfer'
  BY <1>1, <1>2, <1>6 DEF OneTransfer
<1>8. lock' \in [App -> Holders]
  BY <1>1 DEF Holders
<1>9. RollsOK'
  <2> DEFINE S == {NoRoll} \cup RollRec
  <2>1. roll \in [App -> S] /\ NoRoll \in S
    BY <1>2
  <2> HIDE DEF S
  <2>2. roll' \in [App -> S]
    BY <1>1, <2>1
  <2> QED
    BY <2>2 DEF S, RollsOK
<1>10. AppsTyped' /\ ImportLock' /\ DeploymentLock'
  <2>1. AppsTyped'
    BY <1>1, <1>2, <1>8 DEF AppsTyped
  <2>2. ImportLock'
    BY <1>1 DEF ImportLock
  <2>3. DeploymentLock'
    BY <1>1 DEF DeploymentLock, InFlight, NoRoll
  <2> QED
    BY <2>1, <2>2, <2>3
<1>11. TransferTypeOK'
  BY <1>1, <1>3, <1>10, TypePartsNext, RowPromo DEF ImportRec
<1>12. ASSUME NEW a \in App
       PROVE  DataOK(a)' /\ AskedOK(a)' /\ ~app'[a].key /\ (roll'[a].at # "none" => ~roll'[a].key)
  <2>1. DataOK(a) /\ AskedOK(a) /\ ~app[a].key /\ (roll[a].at # "none" => ~roll[a].key)
    BY RowIs
  <2>2. lock'[a] # "start" /\ app'[a] = app[a] /\ (a \in asked' <=> a \in asked) /\ (a \in blind' <=> a \in blind)
    BY <1>1
  <2>3. CASE roll[a].at \in {"created", "boxed"}
    <3>1. roll'[a] = roll[a]
      BY <1>1, <2>3
    <3>2. DataOK(a)'
      BY <1>1, <2>1, <2>2, <2>3, <3>1 DEF DataOK, InFlight, Runs, Active
    <3>3. AskedOK(a)'
      BY <1>1, <2>1, <2>2, <2>3, <3>1 DEF AskedOK, InFlight, Runs, Active
    <3> QED
      BY <2>1, <2>2, <3>1, <3>2, <3>3
  <2>4. CASE roll[a].at \notin {"created", "boxed"}
    <3>1. roll'[a].at = "none"
      BY <1>1, <2>4 DEF NoRoll
    <3>2. DataOK(a)'
      BY <1>1, <2>1, <2>2, <2>4, <3>1 DEF DataOK, InFlight, Runs, Active
    <3>3. AskedOK(a)'
      BY <1>1, <2>1, <2>2, <2>4, <3>1 DEF AskedOK, InFlight, Runs, Active
    <3> QED
      BY <2>1, <2>2, <3>1, <3>2, <3>3
  <2> QED
    BY <2>3, <2>4
<1>13. NothingDropped' /\ \A a \in App : DataOK(a)' /\ AskedOK(a)'
  BY <1>12 DEF NothingDropped
<1>14. BucketOK' /\ UpsetsOK'
  BY <1>1 DEF StandbyInv, BucketOK, UpsetsOK
<1> QED
  BY <1>4, <1>5, <1>7, <1>9, <1>11, <1>13, <1>14 DEF StandbyInv

-----------------------------------------------------------------------------
(* Nothing is imported, promoted or deployed at first.                      *)
LEMMA InitInv ==
  ASSUME TransferAssumption, TransferInit
  PROVE  StandbyInv
<1>1. /\ up = TRUE /\ app = [a \in App |-> Unknown] /\ roll = [a \in App |-> NoRoll]
      /\ lock = [a \in App |-> "free"] /\ asked = {} /\ imp = NotImporting
      /\ impRec = [status |-> "none", fetched |-> FALSE, apps |-> [a \in App |-> "none"]]
      /\ promo = NotPromoting /\ promoRec = [status |-> "none", apps |-> [a \in App |-> "none"]]
      /\ pull = [last |-> 0, error |-> FALSE] /\ bucket = <<>>
      /\ used = [what \in DOMAIN Budget |-> 0]
  BY DEF TransferInit, FeedInit
<1>2. Unknown \in AppRec /\ ~Unknown.key /\ Unknown.dep = 0 /\ Unknown.box = "none"
  BY DEF Unknown, AppRec
<1>3. AppsTyped /\ ImportLock /\ DeploymentLock /\ RollsOK
  BY <1>1, <1>2 DEF AppsTyped, ImportLock, DeploymentLock, RollsOK, InFlight, NoRoll, Holders
<1>4. TransferTypeOK
  BY <1>1, <1>3, TypeParts
<1>5. BucketOK
  BY <1>1 DEF BucketOK
<1>6. impRec \in ImportRec /\ ImportOK
  <2>1. [a \in App |-> "none"] \in [App -> Statuses]
    BY DEF Statuses
  <2>2. impRec \in ImportRec
    BY <1>1, <2>1 DEF ImportRec
  <2> QED
    BY <1>1, <2>2 DEF ImportOK, NotImporting
<1>7. OneTransfer /\ ReplacedIsDown
  BY <1>1 DEF OneTransfer, ReplacedIsDown, NotImporting, NotPromoting
<1>8. \A a \in App : DataOK(a) /\ AskedOK(a)
  BY <1>1, <1>2 DEF DataOK, AskedOK, InFlight, NoRoll, Runs, Active
<1>9. NothingDropped
  BY <1>1, <1>2 DEF NothingDropped, NoRoll
<1>10. FetchOK /\ UpsetsOK
  BY <1>1 DEF FetchOK, UpsetsOK, NotImporting, Budget
<1> QED
  BY <1>4, <1>3, <1>5, <1>6, <1>7, <1>8, <1>9, <1>10 DEF StandbyInv

(* Every step of the standby keeps what is known of it.                     *)
LEMMA StepKeeps ==
  ASSUME TransferAssumption, StandbyInv, [TransferNext]_transferVars
  PROVE  StandbyInv'
<1>1. CASE ImportStep
  BY <1>1, ReadManifestKeeps, NextApplicationKeeps, ResolveKeeps, ClearKeeps, FillAndCreateKeeps,
     AwaitDeploymentKeeps, FinishImportKeeps DEF ImportStep
<1>2. CASE RollStep
  BY <1>2, CreateReplicasKeeps, ActivateKeeps, KeepStoppedKeeps, RecordStartedKeeps, SuperviseKeeps DEF RollStep
<1>3. CASE PromotionStep
  BY <1>3, PromoteNextKeeps, PromoteOutcomeKeeps, FinishPromotionKeeps DEF PromotionStep
<1>4. CASE Recover
  BY <1>4, RecoverKeeps
<1>5. CASE (Publish \/ Retire) /\ UNCHANGED <<importVars, promoVars, standbyVars, used>>
  BY <1>5, PublishKeeps, RetireKeeps
<1>6. CASE \E a \in App : Abort(a) \/ Stop(a) \/ Start(a)
  BY <1>6, AbortKeeps, StopKeeps, StartByHandKeeps
<1>7. CASE Upload \/ \E onlyNew \in BOOLEAN : Pull(onlyNew)
  BY <1>7, UploadKeeps, PullKeeps
<1>8. CASE BreakOff \/ StartPromotion \/ StopAgent
  BY <1>8, BreakOffKeeps, StartPromotionKeeps, StopAgentKeeps
<1>9. CASE UNCHANGED transferVars
  <2>1. UNCHANGED <<app, roll, lock, up, bucket, importVars, asked, blind, imp, promo, promoRec, used>>
    BY <1>9 DEF feedVars, transferVars, importVars, promoVars, standbyVars
  <2>2. OneTransfer'
    BY <2>1, NoTransferStep
  <2>3. UpsetsOK'
    BY <2>1 DEF StandbyInv, UpsetsOK
  <2> QED
    BY <2>1, <2>2, <2>3, RowPromo, PromotionKeeps
<1> QED
  BY <1>1, <1>2, <1>3, <1>4, <1>5, <1>6, <1>7, <1>8, <1>9 DEF TransferNext, AgentStep

(* What is known of the standby says that it is whole.                      *)
LEMMA WholeFromInv ==
  ASSUME TransferAssumption, StandbyInv
  PROVE  TransferTypeOK /\ NothingDropped /\ WholeData /\ FetchedIsHere
<1>1. WholeData
  <2> SUFFICES ASSUME NEW a \in App \ blind, app[a].box = "running"
               PROVE  app[a].vol = IF InFlight(a) THEN roll[a].id ELSE app[a].dep
    BY DEF WholeData, InFlight
  <2> QED
    BY RowIs DEF DataOK
<1>2. FetchedIsHere
  BY DEF FetchedIsHere, StandbyInv, FetchOK, Here
<1> QED
  BY <1>1, <1>2 DEF StandbyInv

(* Where no end falls between a commit and its note, nobody started what    *)
(* was imported stopped.                                                    *)
LEMMA DormantFromInv ==
  ASSUME StandbyInv, ~StopsInCommit
  PROVE  DormantStaysDown
  BY RowIs DEF DormantStaysDown, AskedOK

(* What an import brings is whole, whatever ends in between: no key is      *)
(* dropped, no process runs on a volume that is not its deployment's, but   *)
(* what somebody started after an import had removed its containers, and a  *)
(* fetch recorded as a success is here (importRun.run, restoreVolumes,      *)
(* recoverTransfers).                                                       *)
THEOREM StandbyIsWhole == TransferSpec => [](TransferTypeOK /\ NothingDropped /\ WholeData /\ FetchedIsHere)
<1>1. TransferInit => StandbyInv
  BY TransferAssumption, InitInv
<1>2. StandbyInv /\ [TransferNext]_transferVars => StandbyInv'
  BY TransferAssumption, StepKeeps
<1>3. StandbyInv => TransferTypeOK /\ NothingDropped /\ WholeData /\ FetchedIsHere
  BY TransferAssumption, WholeFromInv
<1> QED
  BY <1>1, <1>2, <1>3, PTL DEF TransferSpec

(* A standby has what the export had, and has it waiting, as long as the    *)
(* agent does not end between a commit and the note that the application    *)
(* stays stopped (importApplication, executeDormant, keepStopped).          *)
THEOREM StandbyIsSafe == ~StopsInCommit /\ TransferSpec => []TransferSafe
<1>1. TransferInit => StandbyInv
  BY TransferAssumption, InitInv
<1>2. StandbyInv /\ [TransferNext]_transferVars => StandbyInv'
  BY TransferAssumption, StepKeeps
<1>3. ~StopsInCommit /\ StandbyInv => TransferSafe
  BY TransferAssumption, WholeFromInv, DormantFromInv DEF TransferSafe
<1>4. TransferSpec => []StandbyInv
  BY <1>1, <1>2, PTL DEF TransferSpec
<1>5. CASE StopsInCommit
  BY <1>5
<1>6. CASE ~StopsInCommit
  <2>1. StandbyInv => TransferSafe
    BY <1>3, <1>6
  <2> QED
    BY <1>4, <2>1, PTL
<1> QED
  BY <1>5, <1>6

-----------------------------------------------------------------------------
(* What a standby that took over keeps.                                     *)

(* One field of an application's row is replaced.                           *)
LEMMA FieldReplaced ==
  ASSUME StandbyInv, NEW a \in App, NEW c, NEW v
  PROVE  /\ app' = [app EXCEPT ![c].desired = v] =>
                app'[a].vol = app[a].vol /\ (app'[a].desired = v \/ app'[a].desired = app[a].desired)
         /\ app' = [app EXCEPT ![c].desired = v] /\ a # c => app'[a] = app[a]
         /\ app' = [app EXCEPT ![c].box = v] => app'[a].vol = app[a].vol /\ app'[a].desired = app[a].desired
         /\ app' = [app EXCEPT ![c].vol = v] => app'[a].desired = app[a].desired
<1>1. app \in [App -> AppRec]
  BY RowIs
<1>2. /\ [app EXCEPT ![c].desired = v][a].vol = app[a].vol
      /\ [app EXCEPT ![c].desired = v][a].desired = v \/ [app EXCEPT ![c].desired = v][a].desired = app[a].desired
      /\ a # c => [app EXCEPT ![c].desired = v][a] = app[a]
  BY <1>1 DEF AppRec
<1>3. [app EXCEPT ![c].box = v][a].vol = app[a].vol /\ [app EXCEPT ![c].box = v][a].desired = app[a].desired
  BY <1>1 DEF AppRec
<1>4. [app EXCEPT ![c].vol = v][a].desired = app[a].desired
  BY <1>1 DEF AppRec
<1> QED
  BY <1>2, <1>3, <1>4

(* Outside of an import no volume is exchanged; what runs because somebody  *)
(* asked for it is taken down by hand, or by an import that replaces it.    *)
TakenDown(a) ==
    Runs(a) /\ a \in asked /\ app'[a].desired = "stopped" =>
        \/ used'.upsets > used.upsets
        \/ imp.on /\ imp.overwrite /\ ~imp.stopped
(* What any step may do to an application.                                  *)
RowStep(a) == (~imp.on => app'[a].vol = app[a].vol) /\ TakenDown(a)

(* The steps of a deployment and those of somebody at the server.           *)
LEMMA RollRowStep ==
  ASSUME TransferAssumption, StandbyInv, NEW a \in App, NEW c \in App,
         \/ CreateReplicas(c) \/ Activate(c) \/ KeepStopped(c) \/ RecordStarted(c) \/ Supervise(c)
         \/ Abort(c) \/ Stop(c) \/ Start(c)
  PROVE  RowStep(a)
<1>1. /\ app \in [App -> AppRec] /\ DataOK(c) /\ AskedOK(c)
      /\ ~Runs(a) \/ app[a].desired = "running"
  BY RowIs DEF Runs
<1>2. CASE CreateReplicas(c)
  <2>1. /\ app' = [app EXCEPT ![c].desired = IF roll[c].dormant THEN "stopped" ELSE @,
                              ![c].box = IF roll[c].dormant THEN "created" ELSE "running"]
        /\ app[c].desired = "stopped"
    BY <1>1, <1>2 DEF CreateReplicas, DataOK
  <2>2. app'[a].vol = app[a].vol /\ (a # c => app'[a] = app[a])
    BY <1>1, <2>1 DEF AppRec
  <2> QED
    BY <1>1, <2>1, <2>2 DEF RowStep, TakenDown
<1>3. CASE Activate(c)
  <2>1. app' = [app EXCEPT ![c].dep = roll[c].id, ![c].key = roll[c].key, ![c].kind = roll[c].kind,
                           ![c].desired = "running"]
    BY <1>3 DEF Activate
  <2>2. app'[a].vol = app[a].vol /\ (a # c => app'[a] = app[a]) /\ (a = c => app'[a].desired = "running")
    BY <1>1, <2>1 DEF AppRec
  <2> QED
    BY <1>1, <2>2 DEF RowStep, TakenDown
<1>4. CASE KeepStopped(c)
  <2>1. app' = [app EXCEPT ![c].desired = "stopped"] /\ c \notin asked
    BY <1>1, <1>4 DEF KeepStopped, KeptStopped, AskedOK, DataOK, InFlight
  <2> QED
    BY <1>1, <2>1, FieldReplaced DEF RowStep, TakenDown
<1>5. CASE RecordStarted(c)
  <2>1. app' = [app EXCEPT ![c].desired = "running"]
    BY <1>5 DEF RecordStarted
  <2> QED
    BY <1>1, <2>1, FieldReplaced DEF RowStep, TakenDown
<1>6. CASE Supervise(c) \/ Abort(c) \/ Start(c)
  <2>1. \E v : app' = [app EXCEPT ![c].box = v]
    BY <1>6 DEF Supervise, Abort, Start, Started
  <2> QED
    BY <1>1, <2>1, FieldReplaced DEF RowStep, TakenDown
<1>7. CASE Stop(c)
  <2>1. /\ app' = [app EXCEPT ![c].desired = "stopped", ![c].box = IF @ = "none" THEN @ ELSE "created"]
        /\ used'.upsets > used.upsets
    BY <1>7, UpsetSpent DEF Stop
  <2>2. app'[a].vol = app[a].vol
    BY <1>1, <2>1 DEF AppRec
  <2> QED
    BY <2>1, <2>2 DEF RowStep, TakenDown
<1> QED
  BY <1>2, <1>3, <1>4, <1>5, <1>6, <1>7

(* The steps of an import.                                                  *)
LEMMA ImportRowStep ==
  ASSUME TransferAssumption, StandbyInv, NEW a \in App, ImportStep
  PROVE  RowStep(a)
<1>1. imp.on /\ ImportOK /\ (~Runs(a) \/ app[a].desired = "running")
  BY DEF StandbyInv, Runs, ImportStep, ReadManifest, NextApplication, Resolve, Clear, FillAndCreate, AwaitDeployment,
         FinishImport
<1>2. CASE UNCHANGED app
  BY <1>1, <1>2 DEF RowStep, TakenDown
<1>3. CASE \E ok \in BOOLEAN : Resolve(ok)
  <2>1. PICK ok \in BOOLEAN : Resolve(ok)
    BY <1>3
  <2>2. PICK c : c = Current
    OBVIOUS
  <2>3. CASE app' = [app EXCEPT ![c].desired = "stopped"] /\ Replaceable(c)
    <3>1. a # c => app'[a] = app[a]
      BY <2>3, FieldReplaced
    <3>2. a = c /\ Runs(a) => imp.overwrite /\ ~imp.stopped
      BY <2>3 DEF Replaceable, Runs
    <3> QED
      BY <1>1, <3>1, <3>2 DEF RowStep, TakenDown
  <2>4. CASE UNCHANGED app
    BY <2>4, <1>2
  <2>5. lock[c] = "free" /\ ~(lock[c] = "free" /\ ~Replaceable(c)) => Replaceable(c)
    OBVIOUS
  <2> QED
    BY <2>1, <2>2, <2>3, <2>4, <2>5 DEF feedVars, Resolve, standbyVars
<1>4. CASE \E ok \in BOOLEAN : Clear(ok)
  <2>1. app \in [App -> AppRec] /\ \A c : a # c => \A x : [app EXCEPT ![c] = x][a] = app[a]
    BY RowIs
  <2>2. PICK c, x : app' = [app EXCEPT ![c] = x] /\ x \in ClearedInPart(c)
    BY <1>4 DEF Clear, ClearedInPart
  <2>3. app'[a].desired = app[a].desired
    <3>1. CASE c = a
      <4>1. app'[a] = x /\ x.desired = app[a].desired
        BY <2>1, <2>2, <3>1 DEF Cleared, ClearedInPart, AppRec
      <4> QED
        BY <4>1
    <3>2. CASE c # a
      BY <2>1, <2>2, <3>2
    <3> QED
      BY <3>1, <3>2
  <2> QED
    BY <1>1, <2>3 DEF RowStep, TakenDown
<1>5. CASE \E ok \in BOOLEAN : FillAndCreate(ok)
  <2>1. PICK c, v : app' = [app EXCEPT ![c].vol = v] \/ UNCHANGED app
    BY <1>5 DEF FillAndCreate, Filled
  <2>2. app \in [App -> AppRec]
    BY RowIs
  <2>3. app'[a].desired = app[a].desired
    BY <2>1, <2>2 DEF AppRec
  <2> QED
    BY <1>1, <2>3 DEF RowStep, TakenDown
<1>6. CASE \/ \E ok \in BOOLEAN : ReadManifest(ok) \/ NextApplication(ok)
           \/ AwaitDeployment \/ FinishImport
  BY <1>2, <1>6 DEF feedVars, ReadManifest, NextApplication, AwaitDeployment, FinishImport, standbyVars
<1> QED
  BY <1>3, <1>4, <1>5, <1>6 DEF ImportStep

(* Every step.                                                              *)
LEMMA EveryRowStep ==
  ASSUME TransferAssumption, StandbyInv, [TransferNext]_transferVars, NEW a \in App
  PROVE  RowStep(a)
<1>1. CASE ImportStep
  BY <1>1, ImportRowStep
<1>2. CASE RollStep \/ \E c \in App : Abort(c) \/ Stop(c) \/ Start(c)
  BY <1>2, RollRowStep DEF RollStep
<1>3. CASE UNCHANGED app
  <2>1. ~Runs(a) \/ app[a].desired = "running"
    BY DEF Runs
  <2> QED
    BY <1>3, <2>1 DEF RowStep, TakenDown
<1>4. CASE PromoteNext
  <2>1. UNCHANGED app \/ \E c, v : app' = [app EXCEPT ![c].box = v]
    BY <1>4 DEF PromoteNext, Started
  <2>2. ~Runs(a) \/ app[a].desired = "running"
    BY DEF Runs
  <2>3. app \in [App -> AppRec]
    BY RowIs
  <2>4. app'[a].vol = app[a].vol /\ app'[a].desired = app[a].desired
    BY <2>1, <2>3 DEF AppRec
  <2> QED
    BY <2>2, <2>4 DEF RowStep, TakenDown
<1>5. CASE \/ PromoteOutcome \/ FinishPromotion \/ Recover \/ UNCHANGED transferVars
           \/ (Publish \/ Retire) /\ UNCHANGED <<importVars, promoVars, standbyVars, used>>
           \/ Upload \/ BreakOff \/ StartPromotion \/ StopAgent
           \/ \E onlyNew \in BOOLEAN : Pull(onlyNew)
  <2>1. UNCHANGED app
    BY <1>5 DEF feedVars, PromoteOutcome, FinishPromotion, Recover, transferVars, standbyVars, Upload, BreakOff, StartPromotion,
                StopAgent, Pull
  <2> QED
    BY <1>3, <2>1
<1> QED
  BY <1>1, <1>2, <1>4, <1>5 DEF TransferNext, AgentStep, PromotionStep

(* The secrets are exchanged by an import only, as it begins to read.       *)
LEMMA SecretsStep ==
  ASSUME TransferAssumption, StandbyInv, [TransferNext]_transferVars, secrets' # secrets
  PROVE  \E ok \in BOOLEAN : ReadManifest(ok) /\ secrets' = StoredSecrets
<1>1. ~(UNCHANGED transferVars) /\ ~(UNCHANGED importVars)
  BY DEF feedVars, transferVars, importVars
<1>2. ~RollStep /\ ~PromotionStep /\ ~Recover
  BY <1>1 DEF feedVars, RollStep, PromotionStep, Recover, CreateReplicas, Activate, KeepStopped, RecordStarted, Supervise, RollOnly,
              PromoteNext, PromoteOutcome, FinishPromotion
<1>3. ~(\E a \in App : Abort(a) \/ Stop(a) \/ Start(a))
  BY <1>1 DEF feedVars, Abort, Stop, Start, RollOnly
<1>4. ~Upload /\ ~BreakOff /\ ~StartPromotion /\ ~StopAgent /\ ~(\E onlyNew \in BOOLEAN : Pull(onlyNew))
  BY <1>1 DEF feedVars, Upload, BreakOff, StartPromotion, StopAgent, Pull
<1>5. ImportStep
  BY <1>1, <1>2, <1>3, <1>4 DEF TransferNext, AgentStep
<1> QED
  BY <1>5 DEF feedVars, ImportStep, ReadManifest, NextApplication, Resolve, Clear, FillAndCreate, AwaitDeployment, FinishImport

(* A standby that took over is not undone by the imports it still makes:    *)
(* they take down nothing that somebody started, replace nothing that is    *)
(* being promoted, and leave the secrets of what serves (importApplication, *)
(* replaceable, promoted).                                                  *)
THEOREM StandbyIsKept == TransferSpec => StandbyKept
<1> DEFINE Kept == \A a \in App : Runs(a) /\ a \in asked /\ app'[a].desired = "stopped" =>
                        \/ used'.upsets > used.upsets
                        \/ imp.on /\ imp.overwrite /\ ~imp.stopped
           Same == \A a \in App : promo.on /\ promoRec.apps[a] # "none" => app'[a].vol = app[a].vol
           Own == secrets' # secrets /\ imp.stopped =>
                        \A a \in App : ~(promoRec.apps[a] \in {"running", "started"} /\ Runs(a))
<1>1. TransferInit => StandbyInv
  BY TransferAssumption, InitInv
<1>2. StandbyInv /\ [TransferNext]_transferVars => StandbyInv'
  BY TransferAssumption, StepKeeps
<1>3. StandbyInv /\ [TransferNext]_transferVars => Kept
  BY TransferAssumption, EveryRowStep DEF RowStep, TakenDown
<1>4. StandbyInv /\ [TransferNext]_transferVars => Same
  <2>1. StandbyInv => ~(imp.on /\ promo.on)
    BY DEF StandbyInv, OneTransfer
  <2> QED
    BY <2>1, TransferAssumption, EveryRowStep DEF RowStep
<1>5. StandbyInv /\ [TransferNext]_transferVars => Own
  <2> SUFFICES ASSUME StandbyInv, [TransferNext]_transferVars, secrets' # secrets, imp.stopped, NEW a \in App, Runs(a)
               PROVE  FALSE
    OBVIOUS
  <2>1. secrets' = StoredSecrets
    BY TransferAssumption, SecretsStep
  <2>2. secrets # 0
    BY RowIs DEF DataOK, Runs
  <2>3. Promoted
    BY DEF Promoted
  <2> QED
    BY <2>1, <2>2, <2>3 DEF StoredSecrets
<1> HIDE DEF Kept, Same, Own
<1>6. TransferSpec => [][Kept]_transferVars /\ [][Same]_transferVars /\ [][Own]_transferVars
  BY <1>1, <1>2, <1>3, <1>4, <1>5, PTL DEF TransferSpec
<1> QED
  BY <1>6 DEF Kept, Same, Own, StandbyKept, TakenOverStays, NotUnderPromotion, SecretsStay
=============================================================================
