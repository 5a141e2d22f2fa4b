------------------------------ MODULE Release -------------------------------
(***************************************************************************)
(* What the command line client makes of a published release: `shipwick    *)
(* upgrade` puts its binary in place of the one that runs, and `shipwick   *)
(* server bundle` packs what a server without a connection is installed    *)
(* from (cli/internal/commands upgrade*.go, signature.go, bundle.go,       *)
(* bundle_images.go, pkg/version).                                         *)
(*                                                                         *)
(* Commands are processes: each reads the release's checksums, has them    *)
(* verified where cosign is installed, downloads, and renames a file it    *)
(* wrote beside the target.  Between any two steps a download breaks off,  *)
(* brings other content than the checksums list, or the process is killed. *)
(* A file is its blocks, and a name a link to it: a process writes to the  *)
(* file it opened, whatever its name has become since.                     *)
(***************************************************************************)
EXTENDS Integers, Sequences, FiniteSets, Functions

CONSTANTS
    Releases,       \* published versions: [core, pre], pre 0 in a release
    Dev,            \* the version of a development build
    FirstSigned,    \* signature.firstSignedRelease
    Settings,       \* the site, [latest, api, redirect, rel], and the machine,
                    \* [windows, brew, cosign, native, built, version], together
    ImageArchives,       \* what `docker save` may write: [name -> archive]
    Own,            \* [index, manifest, config]: the digests the release published
    ManifestConfig, \* [manifest digest -> the configuration it names]
    ManifestLayers, \* [manifest digest -> its layers]
    DiffIDs,        \* [configuration digest -> its unpacked layers]
    Blocks,         \* blocks of a file
    Commands,       \* processes
    Overlap,        \* whether two commands may run at a time
    ReleaseBudgets  \* the scenarios: [starts, bad, kills]

\* A file has a block, and a digest names an index or a manifest, not both.
ASSUME ReleaseAssumption ==
    /\ Blocks \in Nat \ {0}
    /\ Own.index \notin DOMAIN ManifestConfig
    /\ \A s \in Settings : s.machine.windows \in BOOLEAN

VARIABLES
    site,       \* the site, fixed in a scenario
    machine,    \* the machine, fixed in a scenario
    files,      \* every file's blocks, by the order they were created in
    names,      \* what each name links to, 0 where there is none
    process,    \* where each process is
    releaseLeft \* what is left of the scenario's events

releaseVars == <<site, machine, files, names, process, releaseLeft>>

Hole == [kind |-> "none", tag |-> Dev, what |-> "", ok |-> FALSE]
Empty == [b \in 1..Blocks |-> Hole]
Whole(f) == \A b \in 1..Blocks : f[b] = f[1] /\ f[b] # Hole
Idle == [phase |-> "idle", kind |-> "", tag |-> Dev, pull |-> TRUE, file |-> 0, at |-> 0,
         good |-> TRUE, content |-> Hole]

-----------------------------------------------------------------------------
(* Versions.                                                               *)

Parses(v) == v # Dev

(* Compare: a pre-release sorts before the release it precedes.            *)
Before(v, w) ==
    IF Parses(v) /\ Parses(w)
    THEN \/ v.core < w.core
         \/ v.core = w.core /\ v.pre # 0 /\ (w.pre = 0 \/ v.pre < w.pre)
    ELSE ~Parses(v) /\ Parses(w)

(* upgradeBinary brings a release up to the latest one; installRelease     *)
(* puts the one asked for in place of anything else.  Homebrew's is left.  *)
Swaps(v, tag, pinned) ==
    /\ ~machine.brew
    /\ IF pinned THEN ~Parses(v) \/ v # tag ELSE Parses(v) /\ Before(v, tag)

(* The API's answer, or where it is not to be had the website's redirect.  *)
latestRelease ==
    CASE site.api = "down" -> {}
      [] site.api = "ok" /\ site.latest.pre = 0 -> {site.latest}
      [] OTHER -> {r \in {site.redirect} : Parses(r)}

-----------------------------------------------------------------------------
(* What a release is believed with.                                        *)

(* Without cosign nothing is checked; with it the signature is the release *)
(* workflow's for this tag, and only an old release may have none.         *)
checkSignature(tag) ==
    LET sig == site.rel[tag].signature IN
    CASE sig = "none" -> Before(tag, FirstSigned) \/ ~machine.cosign
      [] ~machine.cosign -> TRUE
      [] OTHER -> sig = "own"

(* The build for the machine, or for what this binary was built as.        *)
Asset(tag) ==
    LET listed == {machine.native, machine.built} \cap site.rel[tag].lists IN
    IF machine.native \in listed THEN {machine.native} ELSE listed

(* The manifest and layers as the registry serves them.                    *)
served(a) ==
    /\ Own.manifest \in a.has /\ ManifestConfig[Own.manifest] = Own.config
    /\ Range(ManifestLayers[Own.manifest]) \subseteq a.has

(* The release's manifest, or one docker save wrote around the release's   *)
(* configuration and its unpacked layers.                                  *)
follows(a, d) ==
    IF d = Own.manifest THEN served(a)
    ELSE /\ d \in a.has \cap DOMAIN ManifestConfig
         /\ ManifestConfig[d] = Own.config
         /\ ManifestLayers[d] = DiffIDs[Own.config]
         /\ Range(ManifestLayers[d]) \subseteq a.has

(* savedImages.verify: the configuration, its layers in one form, and the  *)
(* tag for this image only, by manifest.json and by index.json.            *)
verify(a) ==
    /\ Own.config \in a.has
    /\ served(a) \/ Range(DiffIDs[Own.config]) \subseteq a.has
    /\ a.manifestJson \subseteq {Own.config}
    /\ \A d \in a.indexJson : (d = Own.index /\ served(a)) \/ follows(a, d)
    /\ a.manifestJson \cup a.indexJson # {}

-----------------------------------------------------------------------------
ReleaseInit ==
    /\ \E s \in Settings : site = s.site /\ machine = s.machine
    /\ files = << [b \in 1..Blocks |-> [kind |-> "upgrade", tag |-> machine.version, what |-> machine.built, ok |-> TRUE]] >>
    /\ names = [exe |-> 1, staged |-> 0, old |-> 0, out |-> 0, partial |-> 0]
    /\ process = [c \in Commands |-> Idle]
    /\ releaseLeft \in ReleaseBudgets

SpendRelease(what) == releaseLeft[what] > 0 /\ releaseLeft' = [releaseLeft EXCEPT ![what] = @ - 1]
Staging(kind) == IF kind = "upgrade" THEN "staged" ELSE "partial"
Target(kind) == IF kind = "upgrade" THEN "exe" ELSE "out"
At(c, phase) == process[c].phase = phase
To(c, phase) == process' = [process EXCEPT ![c].phase = phase]

(* OpenFile with O_CREATE and O_TRUNC: the file of that name, or a new one.*)
Opened(c) ==
    LET name == Staging(process[c].kind)
        i == IF names[name] # 0 THEN names[name] ELSE Len(files) + 1
    IN /\ files' = IF i > Len(files) THEN Append(files, Empty) ELSE [files EXCEPT ![i] = Empty]
       /\ names' = [names EXCEPT ![name] = i]
       /\ process' = [process EXCEPT ![c].file = i, ![c].phase = IF @ = "open" THEN "sums" ELSE "write"]

(* A command that fails removes what it staged.                            *)
Fail(c) ==
    /\ names' = IF process[c].file = 0 THEN names
                ELSE [names EXCEPT ![Staging(process[c].kind)] = 0]
    /\ process' = [process EXCEPT ![c] = Idle]
    /\ UNCHANGED <<site, machine, files, releaseLeft>>

(* A command starts: an upgrade with what it runs as, which first clears   *)
(* what an earlier upgrade on Windows put aside.                           *)
Start(c, kind, tag, pinned, pull) ==
    /\ At(c, "idle") /\ names.exe # 0 /\ Whole(files[names.exe])
    /\ Overlap \/ \A d \in Commands : At(d, "idle")
    /\ pinned \/ tag \in latestRelease
    /\ kind = "upgrade" => Swaps(files[names.exe][1].tag, tag, pinned)
    /\ SpendRelease("starts")
    /\ names' = IF machine.windows THEN [names EXCEPT !.old = 0] ELSE names
    /\ process' = [process EXCEPT ![c] = [Idle EXCEPT !.phase = IF kind = "upgrade" THEN "open" ELSE "sums",
                                                      !.kind = kind, !.tag = tag, !.pull = pull]]
    /\ UNCHANGED <<site, machine, files>>

(* The staging file comes before any download.                             *)
OpenStaged(c) ==
    /\ At(c, "open") /\ Opened(c) /\ UNCHANGED <<site, machine, releaseLeft>>

(* checksums.txt and its signature: the release is not there, or must not  *)
(* be used, or does not have what is asked for.                            *)
FetchSums(c) ==
    LET tag == process[c].tag
        upgrade == process[c].kind = "upgrade"
        has == IF upgrade THEN Asset(tag) # {} ELSE {"compose", "installer", "amd64"} \subseteq site.rel[tag].lists
    IN /\ At(c, "sums")
       /\ IF tag \in DOMAIN site.rel /\ checkSignature(tag) /\ has
          THEN /\ \E a \in IF upgrade THEN Asset(tag) ELSE {""} :
                    process' = [process EXCEPT ![c].phase = IF upgrade THEN "write" ELSE "gather", ![c].at = 0,
                                  ![c].content = [kind |-> process[c].kind, tag |-> tag, what |-> a, ok |-> TRUE]]
               /\ UNCHANGED <<site, machine, files, names, releaseLeft>>
          ELSE Fail(c)

(* saveImages: what is under the tags once it pulled, or was there anyway. *)
(* The registry may serve another image than when the release was cut, and *)
(* a Docker of either store writes the archive in its own form.            *)
Saved == DOMAIN ImageArchives

(* The bundle's files are verified each, its images pulled, or taken as    *)
(* they are here, and saved: proven only against digests the release       *)
(* publishes, and only what was pulled.                                    *)
Gather(c) ==
    LET cmd == process[c]
        digests == cmd.pull /\ "digests" \in site.rel[cmd.tag].lists
    IN /\ At(c, "gather")
       /\ \E a \in Saved :
             IF digests => verify(ImageArchives[a])
             THEN /\ process' = [process EXCEPT ![c].phase = "pack", ![c].content.what = a, ![c].content.ok = digests]
                  /\ UNCHANGED <<site, machine, files, names, releaseLeft>>
             ELSE Fail(c)

OpenPartial(c) ==
    /\ At(c, "pack") /\ Opened(c) /\ UNCHANGED <<site, machine, releaseLeft>>

(* The next block, as it should be or otherwise; a bundle's come from the  *)
(* files it gathered.                                                      *)
WriteBlock(c) ==
    LET cmd == process[c] IN
    /\ At(c, "write") /\ cmd.at < Blocks
    /\ \E bad \in BOOLEAN :
          /\ IF bad THEN cmd.kind = "upgrade" /\ SpendRelease("bad") ELSE UNCHANGED releaseLeft
          /\ files' = [files EXCEPT ![cmd.file][cmd.at + 1] = [cmd.content EXCEPT !.ok = IF bad THEN FALSE ELSE @]]
          /\ process' = [process EXCEPT ![c].at = @ + 1, ![c].good = @ /\ ~bad]
    /\ UNCHANGED <<site, machine, names>>

(* Mutant: the file that was written is taken as it came.                  *)
MatchesAlways(cmd) == TRUE

(* The sum is of what was downloaded.                                      *)
Matches(cmd) == cmd.good

(* replaceExecutable, writeBundle: the staged name becomes the target's.   *)
(* Windows moves the running file out of the way first.                    *)
Replace(c) ==
    LET cmd == process[c] IN
    /\ At(c, "write") /\ cmd.at = Blocks
    /\ CASE ~Matches(cmd) -> Fail(c)
         [] Matches(cmd) /\ cmd.kind = "upgrade" /\ machine.windows ->
              /\ names' = [names EXCEPT !.old = names.exe, !.exe = 0]
              /\ To(c, "aside") /\ UNCHANGED <<site, machine, files, releaseLeft>>
         [] OTHER ->
              LET name == Staging(cmd.kind) IN
              IF names[name] = 0 THEN Fail(c)
              ELSE /\ names' = [names EXCEPT ![name] = 0, ![Target(cmd.kind)] = names[name]]
                   /\ To(c, "renamed") /\ UNCHANGED <<site, machine, files, releaseLeft>>

(* The second rename, and back where it fails.                             *)
MoveIn(c) ==
    /\ At(c, "aside")
    /\ \/ /\ names.staged # 0
          /\ names' = [names EXCEPT !.exe = names.staged, !.staged = 0]
          /\ To(c, "renamed")
       \/ /\ names' = [names EXCEPT !.exe = names.old, !.old = 0]
          /\ To(c, "failed")
    /\ UNCHANGED <<site, machine, files, releaseLeft>>

(* The deferred clean-up, which after the rename finds nothing of its own. *)
Finish(c) ==
    /\ process[c].phase \in {"renamed", "failed"}
    /\ names' = IF process[c].kind = "upgrade" THEN [names EXCEPT !.staged = 0] ELSE names
    /\ process' = [process EXCEPT ![c] = Idle]
    /\ UNCHANGED <<site, machine, files, releaseLeft>>

(* A request that fails, a bundle's file that does not match its checksum, *)
(* a docker command that fails, or an interrupt.                           *)
BreakOff(c) ==
    /\ process[c].phase \in {"open", "sums", "gather", "pack", "write"}
    /\ Fail(c)

(* The process is killed: nothing is cleaned up.                           *)
Kill(c) ==
    /\ process[c].phase # "idle" /\ SpendRelease("kills")
    /\ process' = [process EXCEPT ![c] = Idle]
    /\ UNCHANGED <<site, machine, files, names>>

ReleaseNext ==
    \E c \in Commands :
        \/ \E kind \in {"upgrade", "bundle"}, tag \in Releases, pinned, pull \in BOOLEAN :
              (kind = "upgrade" => pull) /\ Start(c, kind, tag, pinned, pull)
        \/ OpenStaged(c) \/ FetchSums(c) \/ Gather(c) \/ OpenPartial(c) \/ WriteBlock(c)
        \/ Replace(c) \/ MoveIn(c) \/ Finish(c) \/ BreakOff(c) \/ Kill(c)

ReleaseSpec == ReleaseInit /\ [][ReleaseNext]_releaseVars

-----------------------------------------------------------------------------
(* Properties.                                                             *)

(* What stands at the binary's name is at every moment a whole build of    *)
(* one release that its checksums list and, where cosign is installed,     *)
(* its workflow signed, whatever breaks off and whoever is killed; on      *)
(* Windows the build before it may stand aside (replaceBinary: "Nothing    *)
(* about the old binary changes until the new one is verified").           *)
AlwaysRunnable ==
    LET Runs(i) == /\ i # 0 /\ Whole(files[i]) /\ files[i][1].ok
                   /\ LET tag == files[i][1].tag IN
                      \/ tag = machine.version \/ ~machine.cosign
                      \/ site.rel[tag].signature = "own"
                      \/ site.rel[tag].signature = "none" /\ Before(tag, FirstSigned)
    IN Runs(names.exe) \/ (machine.windows /\ names.exe = 0 /\ Runs(names.old))

(* A file with the bundle's name is a whole bundle, and one that carries   *)
(* the digests makes a Docker of either image store load the release's     *)
(* image and nothing else under its tag: complete, with the published      *)
(* configuration (writeBundle, savedImages.verify).                        *)
BundleLoads ==
    names.out # 0 =>
        /\ Whole(files[names.out])
        /\ LET b == files[names.out][1]
               a == ImageArchives[b.what]
               unpacked == Range(DiffIDs[Own.config]) \subseteq a.has
           IN b.ok =>
                /\ \A k \in a.manifestJson : k = Own.config /\ (unpacked \/ served(a))
                /\ \A d \in a.indexJson :
                      LET m == IF d = Own.index THEN Own.manifest ELSE d IN
                      m \in a.has /\ ManifestConfig[m] = Own.config /\ Range(ManifestLayers[m]) \subseteq a.has

(* Nothing that was not verified ends up where it is run from or loaded    *)
(* from (replaceBinary, writeBundle).                                      *)
NothingUnverified == AlwaysRunnable /\ BundleLoads
=============================================================================
