------------------------------ MODULE SendImage ------------------------------
(* An image built where the CLI runs is sent without the layers the server *)
(* has (cli/internal/commands/layers.go; agent: deploy/layers.go,          *)
(* localimages.go, docker/runtime_images.go, runtime_layers.go).  The      *)
(* answer is advice: images are removed meanwhile, answers are lost, a     *)
(* store may record an image it cannot unpack, and an archive may be one   *)
(* somebody saved by hand, under any tags and with any layers left out.    *)
(* An image is the sequence of its layers.                                 *)
EXTENDS Naturals, Sequences, FiniteSets

CONSTANTS OwnTag,       \* shipwick.local/<app>:<tag>, new with every build
          OtherTags,    \* tags that are not of the application
          Stocks,       \* what those may name at first: [OtherTags -> images]
          Built,        \* images that may be built
          Archives,     \* the tags of an archive that may be sent
          SendBudgets   \* bounds on what goes wrong

ASSUME SendAssumption ==
    /\ OwnTag \notin OtherTags
    /\ \A stock \in Stocks : DOMAIN stock = OtherTags
    /\ Archives \subseteq SUBSET (OtherTags \union {OwnTag})
    /\ SendBudgets \subseteq Nat

VARIABLES tags,      \* the daemon's tags; Nothing for one that does not exist
          unusable,  \* tags of images recorded without all of their layers
          sender,    \* the CLI's upload and the request it is in
          troubles,  \* how many faults and removals may still happen
          named,     \* history: what the other tags name if only removals happened
          astray     \* history: other tags an upload moved and no undo reached

sendVars == <<tags, unusable, sender, troubles, named, astray>>

Nothing == <<>>
Tags == OtherTags \union {OwnTag}
NewTag == [t \in {OwnTag} |-> Nothing]
Over(f, g) == [t \in DOMAIN f \union DOMAIN g |-> IF t \in DOMAIN f THEN f[t] ELSE g[t]]

Layers(image) == {image[k] : k \in DOMAIN image}

(* The CLI sends an image under the tag it made up, and asks first.        *)
SendInit ==
    /\ \E stock \in Stocks : tags = Over(stock, NewTag) /\ named = stock
    /\ unusable = {} /\ astray = {}
    /\ \E image \in Built :
          \/ sender = [pc |-> "asking", byHand |-> FALSE, image |-> image, refs |-> {OwnTag}, omit |-> {}, before |-> NewTag]
          \/ \E refs \in Archives, omit \in SUBSET Layers(image) :
                sender = [pc |-> "sending", byHand |-> TRUE, image |-> image, refs |-> refs, omit |-> omit, before |-> NewTag]
    /\ troubles \in SendBudgets

Trouble == troubles > 0 /\ troubles' = troubles - 1

-----------------------------------------------------------------------------
(* The question.                                                           *)

Here == {tags[t] : t \in Tags \ unusable}
Chain(image, k) == SubSeq(image, 1, k)
(* An image here starts with the same layers, up to and including the k-th.*)
HasChain(image, k) == \E other \in Here : Len(other) >= k /\ Chain(other, k) = Chain(image, k)

sharedLayers(image) ==
    LET shared == {k \in 0..Len(image) : HasChain(image, k)} IN
    IF shared = {} THEN 0 ELSE CHOOSE k \in shared : \A j \in shared : j <= k
MissingLayers(image) == SubSeq(image, sharedLayers(image) + 1, Len(image))

(* A layer that occurs twice stays if either occurrence is needed.         *)
omittable(image, missing) == Layers(image) \ Layers(missing)

sendMissingLayers ==
    /\ sender.pc = "asking"
    /\ \/ /\ sender' = [sender EXCEPT !.pc = "sending", !.omit = omittable(sender.image, MissingLayers(sender.image))]
          /\ UNCHANGED troubles
       \/ Trouble /\ sender' = [sender EXCEPT !.pc = "sending"]   \* no answer, or an archive laid out otherwise
    /\ UNCHANGED <<tags, unusable, named, astray>>

-----------------------------------------------------------------------------
(* The upload.                                                             *)

(* The daemon opens no file of a layer it has, and needs the others.       *)
Loadable(image, omit) == \A k \in DOMAIN image : image[k] \notin omit \/ HasChain(image, k)

Retag(refs, image) == [t \in Tags |-> IF t \in refs THEN image ELSE tags[t]]
Foreign == sender.refs \intersect OtherTags

(* The CLI sends the reduced archive first, after any error the whole one. *)
Fails == [sender EXCEPT !.pc = IF sender.byHand \/ sender.omit = {} THEN "failed" ELSE "sending", !.omit = {}]

(* LoadImage reads what each tag names before it loads.                    *)
ListImages ==
    /\ sender.pc = "sending"
    /\ sender' = [sender EXCEPT !.pc = "loading", !.before = tags]
    /\ UNCHANGED <<tags, unusable, troubles, named, astray>>

(* Of an image it cannot complete the classic store records nothing, the   *)
(* other one records it all the same and says so.                          *)
LoadImage ==
    /\ sender.pc = "loading"
    /\ IF Loadable(sender.image, sender.omit)
       THEN /\ tags' = Retag(sender.refs, sender.image) /\ unusable' = unusable \ sender.refs
            /\ sender' = [sender EXCEPT !.pc = "checking"]
       ELSE \/ sender' = Fails /\ UNCHANGED <<tags, unusable>>
            \/ /\ tags' = Retag(sender.refs, sender.image) /\ unusable' = unusable \union sender.refs
               /\ sender' = [sender EXCEPT !.pc = "unpacked"]
    /\ UNCHANGED <<troubles, named, astray>>

(* The daemon's answer ends early or in an error, after some of the tags   *)
(* were moved: nothing is undone.                                          *)
LoadBreaks ==
    /\ sender.pc = "loading" /\ Loadable(sender.image, sender.omit) /\ Trouble
    /\ \E moved \in SUBSET sender.refs :
          /\ tags' = Retag(moved, sender.image) /\ unusable' = unusable \ moved
          /\ astray' = astray \union (moved \intersect OtherTags)
    /\ sender' = Fails
    /\ UNCHANGED named

(* loadedImages finds the line that says so, and discardUnpacked untags    *)
(* what arrived as far as it gets; nothing else is undone.                 *)
DiscardUnpacked ==
    /\ sender.pc = "unpacked"
    /\ \E gone \in SUBSET sender.refs : tags' = Retag(gone, Nothing) /\ unusable' = unusable \ gone
    /\ astray' = astray \union Foreign
    /\ sender' = Fails
    /\ UNCHANGED <<named, troubles>>

(* Mutant: what arrived is untagged, whatever the tag named before.        *)
undoneUntag(t) == Nothing

(* undoLoad points a tag back at the image it named; a new one goes.       *)
undone(t) == sender.before[t]

(* An archive carries one image under a tag of the application, or what it *)
(* brought is taken out again, which may fail for some of its tags.  The   *)
(* answer may be lost.                                                     *)
CheckLoaded ==
    /\ sender.pc = "checking"
    /\ IF sender.refs = {OwnTag}
       THEN /\ \/ sender' = [sender EXCEPT !.pc = "loaded"] /\ UNCHANGED troubles
               \/ sender' = Fails /\ Trouble
            /\ UNCHANGED <<tags, unusable, astray>>
       ELSE \E stuck \in SUBSET Foreign :
              /\ IF stuck = {} THEN UNCHANGED troubles ELSE Trouble
              /\ tags' = [t \in Tags |-> IF t \in sender.refs \ stuck THEN undone(t) ELSE tags[t]]
              /\ unusable' = unusable \ sender.refs
              /\ astray' = astray \union stuck
              /\ sender' = [sender EXCEPT !.pc = "failed"]
    /\ UNCHANGED named

(* The connection breaks, or the daemon does not list its images.          *)
SendFails ==
    /\ sender.pc \in {"sending", "loading"} /\ Trouble
    /\ sender' = Fails
    /\ UNCHANGED <<tags, unusable, named, astray>>

(* A sweep removes an image at any time; what one removes while an upload  *)
(* is under way the upload's undo may bring back.                          *)
RemoveImage(t) ==
    /\ t \in OtherTags /\ tags[t] # Nothing /\ Trouble
    /\ tags' = [tags EXCEPT ![t] = Nothing] /\ named' = [named EXCEPT ![t] = Nothing]
    /\ unusable' = unusable \ {t}
    /\ astray' = IF sender.pc \in {"loading", "checking"} THEN astray \union (Foreign \intersect {t}) ELSE astray
    /\ UNCHANGED sender

SendNext ==
    \/ sendMissingLayers \/ ListImages \/ LoadImage \/ LoadBreaks \/ DiscardUnpacked \/ CheckLoaded \/ SendFails
    \/ \E t \in OtherTags : RemoveImage(t)

SendSpec == SendInit /\ [][SendNext]_sendVars

-----------------------------------------------------------------------------
(* Properties.                                                             *)

(* What the CLI is told was loaded can be started: all of its layers are   *)
(* there, whatever was left out of the archive and removed between the     *)
(* question and the upload ("nothing half-loaded", deploy/layers.go).      *)
LoadedIsWhole == sender.pc = "loaded" => tags[OwnTag] = sender.image /\ OwnTag \notin unusable

(* A refused archive leaves the tags it does not own as it found them      *)
(* (undoLoad).  It does not where the undo is not reached or fails: after  *)
(* a load that ends in an error once tags were moved, an incomplete image  *)
(* the store recorded, a tag that cannot be put back.                      *)
OthersKeepTheirs ==
    sender.pc \in {"loaded", "failed"} => \A t \in OtherTags \ astray : tags[t] = named[t]

(* An image that was sent can be started, and what undoLoad is asked to    *)
(* put back it does (LoadImage, undoLoad).                                 *)
SentSafely == LoadedIsWhole /\ OthersKeepTheirs
=============================================================================
