----------------------------- MODULE PictureSlots ------------------------------
(***************************************************************************)
(* Setting and clearing a picture: the artwork of Stories, Arcs, Chapters, *)
(* Characters and Spotlight entries (through ImageSlotService), the picture *)
(* of a Captain and that of a profile.  The picture is stored with a       *)
(* service outside the database, the row is saved, and the picture that was *)
(* there before is deleted last.  Any of the three may fail, and the        *)
(* process may stop between them.                                          *)
(***************************************************************************)
EXTENDS Naturals, FiniteSets

CONSTANTS
  None,
  Pictures,      \* identifiers; an upload gets one that is not in use
  MaxLeft        \* bound on the pictures left behind that nothing points at

\* The kinds of row whose pictures ImageSlotService looks after.
Artwork == {"story", "arc", "chapter", "character", "spotlight"}
Kinds == Artwork \cup {"captain", "profile"}

VARIABLES
  owner,    \* the kind of row
  slot,     \* [picture, described] of the row
  cloud,    \* the pictures stored
  change    \* the request: where it is, the slot as it found it, and as it would leave it

vars == <<owner, slot, cloud, change>>

Empty == [picture |-> None, described |-> FALSE]
Idle  == [at |-> "idle", found |-> Empty, asked |-> Empty]

Begin(at) ==
  /\ change.at \notin {"store", "save", "release"}
  /\ change' = [at |-> at, found |-> slot, asked |-> Empty]
  /\ UNCHANGED <<owner, slot, cloud>>

\* Every handler loads its row and goes through the same steps from there.
SetStoryImage      == owner = "story"     /\ Begin("store")
SetArcImage        == owner = "arc"       /\ Begin("store")
SetCoverImage      == owner = "chapter"   /\ Begin("store")
SetPortraitImage   == owner = "character" /\ Begin("store")
SetOverrideImage   == owner = "spotlight" /\ Begin("store")
UploadProfileImage == owner = "captain"   /\ Begin("store")
UploadProfilePicture == owner = "profile" /\ Begin("store")

\* The description goes with the picture.  Captains and profiles have no such handler.
ClearStoryImage    == owner = "story"     /\ Begin("save")
ClearArcImage      == owner = "arc"       /\ Begin("save")
ClearCoverImage    == owner = "chapter"   /\ Begin("save")
ClearPortraitImage == owner = "character" /\ Begin("save")
ClearOverrideImage == owner = "spotlight" /\ Begin("save")

\* A file that is refused, or does not arrive, changes nothing.
Store ==
  /\ change.at = "store"
  /\ \/ /\ change' = [change EXCEPT !.at = "failed"] /\ UNCHANGED cloud
     \/ \E p \in Pictures \ (cloud \cup {slot.picture}) :
          /\ cloud' = cloud \cup {p}
          /\ change' = [change EXCEPT !.at = "save",
                          !.asked = [picture |-> p, described |-> owner \in Artwork]]
  /\ UNCHANGED <<owner, slot>>

\* Mutant of Save: what was there before is deleted on the way.
SaveReleasing ==
  /\ change.at = "save"
  /\ cloud' = cloud \ {change.found.picture}
  /\ \/ /\ change' = [change EXCEPT !.at = "failed"] /\ UNCHANGED slot
     \/ /\ slot' = change.asked
        /\ change' = [change EXCEPT !.at = "release"]
  /\ UNCHANGED owner

Save ==
  /\ change.at = "save"
  /\ \/ /\ change' = [change EXCEPT !.at = "failed"] /\ UNCHANGED slot
     \/ /\ slot' = change.asked
        /\ change' = [change EXCEPT !.at = "release"]
  /\ UNCHANGED <<owner, cloud>>

\* A deletion that fails is logged and forgotten; the one of a profile's picture
\* fails the request.
Release ==
  /\ change.at = "release"
  /\ \/ /\ cloud' = cloud \ {change.found.picture}
        /\ change' = [change EXCEPT !.at = "done"]
     \/ /\ change.found.picture # None
        /\ change' = [change EXCEPT !.at = IF owner = "profile" THEN "failed" ELSE "done"]
        /\ UNCHANGED cloud
  /\ UNCHANGED <<owner, slot>>

\* The process stops; nobody is answered.
Stop ==
  /\ change.at \in {"store", "save", "release"}
  /\ change' = Idle
  /\ UNCHANGED <<owner, slot, cloud>>

Left == cloud \ {slot.picture, change.found.picture, change.asked.picture}

Init ==
  /\ owner \in Kinds
  /\ slot = Empty /\ cloud = {} /\ change = Idle

Operation ==
  \/ SetStoryImage \/ SetArcImage \/ SetCoverImage \/ SetPortraitImage \/ SetOverrideImage
  \/ UploadProfileImage \/ UploadProfilePicture
  \/ ClearStoryImage \/ ClearArcImage \/ ClearCoverImage \/ ClearPortraitImage
  \/ ClearOverrideImage
  \/ Store \/ Save \/ Release \/ Stop

Next == Operation /\ Cardinality(Left') <= MaxLeft

Spec == Init /\ [][Next]_vars

--------------------------------------------------------------------------------
(* Properties.                                                              *)

\* Wherever a request fails or the process stops, no row points at a picture that
\* is gone and no description outlives its picture; whoever is answered that it is
\* done sees what they asked for, and whoever is told it failed what was there
\* before.  Deleting the picture of a profile is the exception: its failure is
\* answered as that of the change, which stands.
PicturesStand ==
  /\ slot.picture = None \/ slot.picture \in cloud
  /\ slot.described => slot.picture # None
  /\ change.at = "done" => slot = change.asked
  /\ change.at = "failed" /\ owner # "profile" => slot = change.found
================================================================================
