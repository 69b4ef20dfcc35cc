--------------------------- MODULE StorytimeReaders ----------------------------
(***************************************************************************)
(* Every place where a reader is offered a Story, its Chapter, its         *)
(* Character or its Arc, and what the page answers that the offer leads    *)
(* to: the listings, the search (StorytimeSearchService) with the index    *)
(* the database's triggers keep, and the pages that name each other.  The  *)
(* works and what becomes of them are those of StorytimeFeed.              *)
(***************************************************************************)
EXTENDS Naturals, FiniteSets

CONSTANTS
  MaxHidden,  \* bound on what is kept from readers at a time
  Words       \* what a title, or the name of a tag, may be

VARIABLES
  follows, items, story, chapter, arc, membership,   \* as in StorytimeFeed
  recommended,  \* which of the Story and the Arc is on a member's public reading list
  person,     \* the Character: ACTIVE, REMOVED or DELETED
  cast,       \* whether an appearance of it in the Chapter is stored
  title,      \* of the Story
  tag,        \* [state, name]: NONE, LIVE, or DELETED
  tagged,     \* whether the Story carries the tag
  vector      \* searchVector of the Story: the words it is found by

Works == INSTANCE StorytimeFeed WITH MaxFollows <- 0, MaxItems <- 0

works == <<follows, items, story, chapter, arc, membership>>
vars == <<works, recommended, person, cast, title, tag, tagged, vector>>

\* The trigger's expression: the row's text and the names of the tags linked to it,
\* whether or not they were deleted.
Indexed(words, link, name) == {words} \cup (IF link THEN {name} ELSE {})

--------------------------------------------------------------------------------
(* The handlers.                                                            *)

\* Publication, withdrawal, moderation and membership.  Writing the Story's row
\* indexes it, and it may also be written for one of its counts.
ChangeWorks ==
  /\ Works!Next
  /\ LET now == Indexed(title, tagged, tag.name)
     IN vector' \in IF story' # story THEN {now} ELSE {vector, now}
  /\ UNCHANGED <<recommended, person, cast, title, tag, tagged>>

Retitle(w) ==
  /\ title' = w /\ vector' = Indexed(w, tagged, tag.name)
  /\ UNCHANGED <<works, recommended, person, cast, tag, tagged>>

CreateTag(w) ==
  /\ tag.state = "NONE" /\ tag' = [state |-> "LIVE", name |-> w]
  /\ UNCHANGED <<works, recommended, person, cast, title, tagged, vector>>

UpdateTag(w) ==
  /\ tag.state = "LIVE" /\ tag' = [tag EXCEPT !.name = w]
  /\ UNCHANGED <<works, recommended, person, cast, title, tagged, vector>>

\* Soft-deleted, so that no link to it goes and no trigger fires.
RemoveTag ==
  /\ tag.state = "LIVE" /\ tag' = [tag EXCEPT !.state = "DELETED"]
  /\ UNCHANGED <<works, recommended, person, cast, title, tagged, vector>>

\* The links are deleted and those wanted inserted; each fires the trigger.
SetTags(wanted) ==
  /\ wanted => tag.state = "LIVE"
  /\ tagged' = wanted
  /\ vector' = IF tagged \/ wanted THEN Indexed(title, wanted, tag.name) ELSE vector
  /\ UNCHANGED <<works, recommended, person, cast, title, tag>>

\* assertSameStory finds no Character that was deleted.
SetAppearances(appears) ==
  /\ appears => person # "DELETED"
  /\ cast' = appears
  /\ UNCHANGED <<works, recommended, person, title, tag, tagged, vector>>

\* Its appearances stay.
RemoveCharacter ==
  /\ person # "DELETED" /\ person' = "DELETED"
  /\ UNCHANGED <<works, recommended, cast, title, tag, tagged, vector>>

ModerateCharacter ==
  /\ person # "DELETED" /\ person' \in {"ACTIVE", "REMOVED"} \ {person}
  /\ UNCHANGED <<works, recommended, cast, title, tag, tagged, vector>>

\* StorytimeReadingListService.addItem: assertReadable, by which the pages open too.
Recommend(target) ==
  /\ IF target = "story" THEN Works!StoryOpens ELSE Works!ArcOpens
  /\ recommended' = recommended \cup {target}
  /\ UNCHANGED <<works, person, cast, title, tag, tagged, vector>>

\* removeItem; a list its owner makes private is as one that was emptied.
Withdraw(target) ==
  /\ recommended' = recommended \ {target}
  /\ UNCHANGED <<works, person, cast, title, tag, tagged, vector>>

--------------------------------------------------------------------------------
(* What a page answers: OK, GONE (taken down by an administrator) or NONE.  *)

\* StorytimeStoryService.findPublicBySlug.
StoryPage ==
  CASE Works!StoryOpens -> "OK"
    [] Works!Published(story) /\ story.visibility # "PRIVATE" /\ ~Works!Active(story) -> "GONE"
    [] OTHER -> "NONE"

ChapterPage ==
  IF StoryPage # "OK" THEN StoryPage
  ELSE CASE Works!Published(chapter) /\ ~Works!Active(chapter) -> "GONE"
         [] Works!Published(chapter) /\ Works!Active(chapter) -> "OK"
         [] OTHER -> "NONE"

CharacterPage ==
  IF StoryPage # "OK" THEN StoryPage
  ELSE CASE person = "REMOVED" -> "GONE"
         [] person = "ACTIVE" -> "OK"
         [] OTHER -> "NONE"

\* An Arc that was unlisted is not announced as removed, as a Story is.
ArcPage ==
  CASE Works!ArcOpens -> "OK"
    [] Works!Published(arc) /\ arc.visibility = "PUBLIC" /\ ~Works!Active(arc) -> "GONE"
    [] OTHER -> "NONE"

Page == [story |-> StoryPage, chapter |-> ChapterPage, character |-> CharacterPage, arc |-> ArcPage]

--------------------------------------------------------------------------------
(* Where readers are offered something: sets of what is offered.            *)

If(holds, offer) == IF holds THEN {offer} ELSE {}

\* findPublicPaginated, for the listing and for a creator's page.
StoryListing ==
  If(Works!Published(story) /\ story.visibility = "PUBLIC" /\ Works!Active(story), "story")

\* discoverableArcConditions.
Discoverable == Works!Published(arc) /\ arc.visibility = "PUBLIC" /\ Works!Active(arc)
ArcListing == If(Discoverable, "arc")

\* The Arcs named on the page of the Story, and in its listing.
StoryArcs == If(membership = "APPROVED" /\ Discoverable, "arc")

\* findPublicByStory, behind the Story's page; the same list gives a Chapter its
\* neighbours.
ReadableChapters == If(Works!Published(chapter) /\ Works!Active(chapter), "chapter")
StoryChapters == IF StoryPage = "OK" THEN ReadableChapters ELSE {}
StoryCast == If(StoryPage = "OK" /\ person = "ACTIVE", "character")
AppearsIn == IF CharacterPage = "OK" /\ cast THEN ReadableChapters ELSE {}

\* The Stories of an Arc, on its page.
ArcStories == If(ArcPage = "OK" /\ membership = "APPROVED" /\ Works!StoryOpens, "story")

\* The Story is found by its words; a Chapter and a Character by their own, which
\* are left out here, below a Story that is listed.
Search(word) ==
  If(StoryListing # {} /\ word \in vector, "story")
    \cup If(StoryListing # {} /\ ReadableChapters # {}, "chapter")
    \cup If(StoryListing # {} /\ person = "ACTIVE", "character")
    \cup ArcListing

\* findEntries of a member's public list.
ReadingList ==
  If("story" \in recommended /\ Works!StoryOpens, "story")
    \cup If("arc" \in recommended /\ Works!ArcOpens, "arc")

\* Listings, search, and the Arcs named with a Story.
Discovered == StoryListing \cup ArcListing \cup StoryArcs \cup UNION {Search(w) : w \in Words}

Offered ==
  Discovered \cup StoryChapters \cup StoryCast \cup AppearsIn \cup ArcStories \cup ReadingList

--------------------------------------------------------------------------------

Init ==
  /\ Works!Init /\ recommended = {}
  /\ person = "ACTIVE" /\ cast = FALSE
  /\ title = CHOOSE w \in Words : TRUE
  /\ tag = [state |-> "NONE", name |-> title] /\ tagged = FALSE
  /\ vector = {title}

Next ==
  \/ ChangeWorks
  \/ \E w \in Words : Retitle(w) \/ CreateTag(w) \/ UpdateTag(w)
  \/ \E b \in BOOLEAN : SetTags(b) \/ SetAppearances(b)
  \/ \E target \in {"story", "arc"} : Recommend(target) \/ Withdraw(target)
  \/ RemoveTag \/ RemoveCharacter \/ ModerateCharacter

Spec == Init /\ [][Next]_vars

--------------------------------------------------------------------------------
(* Properties.                                                              *)

\* Whatever was withdrawn, hidden, taken down or deleted under it, an offer leads to
\* a page that opens; no listing, search or Story's page names what is unlisted or
\* private (the page of an Arc and a reading list name what is unlisted); and the
\* search finds a Story by its title, and by nothing else once it carries no tag.
OffersOpen ==
  /\ \A target \in Offered : Page[target] = "OK"
  /\ {"story", "chapter", "character"} \cap Discovered # {} => story.visibility = "PUBLIC"
  /\ "arc" \in Discovered => arc.visibility = "PUBLIC"
  /\ title \in vector /\ (~tagged => vector = {title})
================================================================================
