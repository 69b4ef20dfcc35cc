----------------------------- MODULE StorytimeFeed -----------------------------
(***************************************************************************)
(* What one reader follows (StorytimeFollowService) and the feed made of   *)
(* it (StorytimeActivityFeedService): an author's Story with its Chapter,  *)
(* and a curator's Arc it may join.  An item names what happened and is    *)
(* never removed; what a reader sees of it is decided when the feed is     *)
(* read.  Two items of one kind by one member are taken as one, and a row  *)
(* that was deleted as one that is not published.                          *)
(***************************************************************************)
EXTENDS Naturals, FiniteSets

CONSTANTS
  MaxFollows,  \* bound on what the reader follows at a time
  MaxItems,    \* bound on the items
  MaxHidden    \* bound on what is kept from readers at a time

VARIABLES
  follows,     \* whom and what the reader follows
  items,       \* storytime_activity_feed_item
  story, chapter, arc,   \* [status, visibility, moderation]; a Chapter's visibility is PUBLIC
  membership   \* of the Story in the Arc

vars == <<follows, items, story, chapter, arc, membership>>

Targets == {"author", "curator", "story", "arc"}
Item(type, by) == [type |-> type, by |-> by]
OfArc == {"ARC_STORY_ADDED", "ARC_STORY_REMOVED"}

Active(work) == work.moderation = "ACTIVE"
Published(work) == work.status = "PUBLISHED"

\* isPubliclyReadable of the Story, the Chapter and the Arc, by which their pages
\* are served; a Chapter's page is below its Story's.
StoryOpens == Published(story) /\ story.visibility \in {"PUBLIC", "UNLISTED"} /\ Active(story)
ChapterOpens == StoryOpens /\ Published(chapter) /\ Active(chapter)
ArcOpens == Published(arc) /\ arc.visibility \in {"PUBLIC", "UNLISTED"} /\ Active(arc)

\* candidateConditions: the actor, the Story (every item names it) or the Arc.
Candidates ==
  {i \in items : \/ i.by \in follows \/ "story" \in follows
                 \/ "arc" \in follows /\ i.type \in OfArc}

\* findStories, findChapters and findArcs: what the reader is told of each.
StoryShown == Published(story) /\ story.visibility # "PRIVATE" /\ Active(story)
ChapterShown == Published(chapter) /\ Active(chapter)
ArcShown == arc.visibility # "PRIVATE" /\ Active(arc)

\* withVisibleContent and isReadable.
Feed == {i \in Candidates : StoryShown /\ (i.type = "CHAPTER_PUBLISHED" => ChapterShown)}

\* recordQuietly: a failure to record is swallowed.
Record(i) ==
  \/ UNCHANGED items
  \/ /\ Cardinality(items \cup {i}) <= MaxItems
     /\ items' = items \cup {i}

Follow(target) ==
  /\ Cardinality(follows \cup {target}) <= MaxFollows
  /\ follows' = follows \cup {target}
  /\ UNCHANGED <<items, story, chapter, arc, membership>>
Unfollow(target) ==
  follows' = follows \ {target} /\ UNCHANGED <<items, story, chapter, arc, membership>>

\* StorytimeStoryService.publish: only a publication is announced, not a repeat.
\* The count of Chapters it asks for may lag behind (StorytimePublication), so any
\* Chapter will do here.
PublishStory ==
  /\ Active(story)
  /\ story' = [story EXCEPT !.status = "PUBLISHED"]
  /\ IF Published(story) THEN UNCHANGED items ELSE Record(Item("STORY_PUBLISHED", "author"))
  /\ UNCHANGED <<follows, chapter, arc, membership>>

\* StorytimeChapterService.publish, by hand or by the job in the author's name.
PublishChapter ==
  /\ Active(chapter) /\ ~Published(chapter)
  /\ chapter' = [chapter EXCEPT !.status = "PUBLISHED"]
  /\ Record(Item("CHAPTER_PUBLISHED", "author"))
  /\ UNCHANGED <<follows, story, arc, membership>>

\* StorytimeArcService.publish: it is not announced.
PublishArc ==
  /\ membership = "APPROVED"
  /\ arc' = [arc EXCEPT !.status = "PUBLISHED"]
  /\ UNCHANGED <<follows, items, story, chapter, membership>>

\* Invited or offered, whatever state the Arc and the Story are in.
OpenMembership ==
  /\ membership \notin {"PENDING", "APPROVED"} /\ membership' = "PENDING"
  /\ UNCHANGED <<follows, items, story, chapter, arc>>

\* approve, by the side that was asked, or a start by somebody who is both sides;
\* then announceJoin.
Join(by) ==
  /\ membership # "APPROVED" /\ membership' = "APPROVED"
  /\ Record(Item("ARC_STORY_ADDED", by))
  /\ UNCHANGED <<follows, story, chapter, arc>>

Decline ==
  /\ membership = "PENDING" /\ membership' = "ENDED"
  /\ UNCHANGED <<follows, items, story, chapter, arc>>

\* leave, from any state of the membership.
Leave(by) ==
  /\ membership # "NONE" /\ membership' = "ENDED"
  /\ Record(Item("ARC_STORY_REMOVED", by))
  /\ UNCHANGED <<follows, story, chapter, arc>>

Hides(work) ==
  (IF Published(work) THEN 0 ELSE 1) + (IF work.visibility = "PUBLIC" THEN 0 ELSE 1)
    + (IF Active(work) THEN 0 ELSE 1)

\* Withdrawal, a change of visibility, removal and restoration of a work.
Changed(work) ==
  {[work EXCEPT !.moderation = m] : m \in {"ACTIVE", "REMOVED"}} \cup {[work EXCEPT !.status = "UNPUBLISHED"]}
Shown(work) == {[work EXCEPT !.visibility = v] : v \in {"PUBLIC", "UNLISTED", "PRIVATE"}}

ChangeWork ==
  /\ \/ story' \in Changed(story) \cup Shown(story) /\ UNCHANGED <<chapter, arc>>
     \/ chapter' \in Changed(chapter) /\ UNCHANGED <<story, arc>>
     \/ arc' \in Changed(arc) \cup Shown(arc) /\ UNCHANGED <<story, chapter>>
  /\ UNCHANGED <<follows, items, membership>>

Draft == [status |-> "UNPUBLISHED", visibility |-> "PUBLIC", moderation |-> "ACTIVE"]

\* A Story that is out, and an Arc that is not.
Init ==
  /\ follows = {} /\ items = {}
  /\ story = [Draft EXCEPT !.status = "PUBLISHED"] /\ chapter = story
  /\ arc = Draft /\ membership = "NONE"

Next ==
  /\ \/ \E t \in Targets : Follow(t) \/ Unfollow(t)
     \/ PublishStory \/ PublishChapter \/ PublishArc
     \/ OpenMembership \/ Decline \/ ChangeWork
     \/ \E by \in {"author", "curator"} : Join(by) \/ Leave(by)
  /\ Hides(story)' + Hides(chapter)' + Hides(arc)' <= MaxHidden

Spec == Init /\ [][Next]_vars

\* An item survives in the table and stops appearing the moment its Story or
\* Chapter can no longer be opened.
ShownCanBeOpened ==
  \A i \in Feed : StoryOpens /\ (i.type = "CHAPTER_PUBLISHED" => ChapterOpens)

\* The description of FeedEntry: an Arc is named only when the reader may see it.
NamedArcsOpen == ArcShown /\ (\E i \in Feed : i.type \in OfArc) => ArcOpens
================================================================================
