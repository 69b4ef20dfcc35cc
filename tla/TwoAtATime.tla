------------------------------ MODULE TwoAtATime ------------------------------
(***************************************************************************)
(* Every component with two requests at a time, and failures and crashes   *)
(* where it has them: what holds however their statements interleave.  A   *)
(* behaviour exercises one component, its part, as in OneAtATime.  The     *)
(* friendships are this module's own; the others are instances.            *)
(***************************************************************************)
EXTENDS Friendship, Integers, Sequences

CONSTANTS
  Chapters, Texts, Blank, Cron, Limit, LastTime,          \* Storytime
  Appeals, Reports,
  People, Owner, Guests, Sagas, AuthorOf, ArcOffers,      \* its Arcs
  Crewmates, CrewFlags,                                   \* and collaborators
  Absent, Job, Sections, Tabs, Fields, Options, Parent,   \* custom tracking
  PictureFields, Images, MaxDay, Retention, PurgeBatch, CleanupBatch, MaxRefusals,
  Instances, Values, Default, LastTick, TTL,              \* the switches
  Notices, Suppressing, Addressee,                        \* mail
  Uploads, MaxLeft,                                       \* picture slots
  Parts                                                   \* the parts a run exercises

VARIABLES
  part,
  chapter, story, now, feed, storyReq, storyHist,
  content, appeal, report, trail, table, upheld,
  invitation, membership, arc, desk, consent,
  collaborator, hand, voiced,
  deletedAt, image, chosen, queue, stored, slots, day, refusals, member,
  setting, cache, clock, calls, lastHeld,
  event, post, answered,
  owner, slot, cloud, change

\* With one handler, or one run of the job, at a time: two break the count and the
\* schedule, as MCStorytime shows.
Publication == INSTANCE StorySerial WITH
  req <- storyReq, hist <- storyHist, MaxTime <- LastTime,
  Handlers <- {"CreateChapter", "DeleteChapter", "PublishChapter", "UnpublishChapter",
               "ScheduleChapter", "ModerateChapter", "SetCoverImage", "ModerateStory", "Fail",
               "ReopenFails", "FeedFails"}

Review == INSTANCE StorytimeReview

Arcs == INSTANCE StorytimeArcs WITH
  Members <- People, Curator <- Owner, Collaborators <- Guests,
  Stories <- Sagas, Author <- AuthorOf, Offers <- ArcOffers

Crew == INSTANCE StorytimeCrew WITH Collaborators <- Crewmates, Asked <- CrewFlags

\* Requests meet on the picture Fields, which a save may clear as it may a choice.
Tracking == INSTANCE CustomTracking WITH
  Pictures <- Images, Clearable <- Fields, Contended <- PictureFields

Settings == INSTANCE SiteSettings WITH MaxTime <- LastTick

\* Every mail has one recipient (mail.service.ts), and so has every notice.
Mail == INSTANCE MailEvents WITH Recipients <- [n \in Notices |-> <<Addressee[n]>>]

\* One request at a time: a row loaded before a picture was replaced and saved
\* after it points at the old one again.
Slots == INSTANCE PictureSlots WITH Pictures <- Uploads

\* null is none of the rows, keys and addresses.
ASSUME NullAssumption ==
  /\ None \notin Appeals \cup Reports \cup Review!AppealStatus
  /\ None \notin Arcs!InvitationRow \cup Arcs!MembershipRow \cup Crew!CollaboratorRow
  /\ None \notin Settings!Entry \cup Notices \cup {Addressee[n] : n \in Notices}
  /\ None \notin Images \cup Uploads

\* The Chapters of a Story, as StorytimePublication has it.
ASSUME PublicationAssumption ==
  /\ IsFiniteSet(Chapters) /\ Blank \in Texts
  /\ LastTime \in Nat /\ Limit \in Nat /\ Cron \notin Requests
  /\ None \notin Chapters \cup Texts \cup (1..LastTime)
               \cup Publication!ChapterRow \cup Publication!StoryRow

\* SETTING_CACHE_TTL_MS.
ASSUME TimeAssumption == TTL \in Nat /\ LastTick \in Nat

ASSUME FiniteAssumption == IsFiniteSet(PictureFields)

\* What a request may offer or ask for.
ASSUME OffersAssumption ==
  ArcOffers \subseteq SUBSET Arcs!Capabilities /\ CrewFlags \subseteq SUBSET Crew!Flags

publication == <<chapter, story, now, feed, storyReq, storyHist>>
review      == <<content, appeal, report, trail, table, upheld>>
arcs        == <<invitation, membership, arc, desk, consent>>
crew        == <<collaborator, hand, voiced>>
tracking    == <<deletedAt, image, chosen, queue, stored, slots, day, refusals, member>>
settings    == <<setting, cache, clock, calls, lastHeld>>
mail        == <<event, post, answered>>
pictures    == <<owner, slot, cloud, change>>
everything == <<part, vars, publication, review, arcs, crew, tracking, settings, mail,
                pictures>>

InitAll ==
  /\ part \in Parts
  /\ Init /\ Publication!Init /\ Review!Init /\ Arcs!Init /\ Crew!Init
  /\ Tracking!Quiet /\ deletedAt = [n \in Tracking!Nodes |-> None]
  /\ Settings!Init /\ Mail!Init /\ Slots!Init
  /\ part # "settings" => setting = Default
  /\ part # "pictures" => owner = "story"

NextOfPart ==
  /\ UNCHANGED part
  /\ IF part = "friendships" THEN Next              ELSE UNCHANGED vars
  /\ IF part = "publication" THEN Publication!Serial ELSE UNCHANGED publication
  /\ IF part = "review"      THEN Review!Next      ELSE UNCHANGED review
  /\ IF part = "arcs"        THEN Arcs!Next        ELSE UNCHANGED arcs
  /\ IF part = "crew"        THEN Crew!Next        ELSE UNCHANGED crew
  /\ IF part = "tracking"    THEN Tracking!Next    ELSE UNCHANGED tracking
  /\ IF part = "settings"    THEN Settings!Next    ELSE UNCHANGED settings
  /\ IF part = "mail"        THEN Mail!Next        ELSE UNCHANGED mail
  /\ IF part = "pictures"    THEN Slots!Next       ELSE UNCHANGED pictures

SpecAll == InitAll /\ [][NextOfPart]_everything

TypesOK ==
  /\ TypeOK /\ Publication!TypeOK /\ Review!TypeOK /\ Arcs!TypeOK /\ Crew!TypeOK
  /\ Tracking!TypeOK /\ Settings!TypeOK /\ Mail!TypeOK

--------------------------------------------------------------------------------
(* Properties, stated where the components are.                            *)

\* Publishing and withdrawing leave the exact count of readable Chapters.
CountFollows == Publication!CountFollows

\* A Chapter waits for the job exactly when it has a time to wait for.
ScheduleConsistent == Publication!ScheduleConsistent

\* An appeal that was answered is never put back to be answered again.
AnsweredForGood == Review!AnsweredForGood

\* Nobody works on an Arc who never accepted an invitation to it.
AccessAgreed == Arcs!AccessAgreed
\* No Story is in an Arc unless both sides agreed.
JoinedByBoth == Arcs!JoinedByBoth

\* Nobody works on a Story but by consent, with what they were offered.
WorksByConsent == Crew!WorksByConsent

\* What an answer, or any other row with a picture, points at is in the image store
\* and stays there.
NoBrokenPicture == Tracking!NoBrokenPicture /\ Slots!PicturesStand
\* Only pictures recorded as finished with are deleted.
DeletesOnlyQueued == Tracking!DeletesOnlyQueued

\* A changed switch reaches every instance in time.
ReachesEveryInstance == Settings!ReachesEveryInstance
\* Once SNS has its answer the address is suppressed, until the clean-up takes
\* the record after its retention.
AnsweredIsSuppressed == Mail!AnsweredIsSuppressed
================================================================================
