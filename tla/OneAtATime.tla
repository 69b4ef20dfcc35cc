------------------------------ MODULE OneAtATime ------------------------------
(***************************************************************************)
(* Every component with one handler, or one run of its job, at a time: what *)
(* the code promises when no requests meet, as refinements of the abstract *)
(* specifications, as invariants, and as liveness.  But for the works of   *)
(* feed and readers the components share no row, so a behaviour exercises  *)
(* one of them, its part, and the others are left as they start.           *)
(***************************************************************************)
EXTENDS Integers, FiniteSets

CONSTANTS
  None, Requests,
  Tokens, Mails, Passwords, p1, t1,             \* accounts
  Members, Rows, Blocks,                        \* friendships
  Chapters, Appeals, Reports, Comments,         \* Storytime
  Complaints,                                   \* reports of members
  Absent, Job,                                  \* custom tracking
  Sections, Tabs, Fields, FieldOptions, Parent, PictureFields, Clearable, Images, MaxDay, Retention,
  PurgeBatch, CleanupBatch, MaxRefusals, Switchable, MaxWording, MaxShut,
  Refused, Cleared, Options,
  Numbers, Hundred, MaxText, MaxComponent, RatingMaxima, Palette,
  Grants, Permissions, Limits, Roles,           \* what a member may do
  Assignable, Admin, OfRole, Configured, Maxima, Counts, LastTime,
  Items,                                        \* what has an order or an address, or is on a list
  Collections, MaxPlace, MaxListed, MaxIndex,
  Stems, MaxAttempts,
  Entries, Featured, LastDate,                  \* the Spotlight
  Words, MaxFollows, MaxItems, MaxHidden,       \* the feed, and what readers are offered
  Achievements, Allegiances, MaxRows,           \* what a Captain may achieve
  Parts                                         \* the parts a run exercises

VARIABLES
  part,
  user, rt, expired, issued, held, authReq, authHist,
  row, block, friendReq, friendHist,
  content, appeal, report, trail, table, upheld,
  readable, removed, level, progress, restored,
  vote, counts, comment, voting, policed,
  list, index, shelf, lost,
  deletedAt, image, chosen, queue, stored, slots, day, refusals, member,
  field, withdrawn, answer, upToDate,
  complaint, disabled, desk, takenUp,
  kind, place, joined, asked,
  targetType, slug, retired, known,
  role, blocked, override, clock, decision,
  scope, standing, profile, sto, captain, enabled, typesOff, wording, accepted,
  branch, answered, meant,
  account, character, gate,
  entry, work, date,
  follows, items, story, chapter, arc, membership,
  recommended, person, cast, title, tag, tagged, vector,
  sheet, roster, gone, nodes,
  allegiance, score, slot, recorded, slotted

Accounts == INSTANCE AuthSerial WITH
  req <- authReq, hist <- authHist,
  InitialPassword <- p1, InitialSessions <- {t1},
  Handlers <- {"login", "refresh", "logout", "requestReset", "reset", "verify",
               "resend", "disable", "enable", "close", "purge"}

Friendships == INSTANCE FriendSerial WITH req <- friendReq, hist <- friendHist

Review == INSTANCE StorytimeReview

Reading == INSTANCE StorytimeReading

Social == INSTANCE StorytimeSocial WITH Voters <- Members

Lists == INSTANCE StorytimeReadingLists WITH Works <- Items, MaxItems <- MaxListed

\* No save clears a picture: MCTracking shows what happens then.
Tracking == INSTANCE TrackingSerial WITH
  Options <- FieldOptions, Pictures <- Images,
  Contended <- Sections \cup Tabs \cup Fields \cup FieldOptions

Answers == INSTANCE FieldAnswers

MembersReported == INSTANCE MemberReports WITH review <- desk, Reporters <- Members

Order == INSTANCE StorytimeOrder WITH Kinds <- Collections

Addresses == INSTANCE StorytimeAddresses

Access == INSTANCE AccessControl WITH
  now <- clock, Rows <- Grants, Values <- Maxima, MaxTime <- LastTime

\* The same definitions as a visitor sees them.
Visibility == INSTANCE TrackingVisibility WITH level <- branch

Registry == INSTANCE StoRegistry WITH
  Handles <- {"x", "y"} \X {FALSE} \cup {<<"x", TRUE>>}, Names <- {"n"} \X BOOLEAN,
  MaxAccounts <- 2, MaxCaptains <- 2, MaxHidden <- 1

Spotlight == INSTANCE StorytimeSpotlight WITH Works <- Featured, MaxDate <- LastDate

Feed == INSTANCE StorytimeFeed

\* What readers are offered of the same works.
Readers == INSTANCE StorytimeReaders

\* Two of the perks share their name, as perks of two categories may.
Statistics == INSTANCE StoStatistics WITH
  StoAccounts <- {"x", "y"}, Captains <- {"k", "l"}, MaxNodes <- 1,
  Catalogue <- [name : {"n"}, category : {"Space", "Ground"}] \cup [name : {"m"}, category : {"Space"}],
  Data <- [level : {0, 2}, faction : {"f"}] \cup [level : {None}, faction : {None}],
  Tiers <- {<<1, 1>>, <<2, 3>>}, Factions <- {"f"}, MaxRows <- 2

Trackers == INSTANCE CaptainTrackers WITH Catalogue <- Achievements

--------------------------------------------------------------------------------
\* There is one handler's slot: what happens when handlers meet is the subject of
\* the other runs.
ASSUME SlotAssumption == \E r \in Requests : Requests = {r}
ASSUME AccountsAssumption == p1 \in Passwords /\ t1 \in Tokens
ASSUME ReadingAssumption ==
  IsFiniteSet(Chapters) /\ None \notin Reading!StoryRow \cup Reading!Levels
ASSUME ReviewAssumption == None \notin Review!AppealStatus \cup Review!ReportStatus
ASSUME FriendshipsAssumption ==
  None \notin Members \cup Friendships!FriendshipRow \cup Friendships!BlockRow
ASSUME AccessAssumption ==
  /\ None \notin Access!OverrideRow(Access!Effects) /\ None \notin Access!OverrideRow(Maxima)
  /\ None \notin Access!Effects /\ None \notin Maxima
ASSUME TreeAssumption ==
  /\ Parent \in [Tabs \cup Fields \cup FieldOptions -> Sections \cup Tabs \cup Fields]
  /\ \A t \in Tabs : Parent[t] \in Sections
  /\ \A f \in Fields : Parent[f] \in Tabs
  /\ \A o \in FieldOptions : Parent[o] \in Fields
  /\ \A n \in Sections \cup Tabs \cup Fields \cup FieldOptions :
       \/ n \notin Sections \cup Tabs \cup Fields
       \/ n \notin Sections \cup Tabs \cup FieldOptions
       \/ n \notin Sections \cup Fields \cup FieldOptions
       \/ n \notin Tabs \cup Fields \cup FieldOptions
ASSUME TrackingAssumption ==
  /\ None # Absent /\ None \notin Nat /\ Absent \notin Nat /\ Job \notin Requests
  /\ Retention \in Nat /\ PurgeBatch \in Nat /\ IsFiniteSet(Fields)
ASSUME TrackersAssumption ==
  /\ None \notin Achievements /\ None \notin {"primary", "secondary"} /\ None \notin Nat
  /\ \A e \in Achievements : e.most \in Nat
ASSUME LinksAssumption == None \notin Items /\ None \notin Addresses!Slugs /\ MaxAttempts \in Nat
ASSUME AnswersAssumption ==
  /\ Numbers \subseteq Int /\ None \notin Int
  /\ None \notin [local : Int, zone : Answers!Zones]
  /\ None \notin [start : Int, end : Int, zone : Answers!Zones]
ASSUME VotersAssumption == None \notin Social!Reactions
ASSUME CollectionsAssumption ==
  IsFiniteSet(Items) /\ MaxListed \in Nat /\ None \notin Lists!ListRow
ASSUME SpotlightAssumption == None \notin Spotlight!SpotlightRow /\ LastDate \in Nat

accounts    == <<user, rt, expired, issued, held, authReq, authHist>>
friendships == <<row, block, friendReq, friendHist>>
review      == <<content, appeal, report, trail, table, upheld>>
reading     == <<readable, removed, level, progress, restored>>
social      == <<vote, counts, comment, voting, policed>>
lists       == <<list, index, shelf, lost>>
tracking    == <<deletedAt, image, chosen, queue, stored, slots, day, refusals, member>>
answers     == <<field, withdrawn, answer, upToDate>>
complaints  == <<complaint, disabled, desk, takenUp>>
order       == <<kind, place, joined, asked>>
addresses   == <<targetType, slug, retired, known>>
access      == <<role, blocked, override, clock, decision>>
visibility  == <<scope, standing, profile, sto, captain, enabled, typesOff, wording, accepted,
                 branch, answered, meant>>
registry    == <<account, character, gate>>
spotlight   == <<entry, work, date>>
feed        == <<follows, items, story, chapter, arc, membership>>
readers     == <<recommended, person, cast, title, tag, tagged, vector>>
statistics  == <<sheet, roster, gone, nodes>>
trackers    == <<allegiance, score, slot, recorded, slotted>>
vars == <<part, accounts, friendships, review, reading, social, lists, tracking,
          answers, complaints, order, addresses, access, visibility, registry, spotlight,
          feed, readers, statistics, trackers>>

Init ==
  /\ part \in Parts
  /\ Accounts!Init /\ Friendships!Init
  /\ Review!Init /\ Reading!Init /\ Social!Init /\ Lists!Init /\ Tracking!Init
  /\ Answers!Init /\ MembersReported!Init
  /\ Order!Init /\ Addresses!Init /\ Access!Init /\ Visibility!Init /\ Registry!Init
  /\ Spotlight!Init /\ Feed!Init /\ Readers!Init /\ Statistics!Init /\ Trackers!Init
  /\ part # "order" => kind = "stories"
  /\ part # "addresses" => targetType = "STORY"
  /\ part # "access" => role = Admin
  /\ part # "visibility" => scope = "ACCOUNT"

Next ==
  /\ UNCHANGED part
  /\ IF part = "accounts"    THEN Accounts!Next      ELSE UNCHANGED accounts
  /\ IF part = "friendships" THEN Friendships!Next   ELSE UNCHANGED friendships
  /\ IF part = "review"      THEN Review!Serial      ELSE UNCHANGED review
  /\ IF part = "reading"     THEN Reading!Next       ELSE UNCHANGED reading
  /\ IF part = "social"      THEN Social!Serial      ELSE UNCHANGED social
  /\ IF part = "lists"       THEN Lists!Next         ELSE UNCHANGED lists
  /\ IF part = "tracking"    THEN Tracking!Serial    ELSE UNCHANGED tracking
  /\ IF part = "answers"     THEN Answers!Next       ELSE UNCHANGED answers
  /\ IF part = "complaints"  THEN MembersReported!Serial ELSE UNCHANGED complaints
  /\ IF part = "order"       THEN Order!Next         ELSE UNCHANGED order
  /\ IF part = "addresses"   THEN Addresses!Next     ELSE UNCHANGED addresses
  /\ IF part = "access"      THEN Access!Next        ELSE UNCHANGED access
  /\ IF part = "visibility"  THEN Visibility!Next    ELSE UNCHANGED visibility
  /\ IF part = "registry"    THEN Registry!Next      ELSE UNCHANGED registry
  /\ IF part = "spotlight"   THEN Spotlight!Next     ELSE UNCHANGED spotlight
  /\ part = "feed" => Feed!Next
  /\ part = "readers" => Readers!Next
  /\ part \notin {"feed", "readers"} => UNCHANGED feed
  /\ part # "readers" => UNCHANGED readers
  /\ IF part = "statistics"  THEN Statistics!Next    ELSE UNCHANGED statistics
  /\ IF part = "trackers"    THEN Trackers!Next      ELSE UNCHANGED trackers

\* The daily token clean-up and the nightly job get their turn, and the
\* statements of a tracking handler or job that began end.
Fairness ==
  /\ WF_accounts(part = "accounts" /\ Accounts!CleanupTokens)
  /\ WF_tracking(part = "tracking" /\ Tracking!Continue)
  /\ SF_tracking(part = "tracking" /\ Tracking!Nightly)

Spec == Init /\ [][Next]_vars /\ Fairness

--------------------------------------------------------------------------------
(* Properties, stated where the components are; some are asked of the part *)
(* a behaviour exercises only, the others being as they start.             *)

\* A disable, a closure or a reset is final and leaves no session open.
AccountsImplementContract == Accounts!ImplementsContract
\* No session outlives the account's standing.
NoSessionWithoutStanding == Accounts!NoSessionWithoutStanding
\* Again and again no refresh token that died is left in the table.
DeadRowsSwept == Accounts!DeadRowsSwept

\* Only the member who was asked makes a friendship; unblocking restores nothing.
FriendshipsImplementContract == Friendships!ImplementsContract

\* An upheld appeal gave the content back, and what is left in the trail says so.
ReviewSettled == Review!ReviewSettled

\* COMPLETED means every readable Chapter is read.
CompletedMeansRead == Reading!CompletedMeansRead
\* On hold and abandoned are left by the reader alone.
DeliberateSticks == Reading!DeliberateSticks

\* The counts on a Story are the number of its reactions, and the count on a
\* reading list that of its items.
CountsKept ==
  /\ part = "social" => Social!VotesCounted
  /\ part = "lists" => Lists!ListCounted
\* The counts on a page of the registry are those of the rows a visitor then finds,
\* and the figures of a dashboard, but for perks that share a name, and the summaries
\* of a Captain's progress add up.
FiguresAgree ==
  /\ part = "registry" => Registry!PagesAgree
  /\ part = "statistics" => Statistics!StatisticsAddUp
  /\ part = "trackers" => Trackers!SummariesAgree

\* Nothing is live below a Section or a Tab that was deleted or purged.
NothingLiveBelowDeleted == Tracking!NothingLiveBelowDeleted
\* No foreign key refuses a purge whose Fields fit into one batch.
BatchNeverRefused == Tracking!BatchNeverRefused
\* The queue of pictures to delete empties again and again.
QueueDrains == Tracking!QueueDrains

\* Saving a record again takes the answers it has.
SavedAnswerStands == part = "answers" => Answers!SavedAnswerStands
\* A figure that was accepted is one its Field offers.
AnswerFits == part = "answers" => Answers!AnswerFits

\* Disabling a member closes the reports of them.
ActedOnIsClosed == MembersReported!ActedOnIsClosed

\* Every row of a collection has a place of its own, and the next one is free.
PlacesApart == Order!PlacesApart

\* A link that was shared never leads to somebody else's while its own is there, and
\* what the Spotlight, its archive, a feed, a listing, a page or the search names
\* opens by its link.
LinksKeepLeading ==
  /\ part = "addresses" => Addresses!LinksKeepLeading
  /\ part = "spotlight" => Spotlight!EveryEntryInOnePlace
  /\ part = "feed" => Feed!ShownCanBeOpened
  /\ part = "readers" => Readers!OffersOpen

\* What a member may do, what of a member's a visitor is shown, and what a Captain
\* has achieved follow the last decision about it.
LastDecisionHolds ==
  /\ part = "access" => Access!LastDecisionHolds
  /\ part = "visibility" => Visibility!ShownAsMeant
  /\ part = "trackers" => Trackers!TrackedAsChosen
================================================================================
