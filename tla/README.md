# Verification of sto-info-backend

TLA+ models of the parts of the backend where requests, jobs and administrators
meet on shared rows, with TLC configurations that check them on small instances
and TLAPS proofs for every instance. The application is a NestJS server over
PostgreSQL (TypeORM): handlers load entities, await other queries, and save the
entities they loaded. Almost nothing is locked, and only a handful of services
open a transaction, so the questions worth asking are about what two handlers
can do to each other between two `await`s.

## How the code uses its database

Three facts shape every module.

- `Repository.save(entity)` is two statements: a SELECT of the stored row (deleted rows
  included), which waits for no lock, and an UPDATE of **every column in which the entity
  differs from what was just read**, `deletedAt` included. Saving an entity loaded a moment
  ago therefore puts its old columns back. What others write between the two stays in the
  columns the UPDATE leaves alone, so the row that results may be neither the entity nor the
  row that was there. `StorytimePublication`, where one invariant relates two columns, has
  both statements, and what that gap does is under "Also seen". The other modules take them as one step, which
  writes the entity: see "The gap inside `save`".
- `softDelete`, `update` and `delete` touch only their own columns or rows.
- Transactions run under READ COMMITTED. A transaction sees its own writes and
  the committed rows, and a row it has updated is locked until it commits.

## The system: inventory

State, operations and hard behaviour of each component, and the modules that
model it. `PROJECT.json` lists the same components with their sources and says
what each model leaves out.

| Component | State | Operations | What is hard | Modules |
| --- | --- | --- | --- | --- |
| auth, refresh tokens | user row, tokens of four kinds, the sweep | login, refresh, logout, reset, verify, resend, register | stale saves of the user row, tokens issued after a global logout, insert-then-revoke rotation | `AuthSession` |
| user account | `deletedAt`, retention | close, purge, register again | identity reuse, closure overtaken by a save | `AuthSession` |
| moderation of members | `isAccountDisabled` | disable, enable | a login under way | `AuthSession` |
| member reports | `user_report` | report, review, close on disable | duplicates at once, a review against the closing | `MemberReports` |
| friendships, blocks | `friendship`, `user_block`, partial unique indexes | request, accept, decline, cancel, remove; block with teardown, unblock | crossing requests, stale rows, an accept under way | `Friendship` |
| storytime chapters, stories | rows, schedule, version, cached counts | create, edit, cover, reorder, delete, publish, schedule, withdraw; the five-minute job | stale saves, the job's snapshot, overlapping recounts | `StorytimePublication` |
| storytime moderation, reports, appeals | `moderationStatus`, reports, appeals, audit trail | remove, restore, report, appeal, withdraw, decide | one outcome of an appeal, removal answered once | `StorytimeReview`, `StorytimePublication` |
| reading progress | one row per Story and per Chapter | read, complete, drop, reset, reopen | the derived status when Chapters come, go and return | `StorytimeReading` |
| reactions, comments | rows with cached counts | vote, change, withdraw; post, hide, remove | the toggle is decided outside the transaction | `StorytimeSocial` |
| crew, arcs, memberships | invitations and two-sided decisions | invite, accept, decline, revoke, leave; publish an Arc | stale rows carrying a consent, accept against revoke | `StorytimeCrew`, `StorytimeArcs` |
| reading lists | lists, items, a cached count | create, add, move, remove, delete; purge of a work's owner | cascades that bypass the count | `StorytimeReadingLists` |
| slugs | slug history per scope | generate, rename, retire, look up, delete | a free slug, a retired one, and who a link leads to | `StorytimeAddresses` |
| ordering | order indexes, some under unique indexes | append, insert, renumber, remove | a renumbering that meets its own rows | `StorytimeOrder` |
| spotlight | features with a period | create, change, delete, public pages | the schedule against what became of the work | `StorytimeSpotlight` |
| custom tracking: definitions, values | Sections, Tabs, Fields, Options, answers | create, update, delete with cascade, record | answers under a definition deleted meanwhile | `CustomTracking` |
| custom tracking: images, retention | image values, clean-up queue, external store | upload, replace, remove, flush, reconcile, nightly purge | crash between upload and commit, repeated deletion, restrictive keys | `CustomTracking` |
| custom tracking: configurations, validation | a Field's type and configuration | configure, reconfigure, validate an answer | a configuration no answer can satisfy; answers older than it | `FieldAnswers` |
| custom tracking: policy, moderation, public pages | agreement wording, gates, moderation states | accept, edit, hide, restore, read as a visitor | a gate of one level over another, a decision undone by an edit | `TrackingVisibility` |
| STO accounts and Captains, registry, member pages | Accounts, Captains, visibility | create, rename, move, hide, delete; registry pages and counts | counts and lists from different queries, handles compared without case | `StoRegistry` |
| image slots | a picture per row and the image store | set, clear | store, save and delete, each of which may fail | `PictureSlots` |
| access control, limits | roles, overrides with an expiry | grant, deny, withdraw, change role, resolve | which of several overrides is in force | `AccessControl` |
| settings | `app_setting`, a 10-second cache per instance | read, change | a change reaches an instance only when its copy expires | `SiteSettings` |
| SES webhook | event rows | bounce, complaint, delivery; clean-up of old records | at-least-once delivery, several recipients, a failure between two | `MailEvents` |
| follows, activity feed | follow rows, feed items | follow, unfollow; record, read | an item outlives what it names, which is looked up when the feed is read | `StorytimeFeed` |
| listings, search, tags, appearances | tags and their links, appearances, an index kept by triggers | tag, retitle, set the cast, remove; list, search, read a page | what is offered and what its page answers are separate queries | `StorytimeReaders` |
| progress trackers, specialization slots | a row per Captain and catalogue entry, a unique index on slots | record, choose a slot, list, summarise | a slot released and claimed in one transaction; entries hidden by a faction | `CaptainTrackers` |
| endeavours, statistics | progress per Account and perk; none | record; the figures of a dashboard | figures of one dashboard from many queries, over rows deleted and never filled in | `StoStatistics` |
| scheduled jobs | none of their own | nightly jobs in order, the chapter job | one failing job | with the component each calls |
| credits, notifications, news, contact, reference data, mail, audit, http, startup | independent rows, or none | row management, rendering, I/O | - | not modelled |

Interactions: auth calls refresh tokens and mail; disabling a member revokes
sessions and closes the reports about it; community services read each other's
rows (a friend request looks for a block, a block removes the friendship);
Chapters write their Story's count, reopen readers and announce in the feed;
moderation saves Stories and Chapters and appeals call moderation; every Storytime
service takes slugs, places and pictures from the shared helpers; the nightly
account purge calls custom tracking's purge, whose queue the last job drains, and
the database's cascades take what the purged member owned.

## Modules

Three modules are the core, with proofs of their own, two of them with contracts; the
others follow, one per component. `OneAtATime` and `TwoAtATime` put them together: the components
share no row in these models (only the feed and what readers are offered look at the
same works), so a behaviour picks one component (`part`) and the
variables of the rest stay as they start. `OneAtATime` runs every component with
one handler, or one run of its job, at a time, and states what the code promises
then; a property of several components is asked only of the part a behaviour
exercises, the rest being as it started. `TwoAtATime` runs two handlers with their statements interleaved, with
failures and crashes, and states what survives that. The comment on a part in
either module says how small it is. Both leave their constants open, since theorems
are proved about them; `MCOneAtATime` and `MCTwoAtATime` give them values for TLC.

### AuthSession

One account, its `Tokens` (refresh token rows), and `Requests` slots, each a
handler between two statements. Slot fields are what the handler holds: the
entity it loaded, the token it was given, the password it compared. One action
per awaited statement: `LoginValidate`, `LoginIssue`, `LoginSave` are the three
awaits of `AuthService.login`; `RefreshCheck`, `RefreshIssue`, `RefreshFind`,
`RefreshRevoke` are the rotation; `ResetPassword`, `RevokeAll`, `DeleteAll` the
reset and its two revocation statements. `SaveUser` is the save of a loaded user
entity. `hist` records what no handler reads (which passwords were chosen, which
tokens a global logout overtook), so that properties can speak of the past. A
`Handlers` constant names the operations a run allows.

`AccountContract` is the account as its users are promised it: standing,
lock, password, open sessions, each operation atomic. `AuthSerial` maps
`AuthSession` onto it.

### Friendship

`friendship` and `user_block` rows, the two partial unique indexes
(`PairKey`, `BlocksOf`), and the handlers of `FriendshipService` and
`BlockService` statement by statement. `FriendContract` is the relation between
members as a set of requests, refusals, friendships and walls; `FriendSerial`
maps the rows onto it.

### StorytimePublication

One Story, its Chapters, the handlers of their creators and of moderators, and
the five-minute job as a slot of its own that holds a queue of the rows it
loaded. `SelectRows` and `UpdateRows` are the two statements of a save of loaded
Chapters, `SelectStory` and `UpdateStory` of a Story: the first keeps in `dirty` which
columns differ, the second writes those. `SelectRows`, `TxUpdate` and `TxCommit` are
`saveWithStoryCount`: the row is locked from the second to the third, and the count is taken
at the second. `Reopen` and `Announce` follow a publication, and fail differently for a
creator and for the job. Order indexes, images and dates are not in the rows: reordering and
setting a cover are modelled for what they write back. `version` is compared when a row is
loaded and by no write, so all it can do is refuse an update, and it is left out.
`StorySerial` is the same system with one handler at a time.

### Storytime: StorytimeReview, StorytimeReading, StorytimeSocial

`StorytimeReview` is one item of content with its appeals, the reports of one member
and the audit trail. `table` is what a handler loaded: `Decide` saves the appeal
and then restores the content, two steps with a failure between them; `Serial` is
the same with one handler at a time. `StorytimeReading` keeps a Chapter's
percentage as a level (below, from, and at the thresholds), and derives the
Story's status exactly where the service does (`Derived`). `StorytimeSocial` has
votes with their recount, and comments with the three parties that may take one
away.

### Storytime: StorytimeCrew, StorytimeArcs, StorytimeReadingLists

The collaborators of a Story, the collaborators and the Stories of an Arc, and a
reading list. In the first two every handler loads a row, decides and saves the
whole row, and `voiced` and `consent` remember who offered and who accepted
what, so that `WorksByConsent`, `AccessAgreed` and `JoinedByBoth` can say that
whatever a stale save writes back, nobody works with a capability nobody entitled
offered or without ever having accepted, and no Story is in an Arc that its own
side or the Arc's never agreed to. The reading list has works that are withdrawn,
return, and vanish with their owner's account.

### Storytime: StorytimeFeed, StorytimeReaders

What one reader follows, the items announced of an author's Story and Chapter and of
a curator's Arc, and those works with their three gates: status, visibility and
moderation. `Record` may fail, as `recordQuietly` lets it. `StoryShown`, `ChapterShown` and
`ArcShown` are what the feed looks at, `StoryOpens`, `ChapterOpens` and `ArcOpens` what
serves the pages: that the first imply the second is the property, and for Arcs
they do not (finding 7). `StorytimeReaders` takes the works and their handlers from it
and adds a Character, its appearance, a tag, and the words the Story is found by, which
only the triggers of the database keep: each operator from `StoryListing` to `Search`
is one query of what readers are offered, each ending in `Page` one service's answer to
the link. `recommended` is what a member's public reading list names. `Discovered` is what
the listings, the search and the pages of Stories name, `Offered` all that is offered
anywhere: the page of an Arc and a reading list name unlisted Stories too ("Also seen").

### Storytime: StorytimeOrder, StorytimeAddresses, StorytimeSpotlight

The shared helpers. `StorytimeOrder` is `nextIndex` and `renumber` under every
collection that uses them, with PostgreSQL's check of a unique index as each
row is updated: `kind` says which collection it is. `StorytimeAddresses` is slug
generation, retirement and lookup among the items of one kind, `targetType`: what makes an
item change its slug (`Rename`, `Retype`), and whether its retired slugs are looked up
(`LeadsTo`), depend on the kind. A slug is its words, so that `x-2` typed and `x-2` generated
are the same slug. `StorytimeSpotlight` is the schedule of featured works
against the clock and against what becomes of the works.

### Custom tracking: CustomTracking, TrackingSerial, FieldAnswers, TrackingVisibility

`CustomTracking` is definitions, answers, pictures, the clean-up queue and the
nightly job, with a slot per request and one for the job; a transaction's
effects are one step, the calls to the image store before and after it are
steps of their own that may be refused, and a crash may fall between any two.
`TrackingSerial` takes one at a time and adds the fairness. `FieldAnswers` is the
pure part: the configurations the services accept for each type of Field, and
the answers they accept under one, over small figures; a decimal counts
halves so that the rounding of places shows. `TrackingVisibility` has every gate
between a visitor and an answer, with the history of what the last decision about each
level was.

### Members: StoRegistry, StoStatistics, CaptainTrackers, PictureSlots, MemberReports, AccessControl, SiteSettings, MailEvents

`StoRegistry` is Accounts and Captains with the queries that count, list and find
them, each written from its own `where`: that they agree is the property.
`StoStatistics` has the figures of the dashboard, each from its own query and with the
code's rounding, and the summary of one Account's endeavours, over Accounts and
Captains that are moved, deleted or left without a level, faction or platform. The figures
per perk are told apart by name, in whatever order the rows come (`Kept`), and so only right
for a perk alone in its name ("Also seen").
`CaptainTrackers` has the five trackers of a Captain, whose handlers differ only in their
maximum and in what a list shows, and the two specialization slots.
`PictureSlots` is storing, saving and deleting a picture for each kind of row, in
the order each service does it, with a failure at every call.
`MemberReports`, `AccessControl`, `SiteSettings` and `MailEvents` are one
component each, as the inventory says. `MailEvents` has the audit's clean-up of old records
too, which ends a suppression. In `SiteSettings` the clock, the copies and
the row are separate, and `lastHeld` remembers when the row last had each value.

### The gap inside `save`

In the modules other than `StorytimePublication` the two statements of `save` are one step.
With one handler at a time (`OneAtATime`, `AuthSerial`, ...) nothing runs between them. Where
handlers do meet (`AuthSession`, `Friendship`, `StorytimeCrew`, `StorytimeArcs`,
`StorytimeReview`, `CustomTracking`), an UPDATE of the columns that differed
leaves in each column either the entity's value or the stored one, and what is checked is a
claim about each column by itself:

- It compares one column with a history that is only added to while a stale row may be
  around. A verified account and its password, in `EarnedState`, are two such claims; so are
  the status of an invitation and each of its capabilities (`AccessAgreed`,
  `WorksByConsent`), and the status of a membership (`JoinedByBoth`) and of an appeal
  (`AnsweredForGood`). Whichever of the two values is left in a column, what was said of it
  was said.
- In `FriendsConsented` and `BlockHoldsAgainstLaterRequests` a relation is its status, and
  is there or not (`deletedAt`): a row of two saves is live only if one of them was, with a
  status one of them had, and who asked whom is written as a pair. `OneRowPerPair` is the
  unique index's.
- Refresh tokens are inserted, updated by one column or deleted, and a row that a save does
  not find is missed as a whole.
- In `NoBrokenPicture` and `DeletesOnlyQueued` a row that points at a picture is inserted,
  deleted, or saved with a picture uploaded a moment ago. That picture's name is in no other
  row, so the save's UPDATE always writes it (`custom-tracking-image.service.ts:280-291`), and
  a row that went between the two statements is missed as a whole.

### Naming of mutants

A definition introduced by "Mutant of" is not part of any specification: it is the
original with a plausible mistake, kept beside it to show that a property notices.

## What the runs show

| Run | Instance | Checks | Shows |
| --- | --- | --- | --- |
| `auth_lifecycle` | 2 handlers, the whole lifecycle of an account, purge and registration again | `TypeOK`, `RotationDiesWithLogout`, `DeadTokensStayDead`, `EarnedState` | dead tokens stay dead, a rotation overtaken by a global logout leaves no session, verification and password are only what was proven or chosen, though stale rows are written back |
| `story_chapters` | 2 Chapters, 2 ticks, 1 creator, the fair job | `PublicationEarned`, `DueGoesOut` | publication is earned, every due Chapter leaves the queue |
| `story_shelf` | 1 Chapter, 2 handlers, moderation, deletion, failures, crashes | `StoryEarned`, `AnnouncedWentOut` | no Story goes out before a Chapter of it did, nothing rolled back is announced |
| `one_at_a_time` | 19 parts, one handler at a time, the fair sweep and nightly job | 18 properties, below | what the code promises when no requests meet |
| `two_at_a_time` | 9 parts, two handlers, failures and crashes | 14 properties, below | what holds however the statements interleave |
| `auth_disable_race` | a login and a disable | `DisableSticks`, violated | finding 1 |
| `friends_block_race` | an accept and a block | `BlockTearsDown`, violated | finding 2 |
| `story_count_race` | two publications | `CountAtRest`, violated | finding 3 |
| `tracking_clear` | one member, one picture Field | `NothingForgotten`, violated | finding 4 |
| `comment_restore` | one Story, two comments | `RemovedStaysRemoved`, violated | finding 5 |
| `story_reorder` | an Arc of three Stories | `OrderAsAsked`, violated | finding 6 |
| `feed_draft_arc` | one reader, a published Story, an Arc that is a draft | `NamedArcsOpen`, violated | finding 7 |

`one_at_a_time`, part by part:

| Part | Properties |
| --- | --- |
| accounts | `AccountsImplementContract` (refinement of `AccountContract`), `NoSessionWithoutStanding`, `DeadRowsSwept` |
| friendships | `FriendshipsImplementContract` (refinement of `FriendContract`) |
| review | `ReviewSettled`: upholding restores in the same act, one appeal at most is spent, the trail tells what became of the content, no member has two reports waiting |
| reading | `CompletedMeansRead`, `DeliberateSticks`: the status is what was read, and a reader's own decision is not overridden |
| social, lists | `CountsKept`: votes, list items and their cached counts agree |
| registry, statistics, trackers | `FiguresAgree`: lists, counts and pages of the registry agree; the figures of a dashboard and of a summary add up, those per perk where no other perk has its name |
| tracking | `NothingLiveBelowDeleted`, `BatchNeverRefused`, `QueueDrains`: nothing is live below what was deleted or purged, no foreign key stops a purge that one batch holds, the queue of pictures empties again and again |
| answers | `SavedAnswerStands`, `AnswerFits`: a stored answer passes validation again unchanged, and lies in its bounds, on a step and at its precision, by a definition written apart from the validators |
| complaints | `ActedOnIsClosed`: disabling a member closes the reports of them |
| order | `PlacesApart`: every row has a place of its own, and the next one is free |
| addresses, spotlight, feed, readers | `LinksKeepLeading`: a Story is found at every address it had, anything else at its own, and neither at an address of one that is still there; every spotlight entry is on one page or none; a feed offers only Stories and Chapters that open; so do the listings, the search and the pages that name each other, and the search finds a Story by its title and no tag it does not carry |
| access, visibility, trackers | `LastDecisionHolds`: what is in force, what a visitor is shown and what a Captain's slots and trackers hold follows from the last decision on each |

`two_at_a_time`, part by part:

| Part | Properties |
| --- | --- |
| friendships | `OneRowPerPair`, `FriendsConsented`, `BlockHoldsAgainstLaterRequests` |
| publication | with one handler or one run of the job at a time and failures: `CountFollows`, the count never moves to a wrong value; `ScheduleConsistent`, a Chapter has a publication time exactly while it waits for the job |
| review | `AnsweredForGood`: no appeal is ever put back to be answered again, although answers race and fail half way |
| arcs, crew | `AccessAgreed`, `JoinedByBoth`, `WorksByConsent` |
| tracking, pictures | `NoBrokenPicture`, `DeletesOnlyQueued`: no row points at a picture that is gone, in spite of failures and crashes at every step |
| settings | `ReachesEveryInstance`: no instance goes on with a value longer than one lifetime of its copy |
| mail | `AnsweredIsSuppressed`: once a notice is acknowledged its address is suppressed until the clean-up takes the record, however often it came and whatever failed |
| all | `TypesOK` |

### Bounds

All of them are in the `.cfg` files and, for the composed runs, in the `INSTANCE`
clauses of `OneAtATime` and `TwoAtATime`. Every hazard listed needs one row or
one pair of rows and two handlers (the token of a rotation is revoked by a
logout that another slot runs to its end, statement by statement), so two keys of a table are enough to let an
index refuse, and a third member of a collection to let one be moved between
two others. Ticks: one separates "scheduled" from "due", two let a Chapter be
rescheduled and the job miss an instant; a spotlight needs a before, a during and
an after. `MaxRefusals` counts how often the image store refuses (1: a retry then
succeeds; in `two_at_a_time` 0, because there crashes leave the same rows
behind). `MaxPlace` 4 and `MaxIndex` 3 are one more than a collection has members,
so that a gap is possible. `MaxAttempts` 3 is smaller than the code's 200 and lets the
search for a free slug fail. `MaxWording` 2 versions of the agreement are one change
of it; `MaxShut`, `MaxHidden` and `MaxLeft` bound how many gates are shut, how
much is kept from the visitor, and how many forgotten pictures there are at a time:
two shut gates show that opening one is not enough, one hidden thing is enough for
lists and counts to differ, and two (in `StorytimeFeed` and `StorytimeReaders`) leave one gate of a Story or
Arc shut while another opens. `MaxFollows` 2 lets a reader reach an item over the
author and over the Arc, two words tell a title from a tag's name, `MaxItems` 1 is enough because each item is filtered by itself.
`MaxRows` 2 gives statistics two Captains, or a Captain and a perk, and trackers two
specializations for one slot; `MaxNodes` 1 makes a perk complete or not. `MaxAccounts` and `MaxCaptains` 2 give two Accounts of one
member, or two Captains on one Account or apart. `Asked`, `Offers`, `Items` and
`Grants` are the inputs given to requests. Limits of the code (number of Chapters,
items of a list, batch sizes, retention) are set as low as lets them be met.

Symmetry is used where neither liveness nor a refinement is checked and the keys
are interchangeable: `auth_lifecycle`, `story_shelf`, `two_at_a_time`
(permutations of the handlers and keys that the instances do not single out).

`story_shelf` leaves scheduling, reordering and the withdrawal of a Chapter to `story_chapters`,
which in turn leaves moderation and edits to it; a deletion lowers the count there as
a withdrawal would.

Row keys of the core modules are never freed, so a run may exhaust them, and a
bounded clock ends: `CHECK_DEADLOCK FALSE`, because what stops there is the bound
and not the program.

### Fairness

`DeadRowsSwept`, that the table is again and again free of dead rows, assumes that
the daily clean-up runs (`@Cron`, three in the morning). `QueueDrains` assumes that statements which began end and that the
nightly job gets its turn again and again between requests (strong fairness: it
cannot run while a request is under way in a model of one at a time).
`DueGoesOut` assumes that the five-minute job runs with Storytime switched on, that
statements which began end, and that a transaction waiting for a row lock which is
released again and again obtains it in the end (PostgreSQL queues waiters);
failures are left out of that run, since a database that always fails publishes
nothing. Nothing else depends on fairness.

## Findings

1. A login that loaded the user before an administrator disabled it saves
   `isAccountDisabled = false` back at its end (`auth.service.ts:357`).
2. An accept that looked for a block before there was one saves a live, accepted row
   after the block removed it (`friendship.service.ts:547`): the friendship
   stands across the block and resumes when the block is lifted.
3. Two publications in overlapping transactions each count without the other
   (`storytime-chapter.service.ts:685`); the Story keeps the lower count.
4. Recording `null` for a picture Field deletes its value row, the cascade takes the
   picture's row, and nothing queues the picture for deletion
   (`custom-tracking-value.service.ts:446`).
5. A Story's owner can hide a comment an administrator removed
   (`storytime-comment.service.ts:198`), and unhiding it then shows it again.
6. Reordering gives rows places others still hold, one update at a time, under a
   unique index (`storytime-arc-membership.service.ts:358`): swapping two Stories
   of an Arc is refused. Stories, Chapters and videos are reordered alike.
7. The feed names an Arc by its visibility and moderation and does not ask for its
   status (`storytime-activity-feed.service.ts:383`): when a Story joins an Arc that is a
   draft, or was withdrawn, followers read its title and an address that does not open.

## Also seen

Behaviours met while modelling and traced to their lines, for which no run is kept. The
concurrent ones are variations of the findings above: most have the cause of findings 1 and 2,
the save of a row that was loaded earlier. Five contradict what the repository says and set
the limits of a property that holds:

- *The schedule.* A creator sets another time for a Chapter while the job publishes it: the
  save of `schedule` has read the waiting row before the job commits, finds that the time alone
  differs, and writes it afterwards (`storytime-chapter.service.ts:452`, `:679-699`). The Chapter
  is published and "due to publish automatically" (`chapter.dto.ts:118`), its creator believes
  it waits, and the job never takes it again. `StorytimePublication` has both statements and
  reaches this state (the creator's load and SELECT, the job's whole transaction, the creator's
  UPDATE), so `ScheduleConsistent` is asked, and proved, of one handler or one run of the job at a time.
- *Old addresses.* Every kind of item records the slug it gives up, "An old address still
  resolves" (`storytime-slug.service.ts:55`), but only the page of a Story looks it up
  (`storytime-story.service.ts:555`): an old address of a Chapter, a Character, an Arc or a
  spotlight answers 404 (`storytime-arc.service.ts:353` and its like). `LinksKeepLeading`
  promises old addresses of Stories only.
- *Slugs of deleted items.* That of a Story "stays reserved" (`storytime-story.service.ts:807`),
  that of a Character or an Arc is "not immediately reissued"
  (`storytime-character.service.ts:330`, `storytime-arc.service.ts:484`), but a deletion records
  nothing in the history and deleted rows are not asked (`storytime-slug.service.ts:218`): the
  next item of that title gets the slug at once. `LinksKeepLeading` speaks of links to what is
  there, and of slugs given up in a rename.
- *Unlisted Stories.* "It must not be possible to discover one by browsing"
  (`storytime-story.service.ts:484`). The page of a public Arc names it
  (`public-storytime-arcs.controller.ts:115`), and so does a member's public reading list
  (`storytime-reading-list.service.ts:583`). `OffersOpen` says it of the listings, the search and
  the pages of Stories (`Discovered`).
- *Perks of one name.* "Total nodes earned per endeavour perk" (`stats-response.dto.ts:70`):
  perks are unique by name and category, and the seeded catalogue has many names in both
  (`1774837200000-CreateEndeavourTables.ts:68`, `:95`). The rows are merged by name alone
  (`stats.service.ts:577`), so two perks of one name are shown with the same figure, that of the
  row read last; so are the averages. `StatisticsAddUp` speaks of perks alone in their name.

Accounts and members

- A login that compared the old password before a reset issues its refresh token
  after the reset revoked every session (`auth.service.ts:353`); its save at the end
  writes `deletedAt` back as loaded and so reopens an account closed meanwhile
  (`:357`).
- `requestPasswordReset` saves the whole row, so a request that overlaps a reset puts
  the old password back (`auth.service.ts:420`). `EarnedState` holds: the
  password is then an older one the member chose.
- Accepting or declining with a row loaded before its requester withdrew it stores
  it again, live (`friendship.service.ts:547`).
- A report of a member may be reopened after it was closed (`updateForAdmin`), and one
  inserted or saved while the member is being disabled stays open.
- Access control: the summary of a member's permissions comes from a cache kept for
  one request; setting an override while another administrator withdraws it
  updates a row soft-deleted meanwhile; two role changes at once both pass the
  check for ADMIN.
- A read of a setting that queried before `setValue` puts the old value back into
  the cache of the instance that changed it, which then serves it for up to one
  lifetime; the comment in `settings.service.ts:12-15` says a change is
  immediate there.
- `isSuppressed` (`ses-webhook.service.ts:165`) has no caller. A notice with several
  recipients would violate the unique `snsMessageId` (`ses-event.entity.ts:87`) at
  the second and be skipped when delivered again; `mail.service.ts:287` sends to
  one recipient, so it does not occur.
- Deleting the old picture of a profile is not guarded (`user.service.ts:539`): the
  request fails although the change was saved. A save of any row loaded before its
  picture was replaced points at the deleted picture again.
- Renaming an STO Account does not rewrite the full handle of its Captains
  (`account.service.ts:478`, `character.service.ts:157`), so two Captains of one
  handle may stand on one Account, under slugs made of the old name; a
  Captain that moves gets the handle of the Account it leaves
  (`character.service.ts:446`); looking up a Captain of a soft-deleted Account
  reads a property of null (`:411`). `account.service.ts:553` has no caller.

- Statistics: the averages are over Accounts with a record, and the overall completion
  rounds to 100 before everything is complete.
- A save of specialization points loaded before another request released the slot writes the
  slot back (`character-specialization.service.ts:130`): the index refuses it, or it
  undoes a deactivation.

Storytime

- Two updates that loaded the same `version` are both accepted
  (`storytime-chapter.service.ts:196`, checked at `:160`): the first text is lost.
- A creator's save of a Chapter loaded before a moderator removed it puts it back
  (`storytime-chapter.service.ts:196`), and removals, rescheduling (`:452`) and
  saves of the Story (`storytime-story.service.ts:213`) leave the count, or put one
  back, that does not match what readers see, until the next recount. Arcs,
  Characters and collaborators' rows return the same way.
- If `reopenCompletedReaders` fails, the job has already committed the Chapter but
  does not announce it, and the Chapter is no longer due
  (`storytime-chapter.service.ts:483`). A creator's own publication goes on to
  the announcement.
- Two creations at one below `MAX_CHAPTERS_PER_STORY` both pass the limit (`:759`),
  as in every other create.
- Appeals: the decision is saved before the restore, and if the restore fails the
  appeal is decided and cannot be decided again; deciding and withdrawing at
  once leave a restored item under a withdrawn appeal; two appeals may be created
  at once.
- Reading progress: reopening saves rows while their readers complete, drop or reset
  them. `knownPublishedChapterCount` is the count as it was when the row was saved.
- Votes: overlapping recounts, as in finding 3. The purge of a member cascades
  its votes and its works' list items away and recounts nothing: `upVoteCount` and
  `itemCount` stay as they were.
- Reading lists: the recount saves the whole list (`storytime-reading-list.service.ts:570`)
  and so undoes a rename, a change of visibility or a deletion that ran
  meanwhile; its reorder is a `Promise.all` of updates in no transaction.
- Arcs: an approval racing a withdrawal, or an acceptance racing a revocation,
  stores the older row; publication counts the Stories before it loads the Arc
  (`storytime-creator-arcs.controller.ts:263`).
- Ending a membership of an Arc announces that the Story left it, also when it had
  never joined or had left before (`storytime-arc-membership.service.ts:271`).
- The feed is filtered after it was paged, and unseen items are counted among the newest
  100: a page may be short or empty, and the count 0 with older unseen items left
  (`storytime-activity-feed.service.ts:171`).
- Removing a tag is described as taking the join rows "with it by foreign key" so that
  it does not linger "as a filter that finds" Stories (`storytime-tag.service.ts:154`). It is
  a soft delete, which fires no cascade, and the index is built of every linked tag: the
  Story is still found by the name until it is tagged anew. A tag that is renamed
  is found by its old name, likewise.
- `setTags` and `setAppearances` delete and then insert in no transaction. An appearance of a
  deleted Character stays, and sending the same cast again is then refused. The spotlight's update can
  publish an entry, or change its work, without the notice to the author
  (`storytime-spotlight.service.ts:296`).
- Slugs: the comment at `slug.service.ts:127` says an entity can reclaim its own slug, which
  `isTaken` never lets it; saving an unchanged title replaces a typed slug; a slug given up in
  a rename may be taken by a creation between the save and its record
  (`storytime-story.service.ts:213`).

Custom tracking

- The place of a decimal or percentage in its `step` is never checked
  (`number-configuration.dto.ts:87`); a percentage with only a minimum of 150 is
  stored with a maximum of 100 (`custom-tracking-field-configuration.service.ts:312`);
  a PROGRESS of maximum 0 has no answer; `assertOnStep` refuses a slider's 1.1 with
  minimum 1 and step 0.1.
- A crash between an upload and its commit leaves a picture no row knows. A purge that
  overlaps a save may be refused by a restrictive key for one night.
- `docs/custom-tracking.md:330` says of the night's purge that "nothing is deleted while
  something that survives still refers to it". It takes the oldest 500 rows of each table on
  their own (`custom-tracking-purge.service.ts:143`), and one deletion stamps a Tab and its
  Fields with one moment. When more Fields have expired than a batch takes, the Tab can go in a
  night that leaves one of its Fields out: the cascade then meets an Option that an answer
  still holds by a restrictive key, and the database may refuse the job; if it does not,
  the Field's pictures go without being queued. `BatchNeverRefused` is what does hold, as long
  as the expired Fields fit the batch; the case was met when the property without that
  condition could not be proved for any number of Fields.
- `YOUTUBE_ENABLED` is documented as deciding whether such a Field may be filled in, and
  `saveRecord` does not ask it.

## What is proved

Eight modules of theorems, 38 results. They hold for any sets of keys, handlers and
members and any bound on the clock, under the assumptions that the modules name:

- `FriendshipAssumption`, `NullAssumption`, `ReadingAssumption`, `ReviewAssumption`,
  `FriendshipsAssumption` and their like: `None`, the null of the database, is no value
  of a column. `FiniteAssumption`, and the finite set of Chapters in `StorytimeProofs`
  and in `ReadingAssumption`: what is counted is finite.
- `PublicationAssumption`: what `StorytimePublication` assumes, of its instance in `TwoAtATime`.
- `OffersAssumption`: requests offer capabilities the code has. `TimeAssumption`: the
  clock and the lifetime of a copy are numbers. `AccountsAssumption`: the first
  password and the first token of `OneAtATime` are a password and a token.
- `AccessAssumption`, `TrackersAssumption`, `LinksAssumption`, `SpotlightAssumption`: `None` is
  none of the rows, settings, entries, items and slugs, and the limits, dates and attempts
  are numbers.
- `CollectionsAssumption`, `VotersAssumption`, `AnswersAssumption`: `None` is no row of a
  list, no vote and no number or instant of an answer; the items are finitely many, and what is
  submitted for a number is an integer of the model's half units.
- `TreeAssumption`: a Tab lies in a Section, a Field in a Tab, an Option in a Field, and
  nothing is on two levels. `TrackingAssumption`: times and the size of a batch are
  numbers, the job is no request, and the Fields are finitely many.
- `SlotAssumption`: in `OneAtATime` there is one handler's slot. It is what that module
  is about, and no theorem about interleaving rests on it.

### Core

- `AuthSessionProofs`: `Typing`; `DeadTokens`, a step property from the type
  invariant and the way each action may change a token; `RotationDies`, whose
  inductive invariant ties the history of overtaken rotations to the tokens they
  may still touch; `StateEarned`, whose invariant `EarnedInv` says of every user entity
  that a handler holds what the property says of the stored row: it is verified only
  if its link was followed, and its password was chosen since the last purge.
- `FriendshipProofs`: `Typing`; `OnePerPair`, inductive by itself once every
  write is shown to be a removal or a write the index admits (`StepWrites`);
  `Consent`, whose inductive invariant `ConsentInv` extends "vouched for" from
  stored rows to every entity a running handler holds: without that a stale
  save could store what nobody asked for; `BlockHolds`, whose invariant `BlockInv` says
  that whoever is on the way to a write across a block was running when the block's
  teardown read the pair, or the teardown has not read it yet (`WritersWarned`), and
  that until such a handler has written, a live row across a block is about to be
  found or removed (`RowsDoomed`).
- `StorytimeProofs`: `Typing`; `Earned`, from the invariant `EarnedInv`; `Schedules`, of
  `StorySerial`, from `ScheduleInv`; `StoriesEarned` and `Announced`, from `OutInv`. Two lemmas carry
  them: every row a step leaves in the table was there, is a new draft, or is what an UPDATE
  made of it, each column the stored row's or that of the entity in a handler's hands
  (`StepChapters`, `UpdatedRow`); and every row a step leaves in a
  handler's hands was there already, was just loaded and changed as that handler
  changes it, or is the job publishing the next of its queue (`StepSlots`). So a
  property of single columns is inductive once it is stated of the stored rows and of
  those held. One that relates two columns is not: `ScheduleInv` needs in addition that the
  columns a save is about to write are those in which its entity differs from the row as it
  still is (`SavesExactly`), which holds only while no other handler is there to write between
  the two statements. `EarnedInv` adds that the rows the job holds had fallen due when it
  loaded them. `OutInv` adds that a count above zero, wherever it is cached, held or
  about to be written, was taken after a publication had been committed or inside
  the transaction about to commit one, which is why a count that is wrong is still
  never positive too early. `CountFollowing`, of `StorySerial`: with one handler at a time a
  transaction commits the count of the table with its own row, a recount is of the table as it
  is, and a story entity carries the count that is stored (`CountInv`); that one slot is busy
  at most is itself inductive, since a step touches one slot (`StaysAlone`). `CountExact` in
  `DeliveryProofs` says it of the instance in `TwoAtATime`.

### Handlers that meet (`TwoAtATime`, any number of them)

- `ConsentProofs`: `ArcAccess` and `ArcMembership` (`ArcsInv`), `CrewConsent`
  (`CrewInv`): what a stored row says was said is also true of the row every handler
  holds, and what was said is never taken back, so a stale save adds nothing that was
  not agreed to. `AnswersFinal` (`ReviewInv`): an appeal about to be stored for the first
  time is in no table and in nobody else's hands, so `SUBMITTED` is never written over
  an answer.
- `DeliveryProofs`: `SwitchReaches` (`SettingsInv`): a copy, and a value about to become
  one, was in the row at the time of its stamp or later, because the stamp is taken before
  the row is read. `AnsweredSuppresses` (`MailInv`): what is recorded of a notice is whom it
  is about, and what is answered is recorded, every notice having one recipient.
- `PictureProofs`: `PicturesShown`, from two invariants. `SlotsInv`: nobody else writes the
  row, what it is to become has a picture that is stored, and the one to be deleted is no
  longer its own. `TrackingInv`: the picture of an answer is stored, not queued, and no other
  answer's; no two handlers hold the same upload, which nobody shows yet; a picture a
  handler loaded is shown, if at all, in the very row it loaded it from; and whatever it is
  about to delete is queued as long as it is there (`HoldsSafely`). `DeletionsQueued` follows.

### One handler at a time (`OneAtATime`)

`SerialProofs`. Each component's part of a behaviour is first shown to be a behaviour of
that component; an invariant over the table and the one slot then says what a handler,
running alone, still knows of the rows it read.

- `CompletedRead` and `ChoiceSticks` (`ReadInv`): the status is derived by comparing the
  number of Chapters read with the number readable, which says that every readable
  one is read because only readable ones are counted and Chapters are finite
  (`ReadCounted`).
- `ReportsClosed` (`ComplaintInv`): a report of a disabled member is open only until the
  disabling handler has closed it, or when an administrator took it up again.
- `ReviewSettles` (`SettledInv`, with `AtTable`, what a handler is about to do): content that
  an upheld appeal gives back is missing only while the handler is on its way to it, and
  the trail is behind only while an act is being recorded.
- `StandingHeld` and the refinement `AccountsKeepContract` (`AccountInv`, with `AtWork`):
  every step is an act of `AccountContract` or a stutter (`Promised`). A running handler
  knows that the row is still as it loaded it, that the token it is about to hand out
  is held by nobody, and the one it exchanges is held; so a save only touches what its act
  touches (`Touches`, `Overturns`), and the sessions a reset or a closure has yet to revoke
  are closed in the contract from the act that decides it.
- The refinement `FriendshipsKeepContract` (`FriendInv`, with `AtHand`): a live row
  stands across a block only while the handler that blocked is about to remove it, and
  rows across a block are not shown to the contract. So the block's row is the contract's
  `Raise`, the removal that follows is a stutter, and any other removal is a `Cancel` or
  a `Part`; since nothing stands across the block once its handler ended, `Lower`
  brings nothing back.

`PromiseProofs` has the promises whose state lies in several rows.

- `DecisionsHold`. `DecisionInv` of the overrides: of a key there is one row that was not
  withdrawn, and it says what was decided last, or there is none and nothing is decided;
  with a second row the checks might pick another than the handlers wrote. `LevelsInv` of what visitors
  see: the flags of every level are what its owner and the moderators meant last.
  `ChosenInv` of the trackers: a specialization is in a slot exactly if it was the last chosen for it,
  and a record holds what was sent last.
- `LinksLead`. `AddressInv`: live slugs are pairwise apart and none of them is in the
  history, and whatever address a live item was reached at is its slug or is kept in the history for it.
  `PeriodInv`: an entry of the spotlight ends after it starts, so it is never both showing
  and past. `IndexInv`: the index holds a Story's title always, and nothing else while
  it has no tag; with the types of the works (`WorksInv`) the rest is that each query asks
  for no less than the page.
- `NothingLiveBelow` (`TreeInv`): a row never outlives what is above it: it is gone, or its
  parent is live, or it was deleted no later than its parent. The invariant has to speak of
  what a handler between its reads and its write relies on as well (`HoldsNodes`): the row it will
  stamp is live, and it has left out no live row below.
- `PurgeAdmitted`: by `TreeInv` everything below an expired row has expired, and a batch that
  is large enough takes all of it (`BatchTakesAll`, by counting), so no answer that survives chose
  an Option that goes.
- `PlacesStayApart` (`PlacesInv`): places are numbers, no two rows share one, and a collection
  that a deletion leaves keeps its rows' places. A reordering gives every row its position in the order
  that was asked (`EveryPosition`), and positions differ; the next place is above the highest
  (`HighestOfFinite`).
- `CountsHold` (`VotesInv`, `ListInv`): what a transaction on a vote is about to commit as the
  counts is the tally of the rows with its own changed; a list counts its items and those whose work was
  purged since it was last recounted, and never holds more than its limit.
- `AnswersKept` and `FiguresFit` (`AnswerInv`): the configuration is one that can be saved, and
  an answer stored under the present one is what validation makes of some submission. Taking an answer
  twice gives the same answer, type by type: an instant shown in its zone is the instant
  (`DateTimeAgain`), a duration in its units is that duration (`DurationAgain`), labels without repetitions
  stay as they are (`DistinctAgain`).

Each invariant is split into a lemma that the initial states satisfy it, one that
every step preserves it, and the temporal theorem that combines them.

### Only model-checked

- Liveness (`DeadRowsSwept`, `QueueDrains`, `DueGoesOut`): the installed provers do not
  support fairness.
- `FiguresAgree`: sums and averages by folds over sets, whose value for every input needs
  an induction the provers cannot instantiate.
- `TypesOK` joins the type invariants of all parts of `TwoAtATime`.

## Plan

1. (done) `AuthSession`, `Friendship`, `StorytimePublication`, their contracts and
   first proofs.
2. (done) Custom tracking with its queue and nightly job; review and appeals, reading,
   votes and comments, reading lists, crew and Arcs; reports, settings, mail events.
3. (done) The pure parts (`FieldAnswers`, `StorytimeOrder`, `StorytimeAddresses`,
   `AccessControl`) and what visitors see (`TrackingVisibility`, `StoRegistry`,
   `StorytimeSpotlight`), with pictures (`PictureSlots`); then the feed, what
   readers are offered, the trackers and the statistics.
4. (done) Consent in `StorytimeCrew` and `StorytimeArcs`, pictures, settings and mail, blocks,
   earned state, and both refinements.
5. (done) What lies in several rows: the last decision, links, trees and their purge; places,
   counts and answers.
6. Credits and the owner's ordering, if they come to share rows with what is modelled.

## Not modelled, and why

Rendering (Markdown, mail templates), the shape of request bodies, and the sorting and
ranking of listings change no state that a property is about. Credits, inboxes, reference data, news
and contact are independent rows edited by one member or by administrators, often with a
unique key and nothing derived from them.
External services (Cloudflare, SES, Redis) are I/O; the part of them that
matters, that a call may fail or be repeated, is in the component that calls them.
Entities, request types, controllers that only forward, migrations, seeders and
the scripts that prepare test data have no behaviour of their own; indexes and
cascades declared by the migrations are in the modules of the rows they
protect. One handler could not be modelled because it has no effect:
`POST /auth/revoke` (`auth.controller.ts:326`) reads `req.user.tokenId`, which no guard
sets, and always answers with a refusal.
