------------------------- MODULE StorytimePublication --------------------------
(***************************************************************************)
(* Publication of the Chapters of one Storytime Story: the chapter rows,   *)
(* the cached publishedChapterCount of the story row, the creators' and    *)
(* moderators' handlers, and the job that publishes scheduled Chapters.    *)
(*                                                                         *)
(* A handler loads rows, awaits, and saves the whole entity it loaded.     *)
(* TypeORM's save is a SELECT of the stored row and then an UPDATE of the  *)
(* columns in which the entity differed from it: two statements, and what  *)
(* others write between them stays in every other column.  Only publish,   *)
(* unpublish and the job use a transaction, and that only around saving    *)
(* one Chapter and recounting: READ COMMITTED, no row read for update.     *)
(* `version` is compared when a row is loaded and never by the write: it   *)
(* refuses an update that then changes nothing, and is left out.           *)
(***************************************************************************)
EXTENDS Integers, FiniteSets

CONSTANTS
  Chapters,     \* chapter primary keys
  Texts, Blank, \* contents; the content that trims to nothing
  MaxTime,      \* bound on the clock
  Limit,        \* MAX_CHAPTERS_PER_STORY
  Requests,     \* request slots: how many handlers can run at once
  Cron,         \* the slot of the scheduled job
  Handlers,     \* the operations that can be called in a run
  None

Slots == Requests \cup {Cron}

ChapterStatus == {"DRAFT", "SCHEDULED", "PUBLISHED", "UNPUBLISHED"}
StoryStatus == {"DRAFT", "PUBLISHED", "UNPUBLISHED", "ARCHIVED"}

ChapterRow == [text: Texts, status: ChapterStatus, at: (1..MaxTime) \cup {None},
               removed: BOOLEAN, deleted: BOOLEAN]
StoryRow == [status: StoryStatus, removed: BOOLEAN, deleted: BOOLEAN, count: Nat]
Columns == {"text", "status", "at", "removed", "deleted"}
StoryColumns == {"status", "removed", "deleted", "count"}

ASSUME StoryAssumption ==
  /\ IsFiniteSet(Chapters)
  /\ Blank \in Texts
  /\ MaxTime \in Nat /\ Limit \in Nat
  /\ Cron \notin Requests
  /\ None \notin Chapters \cup Texts \cup (1..MaxTime) \cup ChapterRow \cup StoryRow

VARIABLES
  chapter,  \* storytime_chapter rows of the Story
  story,    \* the storytime_story row
  now,      \* the clock
  feed,     \* Chapters announced in the activity feed
  req,      \* the running handlers
  hist      \* history, read by no handler: see InitHist

vars == <<chapter, story, now, feed, req, hist>>

\* Where a handler stands: the statement it will execute next.
Pcs == {"idle", "insert", "save", "update", "queue", "tx", "txUpdate", "txCommit", "reopen",
        "announce", "deleteSave", "deleteUpdate", "softDelete", "recount", "writeCount",
        "saveStory", "updateStory", "deleteStorySave", "deleteStoryUpdate", "softDeleteStory"}

\* The pcs from the SELECT of a Chapter to the end of its transaction, and those of
\* the saves of a story entity.
InTransaction == {"tx", "txUpdate", "txCommit"}
SavingStory == {"saveStory", "updateStory", "deleteStorySave", "deleteStoryUpdate"}

\* rows: the chapter entities it holds and will save; dirty: the columns its save
\* found to differ; id: the Chapter it is working on; story, storyDirty: the same for
\* the story entity; n: the count it read.
Slot == [pc: Pcs, rows: [Chapters -> ChapterRow \cup {None}], dirty: [Chapters -> SUBSET Columns],
         id: Chapters \cup {None},
         story: StoryRow \cup {None}, storyDirty: SUBSET StoryColumns, n: Nat]

\* What each statement needs to have been loaded before it.
Filled(slot) ==
  /\ slot.pc \in InTransaction \cup {"reopen", "announce", "deleteSave", "deleteUpdate", "softDelete"}
       => slot.id \in Chapters
  /\ slot.pc \in InTransaction \cup {"deleteSave", "deleteUpdate"} => slot.rows[slot.id] # None
  /\ \A c \in Chapters : slot.rows[c] # None => chapter[c] # None
  /\ slot.pc = "softDelete" => chapter[slot.id] # None
  /\ slot.pc \in SavingStory => slot.story \in StoryRow

History == [asked: SUBSET Chapters, scheduled: SUBSET (Chapters \X (1..MaxTime)),
            out: SUBSET Chapters]

Nothing == [c \in Chapters |-> None]
Clean == [c \in Chapters |-> {}]
Idle == [pc |-> "idle", rows |-> Nothing, dirty |-> Clean, id |-> None,
         story |-> None, storyDirty |-> {}, n |-> 0]

\* asked: Chapters a creator published by hand; scheduled: the times they were
\* scheduled for; out: Chapters a transaction has made PUBLISHED.
InitHist == [asked |-> {}, scheduled |-> {}, out |-> {}]

Init ==
  /\ chapter = Nothing
  /\ story = [status |-> "DRAFT", removed |-> FALSE, deleted |-> FALSE, count |-> 0]
  /\ now = 0
  /\ feed = {}
  /\ req = [r \in Slots |-> Idle]
  /\ hist = InitHist

TypeOK ==
  /\ chapter \in [Chapters -> ChapterRow \cup {None}]
  /\ story \in StoryRow
  /\ now \in 0..MaxTime
  /\ feed \subseteq Chapters
  /\ req \in [Slots -> Slot]
  /\ \A r \in Slots : Filled(req[r])
  /\ hist \in History

--------------------------------------------------------------------------------
(* Queries.                                                                *)

Live(c) == chapter[c] # None /\ ~chapter[c].deleted

\* What the recount counts. Mutant of Counted: it forgets moderation.
CountedAnyhow(row) == row # None /\ row.status = "PUBLISHED" /\ ~row.deleted

Counted(row) == row # None /\ row.status = "PUBLISHED" /\ ~row.deleted /\ ~row.removed

CountOf(table) == Cardinality({c \in Chapters : Counted(table[c])})

\* isPubliclyReadable: what readers see once the Story is out.
Readable == {c \in Chapters : Live(c) /\ chapter[c].status = "PUBLISHED" /\ ~chapter[c].removed}

\* Mutants of Due: the query forgets the time; it only takes what falls due now.
DueAnyTime(row) == row # None /\ row.status = "SCHEDULED" /\ ~row.deleted
DueJustNow(row) == row # None /\ row.status = "SCHEDULED" /\ ~row.deleted /\ row.at = now

\* The query of publishDueChapters, which finds no row without a time.
Due(row) ==
  row # None /\ row.status = "SCHEDULED" /\ ~row.deleted /\ row.at # None /\ row.at <= now

\* The row is held by a transaction that has updated it and not committed.
Locked(c) == \E r \in Slots : req[r].pc = "txCommit" /\ req[r].id = c

--------------------------------------------------------------------------------
(* Steps of a handler.                                                     *)

At(r, pc) == req[r].pc = pc
Enter(r, slot) == req' = [req EXCEPT ![r] = slot]
Goto(r, pc) == req' = [req EXCEPT ![r].pc = pc]

\* A creator's handler returns; the job goes on to the next Chapter of its queue.
Finish(r) ==
  Enter(r, IF r = Cron
             THEN [req[r] EXCEPT !.pc = "queue", !.id = None, !.n = 0, !.dirty = Clean,
                     !.rows = IF req[r].id = None THEN @ ELSE [@ EXCEPT ![req[r].id] = None]]
             ELSE Idle)

\* The statements after a save need the id of the Chapter and no entity.
GoOn(r, pc) ==
  req' = [req EXCEPT ![r].pc = pc, ![r].rows[req[r].id] = None, ![r].dirty = Clean, ![r].n = 0]

Only(c, row) == [Nothing EXCEPT ![c] = row]

\* A request h begins, with the Story not deleted (findEditableOrFail, findOwnedOrFail).
Begins(r, h) == r \in Requests /\ h \in Handlers /\ At(r, "idle") /\ ~story.deleted

\* A handler of one live Chapter has loaded it.
Loads(r, h, c) == Begins(r, h) /\ Live(c)

\* assertPublishable of a Chapter.
Publishable(c) == ~chapter[c].removed /\ chapter[c].text # Blank

\* The handler goes on with the entity of c as it will save it.
Holds(r, pc, c, row) == Enter(r, [Idle EXCEPT !.pc = pc, !.id = c, !.rows = Only(c, row)])

\* The same for the story entity.
HoldsStory(r, pc, row) == Enter(r, [Idle EXCEPT !.pc = pc, !.story = row])

Unstored == UNCHANGED <<chapter, story, now, feed>>

\* The two halves of a save: the columns in which the entity differs from the stored
\* row, and the row once they are written.
Differing(entity, stored, columns) == {f \in columns : entity[f] # stored[f]}
Updated(row, entity, dirty) == [f \in DOMAIN row |-> IF f \in dirty THEN entity[f] ELSE row[f]]

\* The handler saves this Chapter: its own, or every one it holds.
Saves(r, c) == req[r].rows[c] # None /\ req[r].id \in {None, c}
Written(r, c) == Updated(chapter[c], req[r].rows[c], req[r].dirty[c])

--------------------------------------------------------------------------------
(* Creating, editing and deleting Chapters.                                *)

\* create, up to the insert: assertWithinChapterLimit.
CreateChapter(r) ==
  /\ Begins(r, "CreateChapter")
  /\ Cardinality({c \in Chapters : Live(c)}) < Limit
  /\ Enter(r, [Idle EXCEPT !.pc = "insert"])
  /\ Unstored /\ UNCHANGED hist

InsertChapter(r) ==
  /\ At(r, "insert")
  /\ \E c \in Chapters, t \in Texts :
       /\ chapter[c] = None
       /\ chapter' = [chapter EXCEPT ![c] =
            [text |-> t, status |-> "DRAFT", at |-> None, removed |-> FALSE, deleted |-> FALSE]]
  /\ Finish(r)
  /\ UNCHANGED <<story, now, feed, hist>>

\* update, up to the save. The version the editor sent is the one loaded; an
\* update refused by assertVersionMatches changes nothing.
UpdateChapter(r) ==
  /\ \E c \in Chapters, t \in Texts :
       /\ Loads(r, "UpdateChapter", c)
       /\ Holds(r, "save", c, [chapter[c] EXCEPT !.text = t])
  /\ Unstored /\ UNCHANGED hist

\* setCoverImage and clearCoverImage change columns no property reads.
SetCoverImage(r) ==
  /\ \E c \in Chapters : Loads(r, "SetCoverImage", c) /\ Holds(r, "save", c, chapter[c])
  /\ Unstored /\ UNCHANGED hist

\* reorder loads every live Chapter and saves them all.
ReorderChapters(r) ==
  /\ Begins(r, "ReorderChapters")
  /\ Enter(r, [Idle EXCEPT !.pc = "save",
                           !.rows = [c \in Chapters |-> IF Live(c) THEN chapter[c] ELSE None]])
  /\ Unstored /\ UNCHANGED hist

\* Repository.save of the chapter entities the handler holds, in or out of a
\* transaction: first the SELECT, which waits for no lock.
SelectRows(r) ==
  /\ At(r, "save") \/ At(r, "tx") \/ At(r, "deleteSave")
  /\ req' = [req EXCEPT
       ![r].pc = CASE @ = "save" -> "update" [] @ = "tx" -> "txUpdate" [] OTHER -> "deleteUpdate",
       ![r].dirty = [c \in Chapters |-> IF Saves(r, c) THEN Differing(req[r].rows[c], chapter[c], Columns)
                                        ELSE {}]]
  /\ Unstored /\ UNCHANGED hist

\* Then the UPDATE.
UpdateRows(r) ==
  /\ At(r, "update") \/ At(r, "deleteUpdate")
  /\ \A c \in Chapters : Saves(r, c) => ~Locked(c)
  /\ chapter' = [c \in Chapters |-> IF Saves(r, c) THEN Written(r, c) ELSE chapter[c]]
  /\ IF At(r, "deleteUpdate") THEN GoOn(r, "softDelete") ELSE Finish(r)
  /\ UNCHANGED <<story, now, feed, hist>>

\* remove saves deletedByUserId, soft-deletes, then recounts.
DeleteChapter(r) ==
  /\ \E c \in Chapters : Loads(r, "DeleteChapter", c) /\ Holds(r, "deleteSave", c, chapter[c])
  /\ Unstored /\ UNCHANGED hist

SoftDelete(r) ==
  /\ At(r, "softDelete")
  /\ ~Locked(req[r].id)
  /\ chapter' = [chapter EXCEPT ![req[r].id].deleted = TRUE]
  /\ Goto(r, "recount")
  /\ UNCHANGED <<story, now, feed, hist>>

\* recalculateStoryChapterCount: two statements outside a transaction.
Recount(r) ==
  /\ At(r, "recount")
  /\ req' = [req EXCEPT ![r].pc = "writeCount", ![r].n = CountOf(chapter)]
  /\ Unstored /\ UNCHANGED hist

WriteCount(r) ==
  /\ At(r, "writeCount")
  /\ story' = [story EXCEPT !.count = req[r].n]
  /\ Finish(r)
  /\ UNCHANGED <<chapter, now, feed, hist>>

--------------------------------------------------------------------------------
(* Publishing, withdrawing and scheduling Chapters.                        *)

\* Mutant of Published: the schedule is kept.
PublishedStillDue(row) == [row EXCEPT !.status = "PUBLISHED"]

Published(row) == [row EXCEPT !.status = "PUBLISHED", !.at = None]

\* publish, up to its transaction.
PublishChapter(r) ==
  /\ \E c \in Chapters :
       /\ Loads(r, "PublishChapter", c)
       /\ Publishable(c)
       /\ chapter[c].status # "PUBLISHED"
       /\ Holds(r, "tx", c, Published(chapter[c]))
       /\ hist' = [hist EXCEPT !.asked = @ \cup {c}]
  /\ Unstored

UnpublishChapter(r) ==
  /\ \E c \in Chapters :
       /\ Loads(r, "UnpublishChapter", c)
       /\ chapter[c].status = "PUBLISHED"
       /\ Holds(r, "tx", c, [chapter[c] EXCEPT !.status = "UNPUBLISHED"])
  /\ Unstored /\ UNCHANGED hist

\* schedule: in the future, and whatever the Chapter's status was.
ScheduleChapter(r) ==
  /\ \E c \in Chapters, t \in 1..MaxTime :
       /\ Loads(r, "ScheduleChapter", c)
       /\ Publishable(c)
       /\ t > now
       /\ Holds(r, "save", c, [chapter[c] EXCEPT !.status = "SCHEDULED", !.at = t])
       /\ hist' = [hist EXCEPT !.scheduled = @ \cup {<<c, t>>}]
  /\ Unstored

\* Mutant of TxUpdate: the announcement is made inside the transaction.
TxUpdateAnnouncing(r) ==
  /\ At(r, "txUpdate")
  /\ LET c == req[r].id
     IN  /\ ~Locked(c)
         /\ req' = [req EXCEPT ![r].pc = "txCommit",
                               ![r].n = CountOf([chapter EXCEPT ![c] = Written(r, c)])]
         /\ feed' = feed \cup {c}
  /\ UNCHANGED <<chapter, story, now, hist>>

\* saveWithStoryCount from the UPDATE of its save up to its commit: the row is
\* updated and locked, and the count sees the committed rows and this transaction's own.
TxUpdate(r) ==
  /\ At(r, "txUpdate")
  /\ LET c == req[r].id
     IN  /\ ~Locked(c)
         /\ req' = [req EXCEPT ![r].pc = "txCommit",
                               ![r].n = CountOf([chapter EXCEPT ![c] = Written(r, c)])]
  /\ Unstored /\ UNCHANGED hist

\* The commit. A publication goes on to its readers and the feed.
TxCommit(r) ==
  /\ At(r, "txCommit")
  /\ LET c == req[r].id
         row == req[r].rows[c]
     IN  /\ chapter' = [chapter EXCEPT ![c] = Written(r, c)]
         /\ story' = [story EXCEPT !.count = req[r].n]
         /\ IF row.status = "PUBLISHED"
              THEN GoOn(r, "reopen") /\ hist' = [hist EXCEPT !.out = @ \cup {c}]
              ELSE Finish(r) /\ UNCHANGED hist
  /\ UNCHANGED <<now, feed>>

\* reopenCompletedReaders. Its failure is swallowed by publish, and ends the
\* job's work on this Chapter.
Reopen(r) ==
  /\ At(r, "reopen")
  /\ \/ Goto(r, "announce")
     \/ "ReopenFails" \in Handlers /\ (IF r = Cron THEN Finish(r) ELSE Goto(r, "announce"))
  /\ Unstored /\ UNCHANGED hist

\* recordQuietly: a failure is logged and nothing else.
Announce(r) ==
  /\ At(r, "announce")
  /\ \/ feed' = feed \cup {req[r].id}
     \/ "FeedFails" \in Handlers /\ UNCHANGED feed
  /\ Finish(r)
  /\ UNCHANGED <<chapter, story, now, hist>>

\* The job every five minutes: publishDueChapters loads the queue.
RunScheduler ==
  /\ At(Cron, "idle")
  /\ \E c \in Chapters : Due(chapter[c])
  /\ Enter(Cron, [Idle EXCEPT !.pc = "queue",
                    !.rows = [c \in Chapters |-> IF Due(chapter[c]) THEN chapter[c] ELSE None]])
  /\ Unstored /\ UNCHANGED hist

\* The next Chapter of the queue, as it was loaded; the end of the run.
NextDue ==
  /\ At(Cron, "queue")
  /\ \/ \E c \in Chapters :
          /\ req[Cron].rows[c] # None
          /\ Enter(Cron, [req[Cron] EXCEPT !.pc = "tx", !.id = c, !.rows[c] = Published(@)])
     \/ req[Cron].rows = Nothing /\ Enter(Cron, Idle)
  /\ Unstored /\ UNCHANGED hist

--------------------------------------------------------------------------------
(* Moderation.                                                             *)

\* remove and restore: the loaded entity with its moderation status turned.
ModerateChapter(r) ==
  /\ r \in Requests /\ "ModerateChapter" \in Handlers /\ At(r, "idle")
  /\ \E c \in Chapters :
       Live(c) /\ Holds(r, "save", c, [chapter[c] EXCEPT !.removed = ~@])
  /\ Unstored /\ UNCHANGED hist

ModerateStory(r) ==
  /\ Begins(r, "ModerateStory")
  /\ HoldsStory(r, "saveStory", [story EXCEPT !.removed = ~@])
  /\ Unstored /\ UNCHANGED hist

--------------------------------------------------------------------------------
(* The Story itself.                                                       *)

\* update, setImage, clearImage, acceptContentPolicy, reorder: the loaded row,
\* with columns changed that no property reads.
EditStory(r) ==
  /\ Begins(r, "EditStory")
  /\ HoldsStory(r, "saveStory", story)
  /\ Unstored /\ UNCHANGED hist

\* Mutant of StoryPublishable: the count is not looked at.
StoryPublishableEmpty(row) == ~row.removed

\* assertPublishable of a Story, its description and terms being in order.
StoryPublishable(row) == ~row.removed /\ row.count >= 1

PublishStory(r) ==
  /\ Begins(r, "PublishStory")
  /\ StoryPublishable(story)
  /\ HoldsStory(r, "saveStory", [story EXCEPT !.status = "PUBLISHED"])
  /\ Unstored /\ UNCHANGED hist

\* unpublish and archive.
WithdrawStory(r) ==
  /\ Begins(r, "WithdrawStory")
  /\ \E s \in {"UNPUBLISHED", "ARCHIVED"} : HoldsStory(r, "saveStory", [story EXCEPT !.status = s])
  /\ Unstored /\ UNCHANGED hist

DeleteStory(r) ==
  /\ Begins(r, "DeleteStory")
  /\ HoldsStory(r, "deleteStorySave", story)
  /\ Unstored /\ UNCHANGED hist

\* Repository.save of the story entity the handler holds, its count included.
SelectStory(r) ==
  /\ At(r, "saveStory") \/ At(r, "deleteStorySave")
  /\ req' = [req EXCEPT ![r].pc = IF @ = "saveStory" THEN "updateStory" ELSE "deleteStoryUpdate",
                        ![r].storyDirty = Differing(req[r].story, story, StoryColumns)]
  /\ Unstored /\ UNCHANGED hist

UpdateStory(r) ==
  /\ At(r, "updateStory") \/ At(r, "deleteStoryUpdate")
  /\ story' = Updated(story, req[r].story, req[r].storyDirty)
  /\ IF At(r, "deleteStoryUpdate") THEN Goto(r, "softDeleteStory") ELSE Finish(r)
  /\ UNCHANGED <<chapter, now, feed, hist>>

SoftDeleteStory(r) ==
  /\ At(r, "softDeleteStory")
  /\ story' = [story EXCEPT !.deleted = TRUE]
  /\ Finish(r)
  /\ UNCHANGED <<chapter, now, feed, hist>>

--------------------------------------------------------------------------------
(* The rest of the world.                                                  *)

Tick ==
  /\ now < MaxTime
  /\ now' = now + 1
  /\ UNCHANGED <<chapter, story, feed, req, hist>>

\* A statement fails: the handler throws, the job catches it and goes on, and
\* an open transaction rolls back.
Fail(r) ==
  /\ "Fail" \in Handlers
  /\ ~At(r, "idle") /\ ~At(r, "queue")
  /\ Finish(r)
  /\ Unstored /\ UNCHANGED hist

\* The process dies.
Crash ==
  /\ "Crash" \in Handlers
  /\ req' = [r \in Slots |-> Idle]
  /\ Unstored /\ UNCHANGED hist

Handler(r) ==
  \/ CreateChapter(r) \/ UpdateChapter(r) \/ SetCoverImage(r) \/ ReorderChapters(r)
  \/ DeleteChapter(r) \/ PublishChapter(r) \/ UnpublishChapter(r) \/ ScheduleChapter(r)
  \/ ModerateChapter(r) \/ ModerateStory(r)
  \/ EditStory(r) \/ PublishStory(r) \/ WithdrawStory(r) \/ DeleteStory(r)

Step(r) ==
  \/ InsertChapter(r) \/ SelectRows(r) \/ UpdateRows(r) \/ SoftDelete(r)
  \/ Recount(r) \/ WriteCount(r) \/ TxUpdate(r) \/ TxCommit(r) \/ Reopen(r) \/ Announce(r)
  \/ SelectStory(r) \/ UpdateStory(r) \/ SoftDeleteStory(r)

Next ==
  \/ \E r \in Requests : Handler(r)
  \/ \E r \in Slots : Step(r) \/ Fail(r)
  \/ RunScheduler \/ NextDue
  \/ Tick \/ Crash

Spec == Init /\ [][Next]_vars

\* The job runs every five minutes, a statement that began ends, and PostgreSQL
\* gives a row lock to those who wait for it in their order.
FairSpec ==
  /\ Spec
  /\ WF_vars(RunScheduler) /\ WF_vars(NextDue)
  /\ \A r \in Slots : WF_vars(Step(r))
  /\ SF_vars(TxUpdate(Cron))

--------------------------------------------------------------------------------
(* Properties.                                                             *)

\* A Chapter is public only because its creator published it or a time it was
\* scheduled for has come, whatever stale rows are saved in between.
PublicationEarned ==
  \A c \in Chapters : chapter[c] # None /\ chapter[c].status = "PUBLISHED" =>
    c \in hist.asked \/ \E t \in 1..now : <<c, t>> \in hist.scheduled

\* A Chapter waits for the job exactly when it has a time to wait for: none is
\* stranded without one, and none that went out is still "due to publish
\* automatically" (chapter.dto.ts).  One handler at a time keeps it (StorySerial);
\* a creator who reschedules while the job publishes breaks it.
ScheduleConsistent ==
  \A c \in Chapters : chapter[c] # None =>
    (chapter[c].status = "SCHEDULED" <=> chapter[c].at # None)

\* A Story goes out only after one of its Chapters did (assertPublishable reads
\* the cached count, which overlapping handlers may have left wrong).
StoryEarned == story.status = "PUBLISHED" => hist.out # {}

\* The feed announces no Chapter whose publication was rolled back.
AnnouncedWentOut == feed \subseteq hist.out

Overdue(c) ==
  LET row == chapter[c] IN
  row # None /\ row.status = "SCHEDULED" /\ ~row.deleted /\ row.at \in 1..now

\* Every Chapter whose time has come leaves the queue: it is published, deleted
\* or rescheduled, although the job works from rows it loaded before.
DueGoesOut == \A c \in Chapters : Overdue(c) ~> ~Overdue(c)

\* The comment on recalculateStoryChapterCount and the API documentation: at
\* rest the cached count is the number of Chapters readers can see.
CountAtRest == (\A r \in Slots : At(r, "idle")) => story.count = Cardinality(Readable)
================================================================================
