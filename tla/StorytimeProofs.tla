---------------------------- MODULE StorytimeProofs ----------------------------
(***************************************************************************)
(* TLAPS proofs about StorytimePublication, for any finite set of Chapters,*)
(* any number of concurrent handlers and any bound on the clock.           *)
(***************************************************************************)
EXTENDS StorySerial, FiniteSetTheorems, TLAPS

USE StoryAssumption

--------------------------------------------------------------------------------
(* Slots.                                                                  *)

\* The facts about a state that the steps read.
LEMMA StateFacts ==
  ASSUME TypeOK
  PROVE  /\ req \in [Slots -> Slot] /\ \A q \in Slots : req[q] \in Slot /\ Filled(req[q])
         /\ chapter \in [Chapters -> ChapterRow \cup {None}]
         /\ story \in StoryRow /\ now \in 0..MaxTime /\ feed \subseteq Chapters
         /\ hist \in History
         /\ \A c \in Chapters : chapter[c] # None => chapter[c] \in ChapterRow
         /\ \A q \in Slots, c \in Chapters :
              req[q].rows[c] # None => req[q].rows[c] \in ChapterRow
  BY DEF TypeOK, Slot

LEMMA SlotsFacts == Cron \in Slots /\ Requests \subseteq Slots /\ \A r \in Requests : r # Cron
  BY DEF Slots

LEMMA IdleTyped ==
  /\ Idle \in Slot /\ Nothing \in [Chapters -> ChapterRow \cup {None}]
  /\ Clean \in [Chapters -> SUBSET Columns]
  BY DEF Idle, Nothing, Clean, Slot, Pcs

\* A Chapter's row alone among the rows a handler holds.
LEMMA OnlyTyped ==
  ASSUME NEW c \in Chapters, NEW entity \in ChapterRow
  PROVE  /\ Only(c, entity) \in [Chapters -> ChapterRow \cup {None}]
         /\ Only(c, entity)[c] = entity
         /\ \A d \in Chapters : d # c => Only(c, entity)[d] = None
  BY DEF Only, Nothing

\* A row once some of its columns are written, for Chapters and for the Story.
LEMMA UpdatedRow ==
  ASSUME NEW row \in ChapterRow, NEW entity \in ChapterRow, NEW dirty
  PROVE  /\ Updated(row, entity, dirty) \in ChapterRow
         /\ Updated(row, entity, dirty).status = IF "status" \in dirty THEN entity.status ELSE row.status
         /\ Updated(row, entity, dirty).at = IF "at" \in dirty THEN entity.at ELSE row.at
  BY DEF Updated, ChapterRow

LEMMA UpdatedStory ==
  ASSUME NEW row \in StoryRow, NEW entity \in StoryRow, NEW dirty
  PROVE  /\ Updated(row, entity, dirty) \in StoryRow
         /\ Updated(row, entity, dirty).status \in {entity.status, row.status}
         /\ Updated(row, entity, dirty).count \in {entity.count, row.count}
  BY DEF Updated, StoryRow

LEMMA WrittenTyped ==
  ASSUME TypeOK, NEW q \in Slots, NEW c \in Chapters, req[q].rows[c] # None
  PROVE  /\ Written(q, c) \in ChapterRow /\ Written(q, c) # None
         /\ Written(q, c).status \in {req[q].rows[c].status, chapter[c].status}
         /\ Written(q, c).at \in {req[q].rows[c].at, chapter[c].at}
<1>1. chapter[c] # None /\ chapter[c] \in ChapterRow /\ req[q].rows[c] \in ChapterRow
  BY StateFacts DEF Filled
<1> QED
  BY <1>1, UpdatedRow DEF Written

\* The recount is a number.
LEMMA CountTyped ==
  ASSUME NEW table
  PROVE  CountOf(table) \in Nat
<1>1. IsFiniteSet({c \in Chapters : Counted(table[c])})
  BY FS_Subset
<1> QED
  BY <1>1, FS_CardinalityType DEF CountOf

\* The tables may change, but no key in use becomes free.
Kept ==
  /\ chapter' \in [Chapters -> ChapterRow \cup {None}]
  /\ story' \in StoryRow
  /\ now' \in 0..MaxTime
  /\ feed' \subseteq Chapters
  /\ hist' \in History
  /\ \A c \in Chapters : chapter[c] # None => chapter'[c] # None

LEMMA QuietKept ==
  ASSUME TypeOK, Unstored, hist' \in History
  PROVE  Kept
  BY StateFacts DEF Kept, Unstored

\* How every step is shown to keep the types.
LEMMA TypedBy ==
  ASSUME TypeOK, NEW r \in Slots, NEW slot \in Slot, Enter(r, slot), Filled(slot)', Kept
  PROVE  TypeOK'
<1>1. req' \in [Slots -> Slot]
  BY StateFacts DEF Enter
<1>2. \A q \in Slots : req'[q] = IF q = r THEN slot ELSE req[q]
  BY StateFacts DEF Enter
<1>3. \A s \in Slot : Filled(s) => Filled(s)'
  BY DEF Filled, Kept
<1>4. ASSUME NEW q \in Slots PROVE Filled(req[q])'
  <2>1. CASE q = r
    <3>1. req'[q] = slot
      BY <1>2, <2>1
    <3> QED
      BY <3>1 DEF Filled
  <2>2. CASE q # r
    <3>1. req'[q] = req[q] /\ Filled(req[q])
      BY <1>2, <2>2, StateFacts
    <3> QED
      BY <1>3, <3>1, StateFacts DEF Filled
  <2> QED
    BY <2>1, <2>2
<1> QED
  BY <1>1, <1>4 DEF TypeOK, Kept

\* A handler that ends, or the job going on to its next Chapter.
LEMMA FinishKeeps ==
  ASSUME TypeOK, NEW r \in Slots, Finish(r), Kept
  PROVE  TypeOK'
<1>1. CASE r = Cron
  <2> DEFINE left == IF req[r].id = None THEN req[r].rows
                       ELSE [req[r].rows EXCEPT ![req[r].id] = None]
             next == [req[r] EXCEPT !.pc = "queue", !.id = None, !.n = 0, !.dirty = Clean, !.rows = left]
  <2>1. left \in [Chapters -> ChapterRow \cup {None}]
    BY StateFacts DEF Slot
  <2>2. next \in Slot /\ next.pc = "queue" /\ \A c \in Chapters : next.rows[c] # None => chapter'[c] # None
    <3>1. \A c \in Chapters : left[c] # None => chapter'[c] # None
      BY StateFacts DEF Slot, Filled, Kept
    <3> HIDE DEF left
    <3>2. req[r] \in Slot
      BY StateFacts
    <3>3. next.rows = left
      BY <3>2 DEF Slot
    <3> QED
      BY <2>1, <3>1, <3>2, <3>3, IdleTyped DEF Slot, Pcs
  <2>3. Enter(r, next)
    BY <1>1, StateFacts DEF Finish
  <2> HIDE DEF next
  <2>4. PICK slot \in Slot : slot = next
    BY <2>2
  <2>5. Filled(slot)'
    BY <2>2, <2>4 DEF Filled, InTransaction, SavingStory
  <2> QED
    BY <2>3, <2>4, <2>5, TypedBy
<1>2. CASE r # Cron
  <2>1. PICK slot \in Slot : slot = Idle
    BY IdleTyped
  <2>2. Filled(slot)'
    BY <2>1 DEF Idle, Filled, Nothing, InTransaction, SavingStory
  <2>3. Enter(r, slot)
    BY <1>2, <2>1 DEF Finish
  <2> QED
    BY <2>2, <2>3, TypedBy
<1> QED
  BY <1>1, <1>2

\* A handler that moves to its next statement with the same slot.
LEMMA GotoKeeps ==
  ASSUME TypeOK, NEW r \in Slots, NEW pc \in Pcs, Goto(r, pc), Kept,
         \/ pc = "announce" /\ At(r, "reopen")
         \/ pc \in {"recount", "softDeleteStory"}
  PROVE  TypeOK'
<1>1. [req[r] EXCEPT !.pc = pc] \in Slot
  BY StateFacts DEF Slot
<1>2. PICK slot \in Slot : slot = [req[r] EXCEPT !.pc = pc]
  BY <1>1
<1>3. slot.pc = pc /\ slot.id = req[r].id /\ slot.rows = req[r].rows /\ slot.story = req[r].story
  BY <1>2, StateFacts DEF Slot
<1>4. Filled(slot)'
  BY <1>3, StateFacts DEF Filled, At, Kept, InTransaction, SavingStory
<1>5. Enter(r, slot)
  BY <1>2 DEF Goto, Enter
<1> QED
  BY <1>4, <1>5, TypedBy

\* A handler that goes on after its save with no entity.
LEMMA GoOnKeeps ==
  ASSUME TypeOK, NEW r \in Slots, NEW pc \in {"softDelete", "reopen"}, GoOn(r, pc), Kept,
         req[r].id \in Chapters, chapter[req[r].id] # None
  PROVE  TypeOK'
<1> DEFINE left == [req[r].rows EXCEPT ![req[r].id] = None]
           next == [req[r] EXCEPT !.pc = pc, !.rows = left, !.dirty = Clean, !.n = 0]
<1>1. /\ left \in [Chapters -> ChapterRow \cup {None}]
      /\ \A c \in Chapters : left[c] # None => chapter[c] # None
  BY StateFacts DEF Slot, Filled
<1>2. req' = [req EXCEPT ![r] = next]
  BY StateFacts, ZenonT(60) DEF GoOn, Slot
<1> HIDE DEF left
<1>3. next \in Slot /\ next.pc = pc /\ next.id = req[r].id /\ next.rows = left
  BY <1>1, IdleTyped, StateFacts DEF Slot, Pcs
<1> HIDE DEF next
<1>4. PICK slot \in Slot : slot = next
  BY <1>3
<1>5. Filled(slot)'
  BY <1>1, <1>3, <1>4 DEF Filled, Kept, InTransaction, SavingStory
<1> QED
  BY <1>2, <1>4, <1>5, TypedBy DEF Enter

\* A handler that has loaded one Chapter.
LEMMA HoldsKeeps ==
  ASSUME TypeOK, NEW r \in Slots, NEW c \in Chapters, NEW entity \in ChapterRow,
         NEW pc \in {"save", "tx", "deleteSave"}, Holds(r, pc, c, entity), Kept,
         chapter[c] # None
  PROVE  TypeOK'
<1> DEFINE held == Only(c, entity)
<1>1. /\ held \in [Chapters -> ChapterRow \cup {None}] /\ held[c] # None
      /\ \A d \in Chapters : held[d] # None => chapter'[d] # None
  BY OnlyTyped DEF Kept
<1> HIDE DEF held
<1>2. [Idle EXCEPT !.pc = pc, !.id = c, !.rows = held] \in Slot
  BY <1>1, IdleTyped DEF Slot, Pcs
<1>3. PICK slot \in Slot : slot = [Idle EXCEPT !.pc = pc, !.id = c, !.rows = held]
  BY <1>2
<1>4. Filled(slot)'
  BY <1>1, <1>3 DEF Filled, Idle, InTransaction, SavingStory
<1>5. Enter(r, slot)
  BY <1>3 DEF Holds, held
<1> QED
  BY <1>4, <1>5, TypedBy

\* A handler that has loaded the Story.
LEMMA HoldsStoryKeeps ==
  ASSUME TypeOK, NEW r \in Slots, NEW entity \in StoryRow,
         NEW pc \in {"saveStory", "deleteStorySave"}, HoldsStory(r, pc, entity), Kept
  PROVE  TypeOK'
<1>1. [Idle EXCEPT !.pc = pc, !.story = entity] \in Slot
  BY IdleTyped DEF Slot, Pcs
<1>2. PICK slot \in Slot : slot = [Idle EXCEPT !.pc = pc, !.story = entity]
  BY <1>1
<1>3. Filled(slot)'
  BY <1>2 DEF Filled, Idle, Nothing, InTransaction, SavingStory
<1> QED
  BY <1>2, <1>3, TypedBy DEF HoldsStory

LEMMA InitTyped == Init => TypeOK
  BY IdleTyped DEF Init, TypeOK, InitHist, History, Filled, Idle, Nothing, StoryRow, StoryStatus,
     InTransaction, SavingStory

--------------------------------------------------------------------------------
(* Typing, action by action.                                               *)

\* A handler that ends without having written.
LEMMA QuietFinish ==
  ASSUME TypeOK, NEW r \in Slots, Finish(r), Unstored, UNCHANGED hist
  PROVE  TypeOK'
  BY StateFacts, QuietKept, FinishKeeps

\* A handler that begins by loading one Chapter and holds an entity of it.
LEMMA LoadTyped ==
  ASSUME TypeOK, NEW r \in Slots, NEW c \in Chapters, NEW entity \in ChapterRow,
         NEW pc \in {"save", "tx", "deleteSave"}, Holds(r, pc, c, entity), Live(c),
         Unstored, hist' \in History
  PROVE  TypeOK'
  BY QuietKept, HoldsKeeps DEF Live

LEMMA LiveTyped ==
  ASSUME TypeOK, NEW c \in Chapters, Live(c)
  PROVE  chapter[c] \in ChapterRow /\ chapter[c] # None
  BY StateFacts DEF Live

LEMMA ChapterHandlersTyped ==
  ASSUME TypeOK, NEW r \in Requests,
         \/ SetCoverImage(r) \/ DeleteChapter(r) \/ PublishChapter(r) \/ UnpublishChapter(r)
         \/ ScheduleChapter(r) \/ ModerateChapter(r)
  PROVE  TypeOK'
<1>1. r \in Slots
  BY SlotsFacts
<1>2. CASE SetCoverImage(r)
  BY <1>1, <1>2, LiveTyped, LoadTyped, StateFacts DEF SetCoverImage, Loads
<1>3. CASE DeleteChapter(r)
  BY <1>1, <1>3, LiveTyped, LoadTyped, StateFacts DEF DeleteChapter, Loads
<1>4. CASE PublishChapter(r)
  <2>1. PICK c \in Chapters : /\ Live(c) /\ Holds(r, "tx", c, Published(chapter[c]))
                              /\ hist' = [hist EXCEPT !.asked = @ \cup {c}] /\ Unstored
    BY <1>4 DEF PublishChapter, Loads
  <2>2. Published(chapter[c]) \in ChapterRow
    BY <2>1, LiveTyped DEF Published, ChapterRow, ChapterStatus
  <2>3. hist' \in History
    BY <2>1, StateFacts DEF History
  <2> QED
    BY <1>1, <2>1, <2>2, <2>3, LoadTyped
<1>5. CASE UnpublishChapter(r)
  <2>1. PICK c \in Chapters : /\ Live(c)
                              /\ Holds(r, "tx", c, [chapter[c] EXCEPT !.status = "UNPUBLISHED"])
    BY <1>5 DEF UnpublishChapter, Loads
  <2>2. [chapter[c] EXCEPT !.status = "UNPUBLISHED"] \in ChapterRow
    BY <2>1, LiveTyped DEF ChapterRow, ChapterStatus
  <2> QED
    BY <1>1, <1>5, <2>1, <2>2, StateFacts, LoadTyped DEF UnpublishChapter
<1>6. CASE ScheduleChapter(r)
  <2>1. PICK c \in Chapters, t \in 1..MaxTime :
          /\ Live(c)
          /\ Holds(r, "save", c, [chapter[c] EXCEPT !.status = "SCHEDULED", !.at = t])
          /\ hist' = [hist EXCEPT !.scheduled = @ \cup {<<c, t>>}] /\ Unstored
    BY <1>6 DEF ScheduleChapter, Loads
  <2>2. [chapter[c] EXCEPT !.status = "SCHEDULED", !.at = t] \in ChapterRow
    BY <2>1, LiveTyped DEF ChapterRow, ChapterStatus
  <2>3. hist' \in History
    BY <2>1, StateFacts DEF History
  <2> QED
    BY <1>1, <2>1, <2>2, <2>3, LoadTyped
<1>7. CASE ModerateChapter(r)
  <2>1. PICK c \in Chapters : /\ Live(c)
                              /\ Holds(r, "save", c, [chapter[c] EXCEPT !.removed = ~@])
    BY <1>7 DEF ModerateChapter
  <2>2. [chapter[c] EXCEPT !.removed = ~@] \in ChapterRow
    BY <2>1, LiveTyped DEF ChapterRow
  <2> QED
    BY <1>1, <1>7, <2>1, <2>2, StateFacts, LoadTyped DEF ModerateChapter
<1> QED
  BY <1>2, <1>3, <1>4, <1>5, <1>6, <1>7

LEMMA CreateTyped ==
  ASSUME TypeOK, NEW r \in Requests, CreateChapter(r)
  PROVE  TypeOK'
<1>1. PICK slot \in Slot : slot = [Idle EXCEPT !.pc = "insert"]
  BY IdleTyped DEF Slot, Pcs
<1>2. Filled(slot)'
  BY <1>1 DEF Filled, Idle, Nothing, InTransaction, SavingStory
<1> QED
  BY <1>1, <1>2, SlotsFacts, StateFacts, QuietKept, TypedBy DEF CreateChapter

LEMMA UpdateTyped ==
  ASSUME TypeOK, NEW r \in Requests, UpdateChapter(r)
  PROVE  TypeOK'
<1>1. PICK c \in Chapters, t \in Texts :
        Live(c) /\ Holds(r, "save", c, [chapter[c] EXCEPT !.text = t])
  BY DEF UpdateChapter, Loads
<1>2. [chapter[c] EXCEPT !.text = t] \in ChapterRow
  BY <1>1, LiveTyped DEF ChapterRow
<1> QED
  BY <1>1, <1>2, SlotsFacts, StateFacts, LoadTyped DEF UpdateChapter

\* reorder and the job take every row that meets a condition.
LEMMA QueueTyped ==
  ASSUME TypeOK, NEW r \in Slots, NEW S \in SUBSET Chapters, \A c \in S : chapter[c] # None,
         NEW pc \in {"save", "queue"}, Unstored, UNCHANGED hist,
         Enter(r, [Idle EXCEPT !.pc = pc,
                     !.rows = [c \in Chapters |-> IF c \in S THEN chapter[c] ELSE None]])
  PROVE  TypeOK'
<1> DEFINE queue == [c \in Chapters |-> IF c \in S THEN chapter[c] ELSE None]
<1>1. /\ queue \in [Chapters -> ChapterRow \cup {None}]
      /\ \A c \in Chapters : queue[c] # None => chapter'[c] # None
  BY StateFacts DEF Unstored
<1> HIDE DEF queue
<1>2. PICK slot \in Slot : slot = [Idle EXCEPT !.pc = pc, !.rows = queue]
  BY <1>1, IdleTyped DEF Slot, Pcs
<1>3. Filled(slot)'
  BY <1>1, <1>2 DEF Filled, Idle, InTransaction, SavingStory
<1>4. Enter(r, slot)
  BY <1>2 DEF queue
<1> QED
  BY <1>3, <1>4, StateFacts, QuietKept, TypedBy

LEMMA ReorderTyped ==
  ASSUME TypeOK, NEW r \in Requests, ReorderChapters(r)
  PROVE  TypeOK'
<1> DEFINE S == {c \in Chapters : Live(c)}
<1>1. [c \in Chapters |-> IF Live(c) THEN chapter[c] ELSE None]
        = [c \in Chapters |-> IF c \in S THEN chapter[c] ELSE None]
  OBVIOUS
<1>2. \A c \in S : chapter[c] # None
  BY DEF Live
<1> HIDE DEF S
<1>3. S \in SUBSET Chapters
  BY DEF S
<1>4. r \in Slots
  BY SlotsFacts
<1>5. Enter(r, [Idle EXCEPT !.pc = "save",
                            !.rows = [c \in Chapters |-> IF Live(c) THEN chapter[c] ELSE None]])
  BY DEF ReorderChapters
<1>6. Enter(r, [Idle EXCEPT !.pc = "save",
                            !.rows = [c \in Chapters |-> IF c \in S THEN chapter[c] ELSE None]])
  BY <1>1, <1>5
<1>7. Unstored /\ UNCHANGED hist
  BY DEF ReorderChapters
<1> QED
  BY <1>2, <1>3, <1>4, <1>6, <1>7, QueueTyped

LEMMA RunSchedulerTyped ==
  ASSUME TypeOK, RunScheduler
  PROVE  TypeOK'
<1> DEFINE S == {c \in Chapters : Due(chapter[c])}
<1>1. [c \in Chapters |-> IF Due(chapter[c]) THEN chapter[c] ELSE None]
        = [c \in Chapters |-> IF c \in S THEN chapter[c] ELSE None]
  OBVIOUS
<1>2. \A c \in S : chapter[c] # None
  BY DEF Due
<1> HIDE DEF S
<1>3. S \in SUBSET Chapters
  BY DEF S
<1> QED
  BY <1>1, <1>2, <1>3, SlotsFacts, QueueTyped DEF RunScheduler

LEMMA NextDueTyped ==
  ASSUME TypeOK, NextDue
  PROVE  TypeOK'
<1>1. CASE Enter(Cron, Idle)
  <2>1. PICK slot \in Slot : slot = Idle
    BY IdleTyped
  <2>2. Filled(slot)'
    BY <2>1 DEF Idle, Filled, Nothing, InTransaction, SavingStory
  <2> QED
    BY <1>1, <2>1, <2>2, SlotsFacts, StateFacts, QuietKept, TypedBy DEF NextDue
<1>2. ASSUME NEW c \in Chapters, req[Cron].rows[c] # None,
             Enter(Cron, [req[Cron] EXCEPT !.pc = "tx", !.id = c, !.rows[c] = Published(@)])
      PROVE  TypeOK'
  <2> DEFINE held == [req[Cron].rows EXCEPT ![c] = Published(req[Cron].rows[c])]
  <2>1. req[Cron].rows[c] \in ChapterRow /\ req[Cron] \in Slot
    BY <1>2, SlotsFacts, StateFacts
  <2>2. Published(req[Cron].rows[c]) \in ChapterRow
    BY <2>1 DEF Published, ChapterRow, ChapterStatus
  <2>3. /\ held \in [Chapters -> ChapterRow \cup {None}] /\ held[c] # None
        /\ \A d \in Chapters : held[d] # None => chapter'[d] # None
    BY <1>2, <2>1, <2>2, SlotsFacts, StateFacts DEF Slot, Filled, NextDue, Unstored
  <2>4. Enter(Cron, [req[Cron] EXCEPT !.pc = "tx", !.id = c, !.rows = held])
    BY <1>2, <2>1 DEF Slot
  <2> HIDE DEF held
  <2>5. PICK slot \in Slot : slot = [req[Cron] EXCEPT !.pc = "tx", !.id = c, !.rows = held]
    BY <2>1, <2>3 DEF Slot, Pcs
  <2>6. slot.pc = "tx" /\ slot.id = c /\ slot.rows = held
    BY <2>1, <2>5 DEF Slot
  <2>7. Filled(slot)'
    BY <2>3, <2>6 DEF Filled, InTransaction, SavingStory
  <2> QED
    BY <2>4, <2>5, <2>7, SlotsFacts, StateFacts, QuietKept, TypedBy DEF NextDue
<1> QED
  BY <1>1, <1>2 DEF NextDue

LEMMA StoryHandlersTyped ==
  ASSUME TypeOK, NEW r \in Requests,
         ModerateStory(r) \/ EditStory(r) \/ PublishStory(r) \/ WithdrawStory(r) \/ DeleteStory(r)
  PROVE  TypeOK'
<1>1. /\ story \in StoryRow
      /\ [story EXCEPT !.removed = ~@] \in StoryRow
      /\ \A s \in StoryStatus : [story EXCEPT !.status = s] \in StoryRow
  BY StateFacts DEF StoryRow
<1>2. Unstored /\ UNCHANGED hist
  BY DEF ModerateStory, EditStory, PublishStory, WithdrawStory, DeleteStory
<1>3. Kept
  BY <1>2, QuietKept, StateFacts
<1>4. \E pc \in {"saveStory", "deleteStorySave"}, entity \in StoryRow : HoldsStory(r, pc, entity)
  <2>1. CASE ModerateStory(r) \/ EditStory(r) \/ DeleteStory(r)
    BY <1>1, <2>1 DEF ModerateStory, EditStory, DeleteStory
  <2>2. CASE PublishStory(r)
    BY <1>1, <2>2 DEF PublishStory, StoryStatus
  <2>3. CASE WithdrawStory(r)
    BY <1>1, <2>3 DEF WithdrawStory, StoryStatus
  <2> QED
    BY <2>1, <2>2, <2>3
<1> QED
  BY <1>3, <1>4, SlotsFacts, HoldsStoryKeeps

LEMMA InsertTyped ==
  ASSUME TypeOK, NEW r \in Slots, InsertChapter(r)
  PROVE  TypeOK'
<1>1. PICK c \in Chapters, t \in Texts :
        chapter' = [chapter EXCEPT ![c] =
          [text |-> t, status |-> "DRAFT", at |-> None, removed |-> FALSE, deleted |-> FALSE]]
  BY DEF InsertChapter
<1> DEFINE fresh == [text |-> t, status |-> "DRAFT", at |-> None,
                     removed |-> FALSE, deleted |-> FALSE]
<1>2. fresh \in ChapterRow
  BY <1>1 DEF ChapterRow, ChapterStatus
<1> HIDE DEF fresh
<1>3. chapter' = [chapter EXCEPT ![c] = fresh]
  BY <1>1 DEF fresh
<1>4. fresh # None
  BY <1>2
<1>5. /\ chapter' \in [Chapters -> ChapterRow \cup {None}]
      /\ \A d \in Chapters : chapter'[d] = IF d = c THEN fresh ELSE chapter[d]
  BY <1>1, <1>2, <1>3, StateFacts
<1>6. Kept
  BY <1>4, <1>5, StateFacts DEF Kept, InsertChapter
<1> QED
  BY <1>6, FinishKeeps DEF InsertChapter

\* The statement of a save that finds the columns to write.
LEMMA SelectTyped ==
  ASSUME TypeOK, NEW r \in Slots, SelectRows(r) \/ SelectStory(r)
  PROVE  TypeOK'
<1>1. Kept
  BY StateFacts, QuietKept DEF SelectRows, SelectStory
<1>2. CASE SelectRows(r)
  <2>1. PICK pc \in {"update", "txUpdate", "deleteUpdate"}, dirty \in [Chapters -> SUBSET Columns] :
          /\ req' = [req EXCEPT ![r].pc = pc, ![r].dirty = dirty]
          /\ pc = "txUpdate" => At(r, "tx")
          /\ pc = "deleteUpdate" => At(r, "deleteSave")
    <3> DEFINE dirty == [c \in Chapters |-> IF Saves(r, c) THEN Differing(req[r].rows[c], chapter[c], Columns)
                                            ELSE {}]
    <3>1. dirty \in [Chapters -> SUBSET Columns]
      BY DEF Differing
    <3> HIDE DEF dirty
    <3>2. \E pc \in {"update", "txUpdate", "deleteUpdate"} :
            /\ req' = [req EXCEPT ![r].pc = pc, ![r].dirty = dirty]
            /\ pc = "txUpdate" => At(r, "tx")
            /\ pc = "deleteUpdate" => At(r, "deleteSave")
      BY <1>2 DEF SelectRows, dirty, At
    <3> QED
      BY <3>1, <3>2
  <2>2. PICK slot \in Slot : slot = [req[r] EXCEPT !.pc = pc, !.dirty = dirty]
    BY StateFacts, ZenonT(60) DEF Slot, Pcs
  <2>3. slot.pc = pc /\ slot.id = req[r].id /\ slot.rows = req[r].rows
    BY <2>2, StateFacts DEF Slot
  <2>4. Filled(slot)'
    BY <1>1, <2>1, <2>3, StateFacts DEF Filled, At, Kept, InTransaction, SavingStory
  <2>5. Enter(r, slot)
    BY <2>1, <2>2, StateFacts DEF Enter, Slot
  <2> QED
    BY <1>1, <2>4, <2>5, TypedBy
<1>3. CASE SelectStory(r)
  <2>1. PICK pc \in {"updateStory", "deleteStoryUpdate"}, dirty \in SUBSET StoryColumns :
          /\ req' = [req EXCEPT ![r].pc = pc, ![r].storyDirty = dirty]
          /\ At(r, "saveStory") \/ At(r, "deleteStorySave")
    <3>1. Differing(req[r].story, story, StoryColumns) \in SUBSET StoryColumns
      BY DEF Differing
    <3> QED
      BY <1>3, <3>1 DEF SelectStory
  <2>2. PICK slot \in Slot : slot = [req[r] EXCEPT !.pc = pc, !.storyDirty = dirty]
    BY StateFacts, ZenonT(60) DEF Slot, Pcs
  <2>3. slot.pc = pc /\ slot.id = req[r].id /\ slot.rows = req[r].rows /\ slot.story = req[r].story
    BY <2>2, StateFacts DEF Slot
  <2>4. Filled(slot)'
    BY <1>1, <2>1, <2>3, StateFacts DEF Filled, At, Kept, InTransaction, SavingStory
  <2>5. Enter(r, slot)
    BY <2>1, <2>2, StateFacts DEF Enter, Slot
  <2> QED
    BY <1>1, <2>4, <2>5, TypedBy
<1> QED
  BY <1>2, <1>3

LEMMA UpdateRowsTyped ==
  ASSUME TypeOK, NEW r \in Slots, UpdateRows(r)
  PROVE  TypeOK'
<1>1. chapter' = [c \in Chapters |-> IF Saves(r, c) THEN Written(r, c) ELSE chapter[c]]
  BY DEF UpdateRows
<1>2. Kept
  BY <1>1, StateFacts, WrittenTyped DEF Kept, UpdateRows, Saves
<1>3. CASE Finish(r)
  BY <1>2, <1>3, FinishKeeps
<1>4. CASE At(r, "deleteUpdate") /\ GoOn(r, "softDelete")
  <2>1. req[r].id \in Chapters /\ chapter[req[r].id] # None
    BY <1>4, StateFacts DEF Filled, At
  <2> QED
    BY <1>2, <1>4, <2>1, GoOnKeeps
<1> QED
  BY <1>3, <1>4 DEF UpdateRows

LEMMA SoftDeleteTyped ==
  ASSUME TypeOK, NEW r \in Slots, SoftDelete(r)
  PROVE  TypeOK'
<1>1. req[r].id \in Chapters /\ chapter[req[r].id] \in ChapterRow
  BY StateFacts DEF SoftDelete, At, Filled
<1>2. [chapter[req[r].id] EXCEPT !.deleted = TRUE] \in ChapterRow
  BY <1>1 DEF ChapterRow
<1>3. chapter' = [chapter EXCEPT ![req[r].id] = [chapter[req[r].id] EXCEPT !.deleted = TRUE]]
  BY DEF SoftDelete
<1>4. Kept
  <2>1. UNCHANGED <<story, now, feed, hist>>
    BY DEF SoftDelete
  <2>2. /\ chapter' \in [Chapters -> ChapterRow \cup {None}]
        /\ \A c \in Chapters : c # req[r].id => chapter'[c] = chapter[c]
        /\ chapter'[req[r].id] \in ChapterRow
    BY <1>1, <1>2, <1>3, StateFacts
  <2>3. \A c \in Chapters : chapter[c] # None => chapter'[c] # None
    BY <2>2, StoryAssumption
  <2> QED
    BY <2>1, <2>2, <2>3, StateFacts DEF Kept
<1>5. Goto(r, "recount") /\ "recount" \in Pcs
  BY DEF SoftDelete, Pcs
<1> QED
  BY <1>4, <1>5, GotoKeeps

\* The two statements that take a count.
LEMMA CountingTyped ==
  ASSUME TypeOK, NEW r \in Slots, Recount(r) \/ TxUpdate(r)
  PROVE  TypeOK'
<1>1. Kept
  BY StateFacts, QuietKept DEF Recount, TxUpdate
<1>2. ASSUME NEW n \in Nat, NEW pc \in {"writeCount", "txCommit"}, pc = "txCommit" => At(r, "txUpdate"),
             req' = [req EXCEPT ![r].pc = pc, ![r].n = n]
      PROVE  TypeOK'
  <2>0. req[r] \in Slot /\ pc \in Pcs
    BY StateFacts DEF Pcs
  <2>1. PICK slot \in Slot : slot = [req[r] EXCEPT !.pc = pc, !.n = n]
    BY <2>0 DEF Slot
  <2>2. slot.pc = pc /\ slot.id = req[r].id /\ slot.rows = req[r].rows
    BY <2>1, StateFacts DEF Slot
  <2>3. Filled(slot)'
    BY <1>1, <1>2, <2>2, StateFacts DEF Filled, At, Kept, InTransaction, SavingStory
  <2>4. Enter(r, slot)
    BY <1>2, <2>1, StateFacts DEF Enter, Slot
  <2> QED
    BY <1>1, <2>3, <2>4, TypedBy
<1>3. CASE Recount(r)
  BY <1>2, <1>3, CountTyped DEF Recount
<1>4. CASE TxUpdate(r)
  BY <1>2, <1>4, CountTyped DEF TxUpdate
<1> QED
  BY <1>3, <1>4

LEMMA TxCommitTyped ==
  ASSUME TypeOK, NEW r \in Slots, TxCommit(r)
  PROVE  TypeOK'
<1>1. /\ req[r].id \in Chapters /\ req[r].rows[req[r].id] # None /\ chapter[req[r].id] # None
      /\ req[r].n \in Nat
  BY StateFacts DEF TxCommit, At, Filled, Slot, InTransaction
<1>2. /\ chapter' = [chapter EXCEPT ![req[r].id] = Written(r, req[r].id)]
      /\ story' = [story EXCEPT !.count = req[r].n] /\ UNCHANGED <<now, feed>>
      /\ \/ GoOn(r, "reopen") /\ hist' = [hist EXCEPT !.out = @ \cup {req[r].id}]
         \/ Finish(r) /\ UNCHANGED hist
  BY DEF TxCommit
<1>3. hist' \in History
  BY <1>1, <1>2, StateFacts DEF History
<1>4. story' \in StoryRow
  BY <1>1, <1>2, StateFacts DEF StoryRow
<1>5. Kept
  BY <1>1, <1>2, <1>3, <1>4, StateFacts, WrittenTyped DEF Kept
<1> QED
  BY <1>1, <1>2, <1>5, FinishKeeps, GoOnKeeps

\* The statements that follow a publication, and those that write the Story.
LEMMA LaterStepsTyped ==
  ASSUME TypeOK, NEW r \in Slots,
         \/ Reopen(r) \/ Announce(r) \/ WriteCount(r) \/ UpdateStory(r) \/ SoftDeleteStory(r)
         \/ Fail(r)
  PROVE  TypeOK'
<1>1. CASE Reopen(r)
  <2>1. Kept
    BY <1>1, StateFacts, QuietKept DEF Reopen
  <2> QED
    BY <1>1, <2>1, FinishKeeps, GotoKeeps DEF Reopen, Pcs
<1>2. CASE Announce(r)
  <2>1. req[r].id \in Chapters
    BY <1>2, StateFacts DEF Announce, At, Filled
  <2>2. Kept
    BY <1>2, <2>1, StateFacts DEF Kept, Announce
  <2> QED
    BY <1>2, <2>2, FinishKeeps DEF Announce
<1>3. CASE WriteCount(r)
  <2>1. [story EXCEPT !.count = req[r].n] \in StoryRow
    BY StateFacts DEF StoryRow, Slot
  <2>2. Kept
    BY <1>3, <2>1, StateFacts DEF Kept, WriteCount
  <2> QED
    BY <1>3, <2>2, FinishKeeps DEF WriteCount
<1>4. CASE UpdateStory(r)
  <2>1. Updated(story, req[r].story, req[r].storyDirty) \in StoryRow
    BY <1>4, StateFacts, UpdatedStory DEF UpdateStory, At, Filled, SavingStory
  <2>2. Kept
    BY <1>4, <2>1, StateFacts DEF Kept, UpdateStory
  <2> QED
    BY <1>4, <2>2, FinishKeeps, GotoKeeps DEF UpdateStory, Pcs
<1>5. CASE SoftDeleteStory(r)
  <2>1. [story EXCEPT !.deleted = TRUE] \in StoryRow
    BY StateFacts DEF StoryRow
  <2>2. Kept
    BY <1>5, <2>1, StateFacts DEF Kept, SoftDeleteStory
  <2> QED
    BY <1>5, <2>2, FinishKeeps DEF SoftDeleteStory
<1>6. CASE Fail(r)
  BY <1>6, QuietFinish DEF Fail
<1> QED
  BY <1>1, <1>2, <1>3, <1>4, <1>5, <1>6

LEMMA WorldTyped ==
  ASSUME TypeOK, Tick \/ Crash \/ UNCHANGED vars
  PROVE  TypeOK'
<1>1. \A s \in Slot : Filled(s) => Filled(s)'
  BY DEF Filled, Tick, Crash, Unstored, vars
<1>2. CASE Tick
  <2>1. now' \in 0..MaxTime
    BY <1>2, StateFacts DEF Tick
  <2> QED
    BY <1>1, <1>2, <2>1, StateFacts DEF Tick, TypeOK, Filled
<1>3. CASE Crash
  <2>1. /\ req' \in [Slots -> Slot] /\ \A q \in Slots : req'[q] = Idle
    BY <1>3, IdleTyped DEF Crash
  <2>2. \A q \in Slots : Filled(req[q])'
    BY <2>1 DEF Filled, Idle, Nothing, InTransaction, SavingStory
  <2> QED
    BY <1>3, <2>1, <2>2, StateFacts DEF Crash, Unstored, TypeOK
<1>4. CASE UNCHANGED vars
  BY <1>1, <1>4, StateFacts DEF vars, TypeOK, Filled
<1> QED
  BY <1>2, <1>3, <1>4

LEMMA StepTyped == TypeOK /\ [Next]_vars => TypeOK'
<1> SUFFICES ASSUME TypeOK, [Next]_vars PROVE TypeOK'
  OBVIOUS
<1>1. ASSUME NEW r \in Requests, Handler(r) PROVE TypeOK'
  BY <1>1, CreateTyped, UpdateTyped, ReorderTyped, ChapterHandlersTyped, StoryHandlersTyped
     DEF Handler
<1>2. ASSUME NEW r \in Slots, Step(r) \/ Fail(r) PROVE TypeOK'
  BY <1>2, InsertTyped, SelectTyped, UpdateRowsTyped, SoftDeleteTyped, CountingTyped, TxCommitTyped,
     LaterStepsTyped DEF Step
<1> QED
  BY <1>1, <1>2, RunSchedulerTyped, NextDueTyped, WorldTyped DEF Next

\* The Chapters, the Story and the slots keep their shape, and a handler that
\* saves, commits or announces knows the Chapter it does it for: the type
\* invariant of StorytimePublication.
THEOREM Typing == Spec => []TypeOK
  BY InitTyped, StepTyped, PTL DEF Spec

--------------------------------------------------------------------------------
(* What a step writes to a Chapter, and what a handler comes to hold.      *)

\* A Chapter stays as it is or is marked as deleted, is a fresh draft, or has the
\* columns a handler's save found to differ.
Wrote(c) ==
  \/ chapter[c] # None /\ chapter'[c].status = chapter[c].status /\ chapter'[c].at = chapter[c].at
  \/ chapter'[c].status = "DRAFT" /\ chapter'[c].at = None
  \/ \E q \in Slots :
       /\ req[q].pc \in {"update", "deleteUpdate", "txCommit"} /\ Saves(q, c)
       /\ chapter'[c] = Written(q, c)
       /\ (req[q].id = c /\ req[q].pc \in InTransaction) =>
            (req[q].rows[c].status = "PUBLISHED" => c \in hist'.out)

ChaptersFrom == \A c \in Chapters : chapter'[c] # None => Wrote(c)

\* A publication that leaves its transaction has committed.
Moved(q, c) ==
  (req[q].id = c /\ req[q].pc \in InTransaction) =>
    c \in hist'.out \/ (req'[q].id = c /\ req'[q].pc \in InTransaction)

InTx(q, c) == req'[q].id = c /\ req'[q].pc = "tx"

\* An entity of c as a request holds it after loading it.
Taken(q, c, entity) ==
  /\ chapter[c] # None
  /\ \/ entity.status = chapter[c].status /\ entity.at = chapter[c].at
     \/ entity.status = "PUBLISHED" /\ entity.at = None /\ c \in hist'.asked /\ InTx(q, c)
     \/ /\ chapter[c].status = "PUBLISHED"
        /\ entity.status = "UNPUBLISHED" /\ entity.at = chapter[c].at
     \/ entity.status = "SCHEDULED" /\ entity.at # None /\ <<c, entity.at>> \in hist'.scheduled

\* Where an entity a handler holds after a step comes from.
Source(q, c, entity) ==
  \/ req[q].rows[c] # None /\ entity = req[q].rows[c] /\ Moved(q, c)
  \/ q # Cron /\ Taken(q, c, entity)
  \/ q = Cron /\ Due(chapter[c]) /\ entity = chapter[c]
  \/ q = Cron /\ req[q].rows[c] # None /\ entity = Published(req[q].rows[c]) /\ InTx(q, c)

SlotsFrom ==
  \A q \in Slots, c \in Chapters :
    req'[q].rows[c] # None => Source(q, c, req'[q].rows[c])

LEMMA EnterFrom ==
  ASSUME TypeOK, NEW r \in Slots, NEW slot, Enter(r, slot),
         \A c \in Chapters : slot.rows[c] # None => Source(r, c, slot.rows[c])
  PROVE  SlotsFrom
<1>1. \A q \in Slots : req'[q] = IF q = r THEN slot ELSE req[q]
  BY StateFacts DEF Enter
<1>2. \A q \in Slots, c \in Chapters : req'[q] = req[q] => Moved(q, c)
  BY DEF Moved
<1> QED
  BY <1>1, <1>2 DEF SlotsFrom, Source

\* A slot that enters a statement without any Chapter.
LEMMA EmptyFrom ==
  ASSUME TypeOK, NEW r \in Slots, NEW slot, Enter(r, slot), slot.rows = Nothing
  PROVE  SlotsFrom
  BY EnterFrom DEF Nothing

LEMMA FinishFrom ==
  ASSUME TypeOK, NEW r \in Slots, Finish(r)
  PROVE  SlotsFrom
<1>1. CASE r # Cron
  BY <1>1, EmptyFrom DEF Finish, Idle
<1>2. CASE r = Cron
  <2> DEFINE left == IF req[r].id = None THEN req[r].rows
                       ELSE [req[r].rows EXCEPT ![req[r].id] = None]
             next == [req[r] EXCEPT !.pc = "queue", !.id = None, !.n = 0, !.dirty = Clean, !.rows = left]
  <2>1. Enter(r, next) /\ next.rows = left
    BY <1>2, StateFacts DEF Finish, Slot
  <2>2. \A c \in Chapters : left[c] # None =>
          left[c] = req[r].rows[c] /\ req[r].rows[c] # None /\ req[r].id # c
    BY StateFacts DEF Slot
  <2>3. \A c \in Chapters : left[c] # None => Source(r, c, left[c])
    BY <2>2 DEF Source, Moved
  <2> HIDE DEF next, left
  <2> QED
    BY <2>1, <2>3, EnterFrom
<1> QED
  BY <1>1, <1>2

\* A slot that goes on with the Chapters it had, or with fewer.
LEMMA OnwardFrom ==
  ASSUME TypeOK, NEW r \in Slots, \A q \in Slots \ {r} : req'[q] = req[q],
         \A c \in Chapters : req'[r].rows[c] # None => req'[r].rows[c] = req[r].rows[c] /\ Moved(r, c)
  PROVE  SlotsFrom
<1>1. \A q \in Slots \ {r}, c \in Chapters : Moved(q, c)
  BY DEF Moved
<1> QED
  BY <1>1 DEF SlotsFrom, Source

LEMMA GoOnFrom ==
  ASSUME TypeOK, NEW r \in Slots, NEW pc, GoOn(r, pc)
  PROVE  SlotsFrom
<1>1. /\ \A q \in Slots \ {r} : req'[q] = req[q]
      /\ req'[r].rows = [req[r].rows EXCEPT ![req[r].id] = None]
  BY StateFacts DEF GoOn, Slot
<1>2. \A c \in Chapters : req'[r].rows[c] # None => req'[r].rows[c] = req[r].rows[c] /\ req[r].id # c
  BY <1>1, StateFacts DEF Slot
<1> QED
  BY <1>1, <1>2, OnwardFrom DEF Moved

LEMMA HoldsFrom ==
  ASSUME TypeOK, NEW r \in Requests, NEW pc, NEW c \in Chapters, NEW entity \in ChapterRow,
         Holds(r, pc, c, entity), req'[r].id = c /\ req'[r].pc = pc => Taken(r, c, entity)
  PROVE  SlotsFrom
<1> DEFINE slot == [Idle EXCEPT !.pc = pc, !.id = c, !.rows = Only(c, entity)]
<1>1. Enter(r, slot) /\ slot.rows = Only(c, entity) /\ slot.id = c /\ slot.pc = pc
  BY DEF Holds, Idle
<1> HIDE DEF slot
<1>2. req'[r] = slot
  BY <1>1, SlotsFacts, StateFacts DEF Enter
<1>3. \A d \in Chapters : slot.rows[d] # None => d = c /\ slot.rows[d] = entity
  BY <1>1, OnlyTyped
<1>4. \A d \in Chapters : slot.rows[d] # None => Source(r, d, slot.rows[d])
  BY <1>1, <1>2, <1>3, SlotsFacts DEF Source
<1> QED
  BY <1>1, <1>4, SlotsFacts, EnterFrom

LEMMA ChapterHandlersFrom ==
  ASSUME TypeOK, NEW r \in Requests,
         \/ SetCoverImage(r) \/ DeleteChapter(r) \/ PublishChapter(r) \/ UnpublishChapter(r)
         \/ ScheduleChapter(r) \/ ModerateChapter(r)
  PROVE  SlotsFrom
<1>1. CASE SetCoverImage(r) \/ DeleteChapter(r)
  <2>1. PICK c \in Chapters, pc \in {"save", "deleteSave"} : Live(c) /\ Holds(r, pc, c, chapter[c])
    BY <1>1 DEF SetCoverImage, DeleteChapter, Loads
  <2>2. Taken(r, c, chapter[c])
    BY <2>1, LiveTyped DEF Taken
  <2> QED
    BY <2>1, <2>2, LiveTyped, HoldsFrom
<1>2. CASE PublishChapter(r)
  <2>1. PICK c \in Chapters : /\ Live(c) /\ Holds(r, "tx", c, Published(chapter[c]))
                              /\ hist' = [hist EXCEPT !.asked = @ \cup {c}]
    BY <1>2 DEF PublishChapter, Loads
  <2>2. /\ Published(chapter[c]) \in ChapterRow /\ Published(chapter[c]).status = "PUBLISHED"
        /\ Published(chapter[c]).at = None
    BY <2>1, LiveTyped DEF Published, ChapterRow, ChapterStatus
  <2>3. c \in hist'.asked
    BY <2>1, StateFacts DEF History
  <2>4. InTx(r, c) => Taken(r, c, Published(chapter[c]))
    BY <2>1, <2>2, <2>3, LiveTyped DEF Taken
  <2> QED
    BY <2>1, <2>2, <2>4, HoldsFrom DEF InTx
<1>3. CASE UnpublishChapter(r)
  <2> DEFINE entity(c) == [chapter[c] EXCEPT !.status = "UNPUBLISHED"]
  <2>1. PICK c \in Chapters : /\ Live(c) /\ chapter[c].status = "PUBLISHED"
                              /\ Holds(r, "tx", c, entity(c))
    BY <1>3 DEF UnpublishChapter, Loads
  <2>2. /\ entity(c) \in ChapterRow /\ entity(c).status = "UNPUBLISHED"
        /\ entity(c).at = chapter[c].at
    BY <2>1, LiveTyped DEF ChapterRow, ChapterStatus
  <2> HIDE DEF entity
  <2>3. Taken(r, c, entity(c))
    BY <2>1, <2>2, LiveTyped DEF Taken
  <2> QED
    BY <2>1, <2>2, <2>3, HoldsFrom
<1>4. CASE ScheduleChapter(r)
  <2> DEFINE entity(c, t) == [chapter[c] EXCEPT !.status = "SCHEDULED", !.at = t]
  <2>1. PICK c \in Chapters, t \in 1..MaxTime :
          /\ Live(c) /\ Holds(r, "save", c, entity(c, t))
          /\ hist' = [hist EXCEPT !.scheduled = @ \cup {<<c, t>>}]
    BY <1>4 DEF ScheduleChapter, Loads
  <2>2. /\ entity(c, t) \in ChapterRow /\ entity(c, t).status = "SCHEDULED"
        /\ entity(c, t).at = t /\ t # None
    BY <2>1, LiveTyped DEF ChapterRow, ChapterStatus
  <2>3. <<c, t>> \in hist'.scheduled
    BY <2>1, StateFacts DEF History
  <2> HIDE DEF entity
  <2>4. Taken(r, c, entity(c, t))
    BY <2>1, <2>2, <2>3, LiveTyped DEF Taken
  <2> QED
    BY <2>1, <2>2, <2>4, HoldsFrom
<1>5. CASE ModerateChapter(r)
  <2> DEFINE entity(c) == [chapter[c] EXCEPT !.removed = ~@]
  <2>1. PICK c \in Chapters : Live(c) /\ Holds(r, "save", c, entity(c))
    BY <1>5 DEF ModerateChapter
  <2>2. /\ entity(c) \in ChapterRow /\ entity(c).status = chapter[c].status
        /\ entity(c).at = chapter[c].at
    BY <2>1, LiveTyped DEF ChapterRow
  <2> HIDE DEF entity
  <2>3. Taken(r, c, entity(c))
    BY <2>1, <2>2, LiveTyped DEF Taken
  <2> QED
    BY <2>1, <2>2, <2>3, HoldsFrom
<1> QED
  BY <1>1, <1>2, <1>3, <1>4, <1>5

LEMMA UpdateFrom ==
  ASSUME TypeOK, NEW r \in Requests, UpdateChapter(r)
  PROVE  SlotsFrom
<1> DEFINE entity(c, t) == [chapter[c] EXCEPT !.text = t]
<1>1. PICK c \in Chapters, t \in Texts : Live(c) /\ Holds(r, "save", c, entity(c, t))
  BY DEF UpdateChapter, Loads
<1>2. /\ entity(c, t) \in ChapterRow /\ entity(c, t).status = chapter[c].status
      /\ entity(c, t).at = chapter[c].at
  BY <1>1, LiveTyped DEF ChapterRow
<1> HIDE DEF entity
<1>3. Taken(r, c, entity(c, t))
  BY <1>1, <1>2, LiveTyped DEF Taken
<1> QED
  BY <1>1, <1>2, <1>3, HoldsFrom

LEMMA ReorderFrom ==
  ASSUME TypeOK, NEW r \in Requests, ReorderChapters(r)
  PROVE  SlotsFrom
<1> DEFINE queue == [c \in Chapters |-> IF Live(c) THEN chapter[c] ELSE None]
           slot == [Idle EXCEPT !.pc = "save", !.rows = queue]
<1>1. Enter(r, slot) /\ slot.rows = queue
  BY DEF ReorderChapters, Idle
<1>2. \A c \in Chapters : queue[c] # None => queue[c] = chapter[c] /\ chapter[c] # None
  OBVIOUS
<1> HIDE DEF slot, queue
<1>3. \A c \in Chapters : slot.rows[c] # None => Source(r, c, slot.rows[c])
  BY <1>1, <1>2, SlotsFacts DEF Source, Taken
<1> QED
  BY <1>1, <1>3, SlotsFacts, EnterFrom

LEMMA RunSchedulerFrom ==
  ASSUME TypeOK, RunScheduler
  PROVE  SlotsFrom
<1> DEFINE queue == [c \in Chapters |-> IF Due(chapter[c]) THEN chapter[c] ELSE None]
           slot == [Idle EXCEPT !.pc = "queue", !.rows = queue]
<1>1. Enter(Cron, slot) /\ slot.rows = queue
  BY DEF RunScheduler, Idle
<1>2. \A c \in Chapters : queue[c] # None => queue[c] = chapter[c] /\ Due(chapter[c])
  OBVIOUS
<1> HIDE DEF slot, queue
<1>3. \A c \in Chapters : slot.rows[c] # None => Source(Cron, c, slot.rows[c])
  BY <1>1, <1>2 DEF Source
<1> QED
  BY <1>1, <1>3, SlotsFacts, EnterFrom

LEMMA NextDueFrom ==
  ASSUME TypeOK, NextDue
  PROVE  SlotsFrom
<1>1. CASE Enter(Cron, Idle)
  BY <1>1, SlotsFacts, EmptyFrom DEF Idle
<1>2. ASSUME NEW c \in Chapters, req[Cron].rows[c] # None,
             Enter(Cron, [req[Cron] EXCEPT !.pc = "tx", !.id = c, !.rows[c] = Published(@)])
      PROVE  SlotsFrom
  <2> DEFINE slot == [req[Cron] EXCEPT !.pc = "tx", !.id = c, !.rows[c] = Published(@)]
  <2>1. req[Cron] \in Slot /\ At(Cron, "queue")
    BY SlotsFacts, StateFacts DEF NextDue
  <2>2. /\ slot.pc = "tx" /\ slot.id = c /\ slot.rows[c] = Published(req[Cron].rows[c])
        /\ \A d \in Chapters : d # c => slot.rows[d] = req[Cron].rows[d]
    BY <2>1 DEF Slot
  <2>3. Enter(Cron, slot)
    BY <1>2
  <2> HIDE DEF slot
  <2>4. req'[Cron] = slot
    BY <2>3, SlotsFacts, StateFacts DEF Enter
  <2>5. \A d \in Chapters : slot.rows[d] # None => Source(Cron, d, slot.rows[d])
    BY <1>2, <2>1, <2>2, <2>4 DEF Source, Moved, InTx, At, InTransaction
  <2> QED
    BY <2>3, <2>5, SlotsFacts, EnterFrom
<1> QED
  BY <1>1, <1>2 DEF NextDue

LEMMA StatementsFrom ==
  ASSUME TypeOK, NEW r \in Slots, Step(r) \/ Fail(r)
  PROVE  SlotsFrom
<1>1. CASE Finish(r)
  BY <1>1, FinishFrom
<1>2. ASSUME NEW pc \in {"softDelete", "recount", "announce", "softDeleteStory"}, Goto(r, pc),
             req[r].pc \notin InTransaction
      PROVE  SlotsFrom
  <2>1. req'[r].rows = req[r].rows /\ \A q \in Slots \ {r} : req'[q] = req[q]
    BY <1>2, StateFacts DEF Goto, Slot
  <2> QED
    BY <1>2, <2>1, OnwardFrom DEF Moved
<1>3. CASE Recount(r)
  <2>1. req'[r].rows = req[r].rows /\ \A q \in Slots \ {r} : req'[q] = req[q]
    BY <1>3, StateFacts DEF Recount, Slot
  <2> QED
    BY <1>3, <2>1, OnwardFrom DEF Moved, Recount, At, InTransaction
<1>4. CASE TxUpdate(r)
  <2>1. /\ req'[r].rows = req[r].rows /\ \A q \in Slots \ {r} : req'[q] = req[q]
        /\ req'[r].pc = "txCommit" /\ req'[r].id = req[r].id
    BY <1>4, StateFacts DEF TxUpdate, Slot
  <2> QED
    BY <2>1, OnwardFrom DEF Moved, InTransaction
<1>5. CASE SelectRows(r)
  <2>1. /\ req'[r].rows = req[r].rows /\ \A q \in Slots \ {r} : req'[q] = req[q]
        /\ req'[r].id = req[r].id
        /\ req[r].pc \in InTransaction => req'[r].pc = "txUpdate"
    BY <1>5, StateFacts DEF SelectRows, Slot, At, InTransaction
  <2> QED
    BY <2>1, OnwardFrom DEF Moved, InTransaction
<1>6. CASE SelectStory(r)
  <2>1. /\ req'[r].rows = req[r].rows /\ \A q \in Slots \ {r} : req'[q] = req[q]
        /\ req[r].pc \notin InTransaction
    BY <1>6, StateFacts DEF SelectStory, Slot, At, InTransaction
  <2> QED
    BY <2>1, OnwardFrom DEF Moved
<1>7. CASE UpdateRows(r) \/ TxCommit(r)
  BY <1>1, <1>7, GoOnFrom DEF UpdateRows, TxCommit
<1>8. CASE SoftDelete(r) \/ Reopen(r) \/ UpdateStory(r)
  BY <1>1, <1>2, <1>8 DEF SoftDelete, Reopen, UpdateStory, At, InTransaction
<1> QED
  BY <1>1, <1>3, <1>4, <1>5, <1>6, <1>7, <1>8 DEF Step, InsertChapter, WriteCount, Announce,
     SoftDeleteStory, Fail

LEMMA StepSlots ==
  ASSUME TypeOK, [Next]_vars
  PROVE  SlotsFrom
<1>1. ASSUME req' = req PROVE SlotsFrom
  BY <1>1 DEF SlotsFrom, Source, Moved
<1>2. CASE Crash
  BY <1>2 DEF Crash, SlotsFrom, Idle, Nothing
<1>3. ASSUME NEW r \in Requests, Handler(r) PROVE SlotsFrom
  <2>1. CASE CreateChapter(r)
    BY <2>1, SlotsFacts, EmptyFrom DEF CreateChapter, Idle
  <2>2. ASSUME NEW pc, NEW entity, HoldsStory(r, pc, entity) PROVE SlotsFrom
    BY <2>2, SlotsFacts, EmptyFrom DEF HoldsStory, Idle
  <2>3. CASE ModerateStory(r) \/ EditStory(r) \/ PublishStory(r) \/ WithdrawStory(r) \/ DeleteStory(r)
    BY <2>2, <2>3 DEF ModerateStory, EditStory, PublishStory, WithdrawStory, DeleteStory
  <2> QED
    BY <1>3, <2>1, <2>3, UpdateFrom, ReorderFrom, ChapterHandlersFrom DEF Handler
<1> QED
  BY <1>1, <1>2, <1>3, StatementsFrom, RunSchedulerFrom, NextDueFrom DEF Next, vars, Tick

LEMMA StepChapters ==
  ASSUME TypeOK, [Next]_vars
  PROVE  ChaptersFrom
<1>1. ASSUME chapter' = chapter PROVE ChaptersFrom
  BY <1>1 DEF ChaptersFrom, Wrote
<1>2. ASSUME NEW r \in Slots, InsertChapter(r) PROVE ChaptersFrom
  <2>1. PICK c \in Chapters, t \in Texts :
          chapter' = [chapter EXCEPT ![c] =
            [text |-> t, status |-> "DRAFT", at |-> None, removed |-> FALSE, deleted |-> FALSE]]
    BY <1>2 DEF InsertChapter
  <2>2. chapter'[c].status = "DRAFT" /\ chapter'[c].at = None
    BY <2>1, StateFacts
  <2>3. \A d \in Chapters : d # c => chapter'[d] = chapter[d]
    BY <2>1, StateFacts
  <2> QED
    BY <2>2, <2>3 DEF ChaptersFrom, Wrote
<1>3. ASSUME NEW r \in Slots, UpdateRows(r) PROVE ChaptersFrom
  <2>1. \A c \in Chapters : chapter'[c] = IF Saves(r, c) THEN Written(r, c) ELSE chapter[c]
    BY <1>3 DEF UpdateRows
  <2>2. req[r].pc \in {"update", "deleteUpdate"}
    BY <1>3 DEF UpdateRows, At
  <2> QED
    BY <2>1, <2>2 DEF ChaptersFrom, Wrote, InTransaction
<1>4. ASSUME NEW r \in Slots, SoftDelete(r) PROVE ChaptersFrom
  <2>1. req[r].id \in Chapters /\ chapter[req[r].id] \in ChapterRow
    BY <1>4, StateFacts DEF SoftDelete, At, Filled
  <2>2. chapter' = [chapter EXCEPT ![req[r].id] = [chapter[req[r].id] EXCEPT !.deleted = TRUE]]
    BY <1>4 DEF SoftDelete
  <2>3. /\ \A c \in Chapters : c # req[r].id => chapter'[c] = chapter[c]
        /\ chapter'[req[r].id].status = chapter[req[r].id].status
        /\ chapter'[req[r].id].at = chapter[req[r].id].at
        /\ chapter[req[r].id] # None
    BY <2>1, <2>2, StateFacts DEF ChapterRow
  <2> QED
    BY <2>3 DEF ChaptersFrom, Wrote
<1>5. ASSUME NEW r \in Slots, TxCommit(r) PROVE ChaptersFrom
  <2>1. req[r].pc = "txCommit" /\ req[r].id \in Chapters /\ Saves(r, req[r].id)
    BY <1>5, StateFacts DEF TxCommit, At, Filled, InTransaction, Saves
  <2>2. /\ \A c \in Chapters : c # req[r].id => chapter'[c] = chapter[c]
        /\ chapter'[req[r].id] = Written(r, req[r].id)
    BY <1>5, <2>1, StateFacts DEF TxCommit
  <2>3. req[r].rows[req[r].id].status = "PUBLISHED" => req[r].id \in hist'.out
    BY <1>5, StateFacts DEF TxCommit, History
  <2> QED
    BY <2>1, <2>2, <2>3 DEF ChaptersFrom, Wrote
<1>6. ASSUME NEW r \in Requests, Handler(r) PROVE chapter' = chapter
  BY <1>6 DEF Handler, CreateChapter, UpdateChapter, SetCoverImage, ReorderChapters, DeleteChapter,
     PublishChapter, UnpublishChapter, ScheduleChapter, ModerateChapter, ModerateStory, EditStory,
     PublishStory, WithdrawStory, DeleteStory, Unstored
<1>7. ASSUME NEW r \in Slots, Step(r) \/ Fail(r) PROVE ChaptersFrom
  <2>1. CASE \/ SelectRows(r) \/ Recount(r) \/ WriteCount(r) \/ TxUpdate(r) \/ Reopen(r)
             \/ Announce(r) \/ SelectStory(r) \/ UpdateStory(r) \/ SoftDeleteStory(r) \/ Fail(r)
    BY <1>1, <2>1 DEF SelectRows, Recount, WriteCount, TxUpdate, Reopen, Announce, SelectStory,
       UpdateStory, SoftDeleteStory, Fail, Unstored
  <2> QED
    BY <1>2, <1>3, <1>4, <1>5, <1>7, <2>1 DEF Step
<1>8. CASE RunScheduler \/ NextDue \/ Tick \/ Crash \/ UNCHANGED vars
  BY <1>1, <1>8 DEF RunScheduler, NextDue, Tick, Crash, Unstored, vars
<1> QED
  BY <1>1, <1>6, <1>7, <1>8 DEF Next

\* Nothing asked for, scheduled or published is forgotten, and time goes on.
LEMMA HistoryGrows ==
  ASSUME TypeOK, [Next]_vars
  PROVE  /\ hist.asked \subseteq hist'.asked /\ hist.scheduled \subseteq hist'.scheduled
         /\ hist.out \subseteq hist'.out
         /\ now' \in Int /\ now \in Int /\ now <= now'
<1>1. now' = now \/ now' = now + 1
  BY DEF Next, vars, Handler, Step, CreateChapter, UpdateChapter, SetCoverImage, ReorderChapters,
     DeleteChapter, PublishChapter, UnpublishChapter, ScheduleChapter, ModerateChapter,
     ModerateStory, EditStory, PublishStory, WithdrawStory, DeleteStory, InsertChapter, SelectRows, UpdateRows,
     SoftDelete, Recount, WriteCount, TxUpdate, TxCommit, Reopen, Announce, SelectStory,
     UpdateStory, SoftDeleteStory, Fail, RunScheduler, NextDue, Tick, Crash, Unstored
<1>2. /\ \A c : hist' = [hist EXCEPT !.asked = @ \cup {c}] => hist.asked \subseteq hist'.asked
                  /\ hist'.scheduled = hist.scheduled /\ hist'.out = hist.out
      /\ \A c : hist' = [hist EXCEPT !.scheduled = @ \cup {c}] => hist'.asked = hist.asked
                  /\ hist.scheduled \subseteq hist'.scheduled /\ hist'.out = hist.out
      /\ \A c : hist' = [hist EXCEPT !.out = @ \cup {c}] => hist'.asked = hist.asked
                  /\ hist'.scheduled = hist.scheduled /\ hist.out \subseteq hist'.out
  BY StateFacts DEF History
<1>3. \/ hist' = hist \/ \E c : hist' = [hist EXCEPT !.asked = @ \cup {c}]
      \/ \E c : hist' = [hist EXCEPT !.scheduled = @ \cup {c}]
      \/ \E c : hist' = [hist EXCEPT !.out = @ \cup {c}]
  BY DEF Next, vars, Handler, Step, CreateChapter, UpdateChapter, SetCoverImage, ReorderChapters,
     DeleteChapter, PublishChapter, UnpublishChapter, ScheduleChapter, ModerateChapter,
     ModerateStory, EditStory, PublishStory, WithdrawStory, DeleteStory, InsertChapter, SelectRows, UpdateRows,
     SoftDelete, Recount, WriteCount, TxUpdate, TxCommit, Reopen, Announce, SelectStory,
     UpdateStory, SoftDeleteStory, Fail, RunScheduler, NextDue, Tick, Crash, Unstored
<1>4. now \in Int
  BY StateFacts
<1>5. now' \in Int /\ now <= now'
  BY <1>1, <1>4
<1>6. /\ hist.asked \subseteq hist'.asked /\ hist.scheduled \subseteq hist'.scheduled
      /\ hist.out \subseteq hist'.out
  <2>1. CASE hist' = hist
    BY <2>1
  <2>2. CASE \E c : hist' = [hist EXCEPT !.asked = @ \cup {c}]
    BY <1>2, <2>2
  <2>3. CASE \E c : hist' = [hist EXCEPT !.scheduled = @ \cup {c}]
    BY <1>2, <2>3
  <2>4. CASE \E c : hist' = [hist EXCEPT !.out = @ \cup {c}]
    BY <1>2, <2>4
  <2> QED
    BY <1>3, <2>1, <2>2, <2>3, <2>4
<1> QED
  BY <1>4, <1>5, <1>6

--------------------------------------------------------------------------------
(* Publication is earned, and the schedule consistent.                     *)

\* An entity of c whose columns may be stored.
Sound(c, entity) ==
  /\ entity.status = "PUBLISHED" => c \in hist.asked \/ \E t \in 1..now : <<c, t>> \in hist.scheduled
  /\ entity.at # None => <<c, entity.at>> \in hist.scheduled

\* Every stored row and every row a handler holds is sound, and the job holds
\* only rows whose time had come when it loaded them.
EarnedInv ==
  /\ \A c \in Chapters : chapter[c] # None => Sound(c, chapter[c])
  /\ \A q \in Slots, c \in Chapters : req[q].rows[c] # None =>
       /\ Sound(c, req[q].rows[c])
       /\ q = Cron => \/ req[q].rows[c].status = "PUBLISHED"
                      \/ req[q].rows[c].at # None /\ req[q].rows[c].at <= now

LEMMA WaitingTime ==
  ASSUME NEW entity \in ChapterRow, entity.at # None
  PROVE  entity.at \in 1..MaxTime /\ entity.at \in Int
  BY DEF ChapterRow

LEMMA SoundStays ==
  ASSUME TypeOK, [Next]_vars
  PROVE  \A c \in Chapters : \A entity : Sound(c, entity) =>
           /\ entity.status = "PUBLISHED" =>
                c \in hist'.asked \/ \E t \in 1..now' : <<c, t>> \in hist'.scheduled
           /\ entity.at # None => <<c, entity.at>> \in hist'.scheduled
  BY HistoryGrows DEF Sound

LEMMA EarnedStep == TypeOK /\ EarnedInv /\ [Next]_vars => EarnedInv'
<1> SUFFICES ASSUME TypeOK, EarnedInv, [Next]_vars PROVE EarnedInv'
  OBVIOUS
<1> DEFINE Stays(c, entity) ==
       /\ entity.status = "PUBLISHED" =>
            c \in hist'.asked \/ \E t \in 1..now' : <<c, t>> \in hist'.scheduled
       /\ entity.at # None => <<c, entity.at>> \in hist'.scheduled
     JobHas(entity) == \/ entity.status = "PUBLISHED"
                       \/ entity.at # None /\ entity.at <= now'
<1>1. \A c \in Chapters : \A entity : Sound(c, entity) => Stays(c, entity)
  BY SoundStays
<1>2. ASSUME NEW c \in Chapters, chapter'[c] # None PROVE Stays(c, chapter'[c])
  <2>1. Wrote(c)
    BY <1>2, StepChapters DEF ChaptersFrom
  <2>2. CASE chapter[c] # None /\ chapter'[c].status = chapter[c].status /\ chapter'[c].at = chapter[c].at
    <3>1. Stays(c, chapter[c])
      BY <1>1, <2>2 DEF EarnedInv
    <3> QED
      BY <2>2, <3>1
  <2>3. CASE chapter'[c].status = "DRAFT" /\ chapter'[c].at = None
    BY <2>3
  <2>4. ASSUME NEW q \in Slots, req[q].rows[c] # None, chapter'[c] = Written(q, c)
        PROVE  Stays(c, chapter'[c])
    <3>1. chapter[c] # None
      BY <2>4, StateFacts DEF Filled
    <3>2. Stays(c, req[q].rows[c]) /\ Stays(c, chapter[c])
      BY <1>1, <2>4, <3>1 DEF EarnedInv
    <3> QED
      BY <2>4, <3>2, WrittenTyped
  <2> QED
    BY <2>1, <2>2, <2>3, <2>4 DEF Wrote, Saves
<1>3. ASSUME NEW q \in Slots, NEW c \in Chapters, req'[q].rows[c] # None
      PROVE  Stays(c, req'[q].rows[c]) /\ (q = Cron => JobHas(req'[q].rows[c]))
  <2> DEFINE entity == req'[q].rows[c]
  <2>1. Source(q, c, entity)
    BY <1>3, StepSlots DEF SlotsFrom
  <2>2. CASE req[q].rows[c] # None /\ entity = req[q].rows[c]
    <3>1. Sound(c, entity) /\ entity \in ChapterRow
            /\ (q = Cron => \/ entity.status = "PUBLISHED"
                            \/ entity.at # None /\ entity.at <= now)
      BY <2>2, StateFacts DEF EarnedInv
    <3>2. entity.at # None => entity.at \in Int
      BY <3>1, WaitingTime
    <3>3. q = Cron => JobHas(entity)
      BY <3>1, <3>2, HistoryGrows
    <3> QED
      BY <1>1, <3>1, <3>3
  <2>3. CASE q # Cron /\ Taken(q, c, entity)
    <3>1. Stays(c, chapter[c])
      BY <1>1, <2>3 DEF EarnedInv, Taken
    <3>2. Stays(c, entity)
      <4> HIDE DEF entity
      <4> QED
        BY <2>3, <3>1 DEF Taken
    <3> QED
      BY <2>3, <3>2
  <2>4. CASE q = Cron /\ Due(chapter[c]) /\ entity = chapter[c]
    <3>1. Sound(c, entity) /\ entity \in ChapterRow /\ entity.at # None /\ entity.at <= now
      BY <2>4, StateFacts DEF EarnedInv, Due
    <3>2. entity.at \in Int
      BY <3>1, WaitingTime
    <3> QED
      BY <1>1, <3>1, <3>2, HistoryGrows
  <2>5. CASE q = Cron /\ req[q].rows[c] # None /\ entity = Published(req[q].rows[c])
    <3> DEFINE was == req[q].rows[c]
    <3>1. q = Cron /\ was # None
      BY <2>5
    <3>2. was \in ChapterRow
      BY <3>1, StateFacts
    <3>3. /\ Sound(c, was)
          /\ was.status = "PUBLISHED" \/ (was.at # None /\ was.at <= now)
      BY <3>1 DEF EarnedInv
    <3> HIDE DEF was
    <3>4. was.at # None => was.at \in 1..MaxTime
      BY <3>2, WaitingTime
    <3>5. c \in hist.asked \/ \E t \in 1..now : <<c, t>> \in hist.scheduled
      BY <3>3, <3>4, StateFacts DEF Sound
    <3>6. entity.status = "PUBLISHED" /\ entity.at = None
      BY <2>5, <3>2 DEF Published, ChapterRow, was
    <3>7. c \in hist'.asked \/ \E t \in 1..now' : <<c, t>> \in hist'.scheduled
      BY <3>5, HistoryGrows
    <3> QED
      BY <3>6, <3>7
  <2> QED
    BY <2>1, <2>2, <2>3, <2>4, <2>5 DEF Source
<1> QED
  BY <1>2, <1>3 DEF EarnedInv, Sound

LEMMA InitEarned == Init => EarnedInv
  BY DEF Init, EarnedInv, Nothing, Idle

\* A Chapter is public only by its creator's hand or because its time has come,
\* whatever stale columns its handlers and the job save.
THEOREM Earned == Spec => []PublicationEarned
<1>1. EarnedInv => PublicationEarned
  BY DEF EarnedInv, PublicationEarned, Sound
<1> QED
  BY <1>1, InitEarned, EarnedStep, Typing, PTL DEF Spec

--------------------------------------------------------------------------------
(* Nothing is announced, and no Story goes out, before a Chapter did.      *)

\* A story entity counts a Chapter, or is out, only after one went out.
Fine(entity) == (entity.count > 0 \/ entity.status = "PUBLISHED") => hist.out # {}

\* What a handler holds for its next statements.
SlotOut(q) ==
  /\ req[q].pc \in {"reopen", "announce"} => req[q].id \in hist.out
  /\ req[q].story # None => Fine(req[q].story)
  /\ req[q].pc = "writeCount" /\ req[q].n > 0 => hist.out # {}
  /\ req[q].pc = "txCommit" /\ req[q].n > 0 =>
       hist.out # {} \/ req[q].rows[req[q].id].status = "PUBLISHED"

\* A row is PUBLISHED, in the table or in a handler's hands, only after a
\* transaction made it so, or inside the transaction that is about to.
RowsOut ==
  /\ \A c \in Chapters : chapter[c] # None /\ chapter[c].status = "PUBLISHED" => c \in hist.out
  /\ \A q \in Slots, c \in Chapters :
       req[q].rows[c] # None /\ req[q].rows[c].status = "PUBLISHED" =>
         c \in hist.out \/ (req[q].id = c /\ req[q].pc \in InTransaction)

OutInv ==
  /\ RowsOut
  /\ feed \subseteq hist.out
  /\ Fine(story)
  /\ \A q \in Slots : SlotOut(q)

LEMMA RowsOutStep ==
  ASSUME TypeOK, RowsOut, [Next]_vars
  PROVE  RowsOut'
<1>1. ASSUME NEW c \in Chapters, chapter'[c] # None, chapter'[c].status = "PUBLISHED"
      PROVE  c \in hist'.out
  <2>1. Wrote(c)
    BY <1>1, StepChapters DEF ChaptersFrom
  <2>2. ASSUME NEW q \in Slots, Saves(q, c), chapter'[c] = Written(q, c),
               (req[q].id = c /\ req[q].pc \in InTransaction) =>
                 (req[q].rows[c].status = "PUBLISHED" => c \in hist'.out)
        PROVE  c \in hist'.out
    <3>1. req[q].rows[c] # None /\ chapter[c] # None
      BY <2>2, StateFacts DEF Saves, Filled
    <3>2. req[q].rows[c].status = "PUBLISHED" \/ chapter[c].status = "PUBLISHED"
      BY <1>1, <2>2, <3>1, WrittenTyped
    <3> QED
      BY <2>2, <3>1, <3>2, HistoryGrows DEF RowsOut
  <2> QED
    BY <1>1, <2>1, <2>2, HistoryGrows DEF Wrote, RowsOut
<1>2. ASSUME NEW q \in Slots, NEW c \in Chapters, req'[q].rows[c] # None,
             req'[q].rows[c].status = "PUBLISHED"
      PROVE  c \in hist'.out \/ (req'[q].id = c /\ req'[q].pc \in InTransaction)
  <2>1. Source(q, c, req'[q].rows[c])
    BY <1>2, StepSlots DEF SlotsFrom
  <2> QED
    BY <1>2, <2>1, HistoryGrows DEF Source, Moved, Taken, InTx, Due, RowsOut, InTransaction
<1> QED
  BY <1>1, <1>2 DEF RowsOut

\* A count that is not zero counts a published row.
LEMMA CountPositive ==
  ASSUME NEW table, CountOf(table) > 0
  PROVE  \E c \in Chapters : table[c] # None /\ table[c].status = "PUBLISHED"
<1>1. CASE {c \in Chapters : Counted(table[c])} = {}
  <2>1. CountOf(table) = 0
    BY <1>1, FS_EmptySet DEF CountOf
  <2> QED
    BY <2>1
<1>2. CASE {c \in Chapters : Counted(table[c])} # {}
  <2>1. PICK c \in Chapters : Counted(table[c])
    BY <1>2
  <2> QED
    BY <2>1 DEF Counted
<1> QED
  BY <1>1, <1>2

Watched == {"reopen", "announce", "writeCount", "txCommit"}

\* A slot that enters a statement outside Watched.
LEMMA EnterOut ==
  ASSUME TypeOK, NEW r \in Slots, NEW slot, Enter(r, slot), slot.pc \notin Watched,
         slot.story # None => Fine(slot.story), [Next]_vars
  PROVE  SlotOut(r)'
<1>1. req'[r] = slot
  BY StateFacts DEF Enter
<1>2. hist'.out = {} => hist.out = {}
  BY HistoryGrows
<1> QED
  BY <1>1, <1>2 DEF SlotOut, Fine, Watched

LEMMA FinishOut ==
  ASSUME TypeOK, NEW r \in Slots, SlotOut(r), Finish(r), [Next]_vars
  PROVE  SlotOut(r)'
<1>1. CASE r # Cron
  BY <1>1, EnterOut DEF Finish, Idle, Watched
<1>2. CASE r = Cron
  <2>1. req'[r].pc = "queue" /\ req'[r].story = req[r].story
    BY <1>2, StateFacts DEF Finish, Enter, Slot
  <2>2. hist'.out = {} => hist.out = {}
    BY HistoryGrows
  <2> QED
    BY <2>1, <2>2 DEF SlotOut, Fine
<1> QED
  BY <1>1, <1>2

LEMMA GotoOut ==
  ASSUME TypeOK, NEW r \in Slots, SlotOut(r), NEW pc, Goto(r, pc), [Next]_vars,
         pc \notin {"writeCount", "txCommit"},
         pc \in {"reopen", "announce"} => req[r].id \in hist'.out
  PROVE  SlotOut(r)'
<1>1. req'[r].pc = pc /\ req'[r].story = req[r].story /\ req'[r].id = req[r].id
  BY StateFacts DEF Goto, Slot
<1>2. hist'.out = {} => hist.out = {}
  BY HistoryGrows
<1> QED
  BY <1>1, <1>2 DEF SlotOut, Fine

LEMMA GoOnOut ==
  ASSUME TypeOK, NEW r \in Slots, SlotOut(r), NEW pc \in {"softDelete", "reopen"}, GoOn(r, pc),
         [Next]_vars, pc = "reopen" => req[r].id \in hist'.out
  PROVE  SlotOut(r)'
<1>1. req'[r].pc = pc /\ req'[r].story = req[r].story /\ req'[r].id = req[r].id
  BY StateFacts DEF GoOn, Slot
<1>2. hist'.out = {} => hist.out = {}
  BY HistoryGrows
<1> QED
  BY <1>1, <1>2 DEF SlotOut, Fine

LEMMA HandlerOut ==
  ASSUME TypeOK, OutInv, NEW r \in Requests, Handler(r)
  PROVE  SlotOut(r)'
<1>1. [Next]_vars /\ r \in Slots
  BY SlotsFacts DEF Next
<1>2. ASSUME NEW pc \in Pcs \ Watched, NEW slot, Enter(r, slot), slot.pc = pc, slot.story = None
      PROVE  SlotOut(r)'
  BY <1>1, <1>2, EnterOut
<1>3. ASSUME NEW pc \in Pcs \ Watched, NEW entity, Fine(entity), HoldsStory(r, pc, entity)
      PROVE  SlotOut(r)'
  <2>1. /\ [Idle EXCEPT !.pc = pc, !.story = entity].pc = pc
        /\ [Idle EXCEPT !.pc = pc, !.story = entity].story = entity
    BY DEF Idle
  <2> QED
    BY <1>1, <1>3, <2>1, EnterOut DEF HoldsStory
<1>4. CASE \/ SetCoverImage(r) \/ DeleteChapter(r) \/ PublishChapter(r) \/ UnpublishChapter(r)
           \/ ScheduleChapter(r) \/ ModerateChapter(r) \/ UpdateChapter(r)
  <2>1. \E pc \in {"save", "tx", "deleteSave"} : \E c, entity : Holds(r, pc, c, entity)
    BY <1>4 DEF SetCoverImage, DeleteChapter, PublishChapter, UnpublishChapter, ScheduleChapter,
       ModerateChapter, UpdateChapter
  <2> QED
    BY <1>2, <2>1 DEF Holds, Idle, Pcs, Watched
<1>5. CASE CreateChapter(r) \/ ReorderChapters(r)
  <2>1. CASE CreateChapter(r)
    BY <1>2, <2>1 DEF CreateChapter, Idle, Pcs, Watched
  <2>2. CASE ReorderChapters(r)
    <3>1. PICK rows : Enter(r, [Idle EXCEPT !.pc = "save", !.rows = rows])
      BY <2>2 DEF ReorderChapters
    <3>2. /\ [Idle EXCEPT !.pc = "save", !.rows = rows].pc = "save"
          /\ [Idle EXCEPT !.pc = "save", !.rows = rows].story = None
      BY DEF Idle
    <3> QED
      BY <1>2, <3>1, <3>2 DEF Pcs, Watched
  <2> QED
    BY <1>5, <2>1, <2>2
<1>6. CASE ModerateStory(r) \/ EditStory(r) \/ PublishStory(r) \/ WithdrawStory(r) \/ DeleteStory(r)
  <2>1. story \in StoryRow /\ Fine(story)
    BY StateFacts DEF OutInv
  <2>2. Fine([story EXCEPT !.removed = ~@])
    BY <2>1 DEF Fine, StoryRow
  <2>3. \A s \in {"UNPUBLISHED", "ARCHIVED"} : Fine([story EXCEPT !.status = s])
    BY <2>1 DEF Fine, StoryRow
  <2>4. StoryPublishable(story) => Fine([story EXCEPT !.status = "PUBLISHED"])
    BY <2>1 DEF Fine, StoryRow, StoryPublishable
  <2> QED
    BY <1>3, <1>6, <2>1, <2>2, <2>3, <2>4 DEF ModerateStory, EditStory, PublishStory, WithdrawStory,
       DeleteStory, Pcs, Watched
<1> QED
  BY <1>4, <1>5, <1>6 DEF Handler

LEMMA StatementOut ==
  ASSUME TypeOK, OutInv, NEW r \in Slots, Step(r) \/ Fail(r)
  PROVE  SlotOut(r)'
<1>1. [Next]_vars /\ SlotOut(r)
  BY DEF Next, OutInv
<1>2. CASE Finish(r)
  BY <1>1, <1>2, FinishOut
<1>3. CASE SoftDelete(r) \/ UpdateRows(r) \/ UpdateStory(r)
  BY <1>1, <1>2, <1>3, GotoOut, GoOnOut DEF SoftDelete, UpdateRows, UpdateStory
<1>4. CASE Recount(r)
  <2>1. /\ req'[r].pc = "writeCount" /\ req'[r].n = CountOf(chapter)
        /\ req'[r].story = req[r].story /\ hist' = hist
    BY <1>4, StateFacts DEF Recount, Slot
  <2>2. CountOf(chapter) > 0 => hist.out # {}
    BY CountPositive DEF OutInv, RowsOut
  <2> QED
    BY <1>1, <2>1, <2>2 DEF SlotOut, Fine
<1>5. CASE TxUpdate(r)
  <2> DEFINE table == [chapter EXCEPT ![req[r].id] = Written(r, req[r].id)]
  <2>1. /\ req'[r].pc = "txCommit" /\ req'[r].n = CountOf(table) /\ req'[r].id = req[r].id
        /\ req'[r].rows = req[r].rows /\ req'[r].story = req[r].story /\ hist' = hist
    BY <1>5, StateFacts DEF TxUpdate, Slot
  <2>2. \A c \in Chapters : table[c] = IF c = req[r].id THEN Written(r, c) ELSE chapter[c]
    BY StateFacts
  <2> HIDE DEF table
  <2>3. /\ req[r].id \in Chapters /\ chapter[req[r].id] # None
        /\ Written(r, req[r].id).status \in {req[r].rows[req[r].id].status, chapter[req[r].id].status}
    BY <1>5, StateFacts, WrittenTyped DEF TxUpdate, At, Filled, InTransaction
  <2>4. CountOf(table) > 0 => hist.out # {} \/ req[r].rows[req[r].id].status = "PUBLISHED"
    BY <2>2, <2>3, CountPositive DEF OutInv, RowsOut
  <2> QED
    BY <1>1, <2>1, <2>4 DEF SlotOut, Fine
<1>6. CASE TxCommit(r)
  <2>1. CASE GoOn(r, "reopen") /\ hist' = [hist EXCEPT !.out = @ \cup {req[r].id}]
    <3>1. req[r].id \in hist'.out
      BY <2>1, StateFacts DEF History
    <3> QED
      BY <1>1, <2>1, <3>1, GoOnOut
  <2> QED
    BY <1>2, <1>6, <2>1 DEF TxCommit
<1>7. CASE Reopen(r)
  <2>1. req[r].id \in hist'.out
    BY <1>1, <1>7 DEF Reopen, SlotOut, At
  <2> QED
    BY <1>1, <1>2, <1>7, <2>1, GotoOut DEF Reopen
<1>8. CASE SelectRows(r) \/ SelectStory(r)
  <2>1. /\ req'[r].pc \in {"update", "txUpdate", "deleteUpdate", "updateStory", "deleteStoryUpdate"}
        /\ req'[r].story = req[r].story /\ hist' = hist
    BY <1>8, StateFacts DEF SelectRows, SelectStory, Slot, At
  <2> QED
    BY <1>1, <2>1 DEF SlotOut, Fine
<1> QED
  BY <1>2, <1>3, <1>4, <1>5, <1>6, <1>7, <1>8 DEF Step, InsertChapter, WriteCount, Announce,
     SoftDeleteStory, Fail

\* The handlers that take no step keep what they hold.
LEMMA OthersOut ==
  ASSUME TypeOK, [Next]_vars, NEW q \in Slots, SlotOut(q), req'[q] = req[q]
  PROVE  SlotOut(q)'
<1>1. hist.out \subseteq hist'.out
  BY HistoryGrows
<1> QED
  BY <1>1 DEF SlotOut, Fine

LEMMA StepTouchesOne ==
  ASSUME TypeOK, NEW r \in Slots, Step(r) \/ Fail(r) \/ (r \in Requests /\ Handler(r))
  PROVE  \A q \in Slots : q # r => req'[q] = req[q]
<1>1. \/ \E slot : req' = [req EXCEPT ![r] = slot]
  BY DEF Handler, Step, CreateChapter, UpdateChapter, SetCoverImage, ReorderChapters,
     DeleteChapter, PublishChapter, UnpublishChapter, ScheduleChapter, ModerateChapter,
     ModerateStory, EditStory, PublishStory, WithdrawStory, DeleteStory, InsertChapter, SelectRows, UpdateRows,
     SoftDelete, Recount, WriteCount, TxUpdate, TxCommit, Reopen, Announce, SelectStory,
     UpdateStory, SoftDeleteStory, Fail, Holds, HoldsStory, Finish, Enter, Goto, GoOn
<1> QED
  BY <1>1, StateFacts

LEMMA JobOut ==
  ASSUME TypeOK, OutInv, RunScheduler \/ NextDue, NEW q \in Slots
  PROVE  SlotOut(q)'
<1>1. [Next]_vars /\ Cron \in Slots /\ SlotOut(q) /\ SlotOut(Cron) /\ req[Cron] \in Slot
  BY SlotsFacts, StateFacts DEF Next, OutInv
<1>2. \E slot : Enter(Cron, slot) /\ slot.pc \in {"queue", "tx", "idle"}
                  /\ (slot.story = None \/ slot.story = req[Cron].story)
  <2>1. CASE RunScheduler
    <3>1. PICK rows : Enter(Cron, [Idle EXCEPT !.pc = "queue", !.rows = rows])
      BY <2>1 DEF RunScheduler
    <3>2. /\ [Idle EXCEPT !.pc = "queue", !.rows = rows].pc = "queue"
          /\ [Idle EXCEPT !.pc = "queue", !.rows = rows].story = None
      BY DEF Idle
    <3> QED
      BY <3>1, <3>2
  <2>2. ASSUME NEW c \in Chapters,
               Enter(Cron, [req[Cron] EXCEPT !.pc = "tx", !.id = c, !.rows[c] = Published(@)])
        PROVE  \E slot : Enter(Cron, slot) /\ slot.pc \in {"queue", "tx", "idle"}
                  /\ (slot.story = None \/ slot.story = req[Cron].story)
    <3> DEFINE slot == [req[Cron] EXCEPT !.pc = "tx", !.id = c, !.rows[c] = Published(@)]
    <3>1. slot.pc = "tx" /\ slot.story = req[Cron].story
      BY <1>1 DEF Slot
    <3>2. Enter(Cron, slot)
      BY <2>2
    <3> HIDE DEF slot
    <3> QED
      BY <3>1, <3>2
  <2>3. CASE Enter(Cron, Idle)
    BY <2>3 DEF Idle
  <2> QED
    BY <2>1, <2>2, <2>3 DEF NextDue
<1>3. PICK slot : Enter(Cron, slot) /\ slot.pc \in {"queue", "tx", "idle"}
                    /\ (slot.story = None \/ slot.story = req[Cron].story)
  BY <1>2
<1>4. SlotOut(Cron)'
  BY <1>1, <1>3, EnterOut DEF Watched, SlotOut
<1>5. q # Cron => req'[q] = req[q]
  BY <1>3, StateFacts DEF Enter
<1> QED
  BY <1>1, <1>4, <1>5, OthersOut

LEMMA SlotsOutStep ==
  ASSUME TypeOK, OutInv, [Next]_vars, NEW q \in Slots
  PROVE  SlotOut(q)'
<1>1. SlotOut(q)
  BY DEF OutInv
<1>2. CASE req' = req
  BY <1>1, <1>2, OthersOut
<1>3. CASE Crash
  <2>1. req'[q] = Idle
    BY <1>3 DEF Crash
  <2> QED
    BY <2>1 DEF SlotOut, Idle
<1>4. ASSUME NEW r \in Slots, Step(r) \/ Fail(r) PROVE SlotOut(q)'
  BY <1>1, <1>4, StepTouchesOne, StatementOut, OthersOut
<1>5. ASSUME NEW r \in Requests, Handler(r) PROVE SlotOut(q)'
  BY <1>1, <1>5, SlotsFacts, StepTouchesOne, HandlerOut, OthersOut
<1> QED
  BY <1>2, <1>3, <1>4, <1>5, JobOut DEF Next, vars, Tick

LEMMA FeedOutStep ==
  ASSUME TypeOK, OutInv, [Next]_vars
  PROVE  feed' \subseteq hist'.out
<1>1. hist.out \subseteq hist'.out /\ feed \subseteq hist.out
  BY HistoryGrows DEF OutInv
<1>2. ASSUME NEW r \in Slots, Announce(r) PROVE feed' \subseteq hist'.out
  <2>1. req[r].id \in hist.out
    BY <1>2 DEF Announce, At, OutInv, SlotOut
  <2> QED
    BY <1>1, <1>2, <2>1 DEF Announce
<1>3. feed' = feed \/ \E r \in Slots : Announce(r)
  BY DEF Next, vars, Handler, Step, CreateChapter, UpdateChapter, SetCoverImage, ReorderChapters,
     DeleteChapter, PublishChapter, UnpublishChapter, ScheduleChapter, ModerateChapter,
     ModerateStory, EditStory, PublishStory, WithdrawStory, DeleteStory, InsertChapter, SelectRows, UpdateRows,
     SoftDelete, Recount, WriteCount, TxUpdate, TxCommit, Reopen, SelectStory,
     UpdateStory, SoftDeleteStory, Fail, RunScheduler, NextDue, Tick, Crash, Unstored
<1> QED
  BY <1>1, <1>2, <1>3

LEMMA FineStep ==
  ASSUME TypeOK, OutInv, [Next]_vars
  PROVE  Fine(story)'
<1>1. hist.out \subseteq hist'.out /\ Fine(story) /\ story \in StoryRow
  BY HistoryGrows, StateFacts DEF OutInv
<1>2. CASE story' = story
  BY <1>1, <1>2 DEF Fine
<1>3. ASSUME NEW r \in Slots, WriteCount(r) PROVE Fine(story)'
  <2>1. req[r].n > 0 => hist.out # {}
    BY <1>3 DEF WriteCount, At, OutInv, SlotOut
  <2>2. story'.count = req[r].n /\ story'.status = story.status
    BY <1>1, <1>3 DEF WriteCount, StoryRow
  <2> QED
    BY <1>1, <2>1, <2>2 DEF Fine
<1>4. ASSUME NEW r \in Slots, TxCommit(r) PROVE Fine(story)'
  <2>1. req[r].n > 0 => hist.out # {} \/ req[r].rows[req[r].id].status = "PUBLISHED"
    BY <1>4 DEF TxCommit, At, OutInv, SlotOut
  <2>2. story'.count = req[r].n /\ story'.status = story.status
    BY <1>1, <1>4 DEF TxCommit, StoryRow
  <2>3. req[r].rows[req[r].id].status = "PUBLISHED" => hist'.out # {}
    BY <1>4, StateFacts DEF TxCommit, History
  <2> QED
    BY <1>1, <2>1, <2>2, <2>3 DEF Fine
<1>5. ASSUME NEW r \in Slots, UpdateStory(r) PROVE Fine(story)'
  <2>1. req[r].story # None /\ req[r].story \in StoryRow
    BY <1>5, StateFacts DEF UpdateStory, At, Filled, SavingStory
  <2>2. Fine(req[r].story)
    BY <2>1 DEF OutInv, SlotOut
  <2>3. /\ story'.status \in {req[r].story.status, story.status}
        /\ story'.count \in {req[r].story.count, story.count}
    BY <1>1, <1>5, <2>1, UpdatedStory DEF UpdateStory
  <2> QED
    BY <1>1, <2>2, <2>3 DEF Fine
<1>6. ASSUME NEW r \in Slots, SoftDeleteStory(r) PROVE Fine(story)'
  <2>1. story'.count = story.count /\ story'.status = story.status
    BY <1>1, <1>6 DEF SoftDeleteStory, StoryRow
  <2> QED
    BY <1>1, <2>1 DEF Fine
<1>7. \/ story' = story
      \/ \E r \in Slots : WriteCount(r) \/ TxCommit(r) \/ UpdateStory(r) \/ SoftDeleteStory(r)
  BY DEF Next, vars, Handler, Step, CreateChapter, UpdateChapter, SetCoverImage, ReorderChapters,
     DeleteChapter, PublishChapter, UnpublishChapter, ScheduleChapter, ModerateChapter,
     ModerateStory, EditStory, PublishStory, WithdrawStory, DeleteStory, InsertChapter, SelectRows, UpdateRows,
     SoftDelete, Recount, TxUpdate, Reopen, Announce, SelectStory, Fail, RunScheduler, NextDue, Tick, Crash,
     Unstored
<1> QED
  BY <1>2, <1>3, <1>4, <1>5, <1>6, <1>7

LEMMA OutStep == TypeOK /\ OutInv /\ [Next]_vars => OutInv'
<1> SUFFICES ASSUME TypeOK, OutInv, [Next]_vars PROVE OutInv'
  OBVIOUS
<1>1. RowsOut'
  BY RowsOutStep DEF OutInv
<1> QED
  BY <1>1, FeedOutStep, FineStep, SlotsOutStep DEF OutInv

LEMMA InitOut == Init => OutInv
  BY DEF Init, OutInv, RowsOut, SlotOut, Fine, Nothing, Idle, InitHist

\* A Story goes out only after one of its Chapters did, although its publication
\* trusts a cached count that overlapping handlers, failures and crashes may
\* leave wrong.
THEOREM StoriesEarned == Spec => []StoryEarned
<1>1. OutInv => StoryEarned
  BY DEF OutInv, Fine, StoryEarned
<1> QED
  BY <1>1, InitOut, OutStep, Typing, PTL DEF Spec

\* The activity feed never announces a Chapter whose publication was not
\* committed.
THEOREM Announced == Spec => []AnnouncedWentOut
<1>1. OutInv => AnnouncedWentOut
  BY DEF OutInv, AnnouncedWentOut
<1> QED
  BY <1>1, InitOut, OutStep, Typing, PTL DEF Spec

--------------------------------------------------------------------------------
(* The count and the schedule, with one handler or one run of the job at a *)
(* time.                                                                   *)

Alone == \A r, s \in Slots : req[r].pc # "idle" /\ req[s].pc # "idle" => r = s

Counting == {"txCommit", "writeCount"}
Updating == {"update", "deleteUpdate", "txUpdate", "txCommit"}

\* What a handler relies on: a transaction commits the count of the table with its
\* own row; a recount is of the table; a story entity has the count that is stored.
CountHeld(r) ==
  /\ req[r].pc = "txCommit" =>
       req[r].n = CountOf([chapter EXCEPT ![req[r].id] = Written(r, req[r].id)])
  /\ req[r].pc = "writeCount" => req[r].n = CountOf(chapter)
  /\ req[r].pc \in SavingStory => req[r].story.count = story.count

CountInv == Alone /\ \A r \in Slots : CountHeld(r)

LEMMA InitCount == Init => CountInv
  BY DEF Init, Idle, CountInv, Alone, CountHeld, SavingStory

\* At most one slot was busy and at most one other changes: the bound on the number
\* of busy slots is about a finite set.
LEMMA StaysAlone ==
  ASSUME TypeOK, Alone, NEW r \in Slots, \A q \in Slots : q # r => req'[q] = req[q],
         Cardinality(Busy') <= 1
  PROVE  Alone'
<1> SUFFICES ASSUME NEW a \in Slots, NEW b \in Slots, req'[a].pc # "idle",
                    req'[b].pc # "idle", a # b
             PROVE  FALSE
  BY DEF Alone
<1>1. Busy' = {q \in Slots : req'[q].pc # "idle"}
  BY DEF Busy, At
<1>2. Busy' = {a, b}
  <2>1. {a, b} \subseteq Busy'
    BY <1>1
  <2>2. ASSUME NEW q \in Slots, req'[q].pc # "idle", q # a, q # b PROVE FALSE
    <3>1. \A s \in {a, b, q} : s # r => req[s].pc # "idle"
      BY <2>2
    <3> QED
      BY <2>2, <3>1 DEF Alone
  <2> QED
    BY <1>1, <2>1, <2>2
<1>3. IsFiniteSet({a}) /\ Cardinality({a}) = 1
  BY FS_Singleton
<1>4. Cardinality({a} \cup {b}) = 2
  <2>1. b \notin {a}
    OBVIOUS
  <2>2. Cardinality({a} \cup {b}) = Cardinality({a}) + 1
    BY <1>3, <2>1, FS_AddElement
  <2> QED
    BY <1>3, <2>2
<1>5. {a} \cup {b} = {a, b}
  OBVIOUS
<1> QED
  BY <1>2, <1>4, <1>5

\* A handler that begins has loaded the Story as it is stored, and counted nothing.
LEMMA HandlerCounts ==
  ASSUME TypeOK, NEW r \in Requests, Handler(r)
  PROVE  /\ chapter' = chapter /\ story' = story
         /\ req'[r].pc \notin Counting \cup Updating
         /\ req'[r].pc \in SavingStory => req'[r].story.count = story.count
<1>1. r \in Slots /\ req \in [Slots -> Slot] /\ story \in StoryRow
  BY SlotsFacts, StateFacts
<1>2. ASSUME NEW pc \in {"save", "deleteSave", "tx"}, NEW c, NEW entity, Holds(r, pc, c, entity)
      PROVE  req'[r].pc = pc
  BY <1>1, <1>2 DEF Holds, Enter, Idle
<1>3. ASSUME NEW pc \in {"saveStory", "deleteStorySave"}, NEW entity, HoldsStory(r, pc, entity)
      PROVE  req'[r].pc = pc /\ req'[r].story = entity
  BY <1>1, <1>3 DEF HoldsStory, Enter, Idle
<1>4. chapter' = chapter /\ story' = story
  BY DEF Handler, CreateChapter, UpdateChapter, SetCoverImage, ReorderChapters, DeleteChapter,
     PublishChapter, UnpublishChapter, ScheduleChapter, ModerateChapter, ModerateStory,
     EditStory, PublishStory, WithdrawStory, DeleteStory, Unstored
<1>5. CASE CreateChapter(r)
  <2>1. req'[r].pc = "insert"
    BY <1>1, <1>5 DEF CreateChapter, Enter, Idle
  <2> QED
    BY <1>4, <2>1 DEF Counting, Updating, SavingStory
<1>6. CASE ReorderChapters(r)
  <2>1. req'[r].pc = "save"
    BY <1>1, <1>6 DEF ReorderChapters, Enter, Idle
  <2> QED
    BY <1>4, <2>1 DEF Counting, Updating, SavingStory
<1>7. CASE \/ SetCoverImage(r) \/ DeleteChapter(r) \/ PublishChapter(r) \/ UnpublishChapter(r)
           \/ ScheduleChapter(r) \/ ModerateChapter(r) \/ UpdateChapter(r)
  <2>1. req'[r].pc \in {"save", "deleteSave", "tx"}
    BY <1>2, <1>7 DEF SetCoverImage, DeleteChapter, PublishChapter, UnpublishChapter,
       ScheduleChapter, ModerateChapter, UpdateChapter
  <2> QED
    BY <1>4, <2>1 DEF Counting, Updating, SavingStory
<1>8. CASE \/ ModerateStory(r) \/ EditStory(r) \/ PublishStory(r) \/ WithdrawStory(r)
           \/ DeleteStory(r)
  <2>1. PICK pc \in {"saveStory", "deleteStorySave"}, entity \in StoryRow :
          HoldsStory(r, pc, entity) /\ entity.count = story.count
    <3>1. \A row \in {[story EXCEPT !.removed = ~@], story, [story EXCEPT !.status = "PUBLISHED"],
                      [story EXCEPT !.status = "UNPUBLISHED"], [story EXCEPT !.status = "ARCHIVED"]} :
            row \in StoryRow /\ row.count = story.count
      BY <1>1 DEF StoryRow, StoryStatus
    <3> QED
      BY <1>8, <3>1 DEF ModerateStory, EditStory, PublishStory, WithdrawStory, DeleteStory
  <2> QED
    BY <1>3, <1>4, <2>1 DEF Counting, Updating, SavingStory
<1> QED
  BY <1>5, <1>6, <1>7, <1>8 DEF Handler

\* A statement leaves its handler before a count or an update only by taking the
\* count, or by finding the columns to write, from the table as it is.
LEMMA StatementCounts ==
  ASSUME TypeOK, NEW r \in Slots, Step(r) \/ Fail(r)
  PROVE  \/ /\ TxUpdate(r) /\ chapter' = chapter /\ req[r].pc = "txUpdate" /\ req'[r].pc = "txCommit"
            /\ req'[r].id = req[r].id /\ req'[r].rows = req[r].rows /\ req'[r].dirty = req[r].dirty
            /\ req'[r].n = CountOf([chapter EXCEPT ![req[r].id] = Written(r, req[r].id)])
         \/ /\ Recount(r) /\ chapter' = chapter /\ req'[r].pc = "writeCount"
            /\ req'[r].n = CountOf(chapter)
         \/ /\ SelectRows(r) /\ chapter' = chapter /\ req'[r].pc \notin Counting \cup SavingStory
            /\ req'[r].id = req[r].id /\ req'[r].rows = req[r].rows
            /\ \A c \in Chapters : Saves(r, c) =>
                 req'[r].dirty[c] = Differing(req[r].rows[c], chapter[c], Columns)
         \/ /\ SelectStory(r) /\ story' = story /\ req'[r].story = req[r].story
            /\ req[r].pc \in SavingStory /\ req'[r].pc \notin Counting \cup Updating
         \/ req'[r].pc \notin Counting \cup SavingStory \cup Updating
<1>1. req \in [Slots -> Slot]
  BY StateFacts
<1>2. ASSUME Finish(r) PROVE req'[r].pc \in {"idle", "queue"}
  BY <1>1, <1>2 DEF Finish, Enter, Idle, Slot
<1>3. ASSUME NEW pc, Goto(r, pc) \/ GoOn(r, pc) PROVE req'[r].pc = pc
  BY <1>1, <1>3 DEF Goto, GoOn, Slot
<1>4. CASE TxUpdate(r)
  BY <1>1, <1>4 DEF TxUpdate, At, Unstored, Slot
<1>5. CASE Recount(r)
  BY <1>1, <1>5 DEF Recount, Unstored, Slot
<1>6. CASE SelectRows(r)
  <2>1. /\ chapter' = chapter /\ req'[r].pc \in {"update", "txUpdate", "deleteUpdate"}
        /\ req'[r].id = req[r].id /\ req'[r].rows = req[r].rows
    BY <1>1, <1>6 DEF SelectRows, Unstored, Slot, At
  <2>2. \A c \in Chapters : Saves(r, c) =>
          req'[r].dirty[c] = Differing(req[r].rows[c], chapter[c], Columns)
    BY <1>1, <1>6 DEF SelectRows, Slot
  <2> QED
    BY <1>6, <2>1, <2>2 DEF Counting, SavingStory
<1>7. CASE SelectStory(r)
  <2>1. /\ story' = story /\ req'[r].story = req[r].story
        /\ req[r].pc \in {"saveStory", "deleteStorySave"}
        /\ req'[r].pc \in {"updateStory", "deleteStoryUpdate"}
    BY <1>1, <1>7 DEF SelectStory, Unstored, Slot, At
  <2> QED
    BY <1>7, <2>1 DEF Counting, SavingStory, Updating
<1>8. CASE \/ InsertChapter(r) \/ UpdateRows(r) \/ SoftDelete(r) \/ WriteCount(r) \/ TxCommit(r)
           \/ Reopen(r) \/ Announce(r) \/ UpdateStory(r) \/ SoftDeleteStory(r) \/ Fail(r)
  <2>1. Finish(r) \/ \E pc \in {"softDelete", "recount", "reopen", "announce", "softDeleteStory"} :
                       Goto(r, pc) \/ GoOn(r, pc)
    BY <1>8 DEF InsertChapter, UpdateRows, SoftDelete, WriteCount, TxCommit, Reopen, Announce,
       UpdateStory, SoftDeleteStory, Fail
  <2> QED
    BY <1>2, <1>3, <2>1 DEF Counting, SavingStory, Updating
<1> QED
  BY <1>4, <1>5, <1>6, <1>7, <1>8 DEF Step

\* Only a slot that is not idle executes a statement.
LEMMA StatementBusy ==
  ASSUME NEW r \in Slots, Step(r) \/ Fail(r)
  PROVE  req[r].pc # "idle"
  BY DEF Step, InsertChapter, SelectRows, UpdateRows, SoftDelete, Recount, WriteCount, TxUpdate,
     TxCommit, Reopen, Announce, SelectStory, UpdateStory, SoftDeleteStory, Fail, At

\* What a slot relies on stands while neither it nor the tables change, and an idle
\* slot relies on nothing.
LEMMA HeldStays ==
  ASSUME NEW q \in Slots, CountHeld(q), req'[q] = req[q],
         req[q].pc = "idle" \/ (chapter' = chapter /\ story' = story)
  PROVE  CountHeld(q)'
<1>1. CASE req[q].pc = "idle"
  BY <1>1 DEF CountHeld, SavingStory
<1>2. CASE chapter' = chapter /\ story' = story
  BY <1>2 DEF CountHeld, CountOf, Counted, Written
<1> QED
  BY <1>1, <1>2

LEMMA JobCounts ==
  ASSUME TypeOK, RunScheduler \/ NextDue
  PROVE  /\ chapter' = chapter /\ story' = story
         /\ req'[Cron].pc \notin Counting \cup SavingStory \cup Updating
         /\ \A q \in Slots : q # Cron => req'[q] = req[q]
<1>1. req \in [Slots -> Slot] /\ Cron \in Slots
  BY StateFacts, SlotsFacts
<1>2. CASE RunScheduler
  <2>1. PICK rows : req' = [req EXCEPT ![Cron] = [Idle EXCEPT !.pc = "queue", !.rows = rows]]
    BY <1>2 DEF RunScheduler, Enter
  <2>2. [Idle EXCEPT !.pc = "queue", !.rows = rows].pc = "queue"
    BY DEF Idle
  <2>3. chapter' = chapter /\ story' = story
    BY <1>2 DEF RunScheduler, Unstored
  <2> QED
    BY <1>1, <2>1, <2>2, <2>3 DEF Counting, Updating, SavingStory
<1>3. CASE NextDue
  <2>1. chapter' = chapter /\ story' = story
    BY <1>3 DEF NextDue, Unstored
  <2>2. \E slot : Enter(Cron, slot) /\ slot.pc \in {"tx", "idle"}
    <3>1. ASSUME NEW c \in Chapters,
                 Enter(Cron, [req[Cron] EXCEPT !.pc = "tx", !.id = c, !.rows[c] = Published(@)])
          PROVE  \E slot : Enter(Cron, slot) /\ slot.pc \in {"tx", "idle"}
      <4> DEFINE slot == [req[Cron] EXCEPT !.pc = "tx", !.id = c, !.rows[c] = Published(@)]
      <4>1. slot.pc = "tx"
        BY <1>1 DEF Slot
      <4>2. Enter(Cron, slot)
        BY <3>1
      <4> HIDE DEF slot
      <4> QED
        BY <4>1, <4>2
    <3>2. CASE Enter(Cron, Idle)
      BY <3>2 DEF Idle
    <3> QED
      BY <1>3, <3>1, <3>2 DEF NextDue
  <2> QED
    BY <1>1, <2>1, <2>2 DEF Enter, Counting, Updating, SavingStory
<1> QED
  BY <1>2, <1>3

LEMMA CountStep == TypeOK /\ CountInv /\ [Serial]_vars => CountInv'
<1> SUFFICES ASSUME TypeOK, CountInv, [Serial]_vars PROVE CountInv'
  OBVIOUS
<1>1. Alone /\ \A q \in Slots : CountHeld(q)
  BY DEF CountInv
<1>2. ASSUME UNCHANGED <<chapter, story, req>> PROVE CountInv'
  <2>1. Alone'
    BY <1>1, <1>2 DEF Alone
  <2> QED
    BY <1>1, <1>2, <2>1, HeldStays DEF CountInv
<1>3. ASSUME Crash PROVE CountInv'
  BY <1>3 DEF Crash, CountInv, Alone, CountHeld, Idle, SavingStory
<1>4. ASSUME NEW r \in Requests, Handler(r), Cardinality(Busy') <= 1 PROVE CountInv'
  <2>1. r \in Slots /\ \A q \in Slots : q # r => req'[q] = req[q]
    BY <1>4, SlotsFacts, StepTouchesOne
  <2>2. Alone'
    BY <1>1, <1>4, <2>1, StaysAlone
  <2>3. CountHeld(r)'
    BY <1>4, HandlerCounts DEF CountHeld, Counting
  <2>4. \A q \in Slots : q # r => CountHeld(q)'
    BY <1>1, <1>4, <2>1, HandlerCounts, HeldStays
  <2> QED
    BY <2>2, <2>3, <2>4 DEF CountInv
<1>5. ASSUME NEW r \in Slots, Step(r) \/ Fail(r), Cardinality(Busy') <= 1 PROVE CountInv'
  <2>1. \A q \in Slots : q # r => req'[q] = req[q]
    BY <1>5, StepTouchesOne
  <2>2. Alone'
    BY <1>1, <1>5, <2>1, StaysAlone
  <2>3. CountHeld(r)'
    BY <1>1, <1>5, StatementCounts, ZenonT(60) DEF CountHeld, Counting, SavingStory, CountOf, Counted, Written
  <2>4. ASSUME NEW q \in Slots, q # r PROVE CountHeld(q)'
    <3>1. req[q].pc = "idle"
      BY <1>1, <1>5, <2>4, StatementBusy DEF Alone
    <3> QED
      BY <1>1, <2>1, <2>4, <3>1, HeldStays
  <2> QED
    BY <2>2, <2>3, <2>4 DEF CountInv
<1>6. ASSUME RunScheduler \/ NextDue, Cardinality(Busy') <= 1 PROVE CountInv'
  <2>1. Cron \in Slots
    BY SlotsFacts
  <2>2. Alone'
    BY <1>1, <1>6, <2>1, JobCounts, StaysAlone
  <2>3. CountHeld(Cron)'
    BY <1>6, JobCounts DEF CountHeld, Counting, SavingStory
  <2>4. \A q \in Slots : q # Cron => CountHeld(q)'
    BY <1>1, <1>6, JobCounts, HeldStays
  <2> QED
    BY <2>2, <2>3, <2>4 DEF CountInv
<1> QED
  BY <1>2, <1>3, <1>4, <1>5, <1>6 DEF Serial, Next, vars, Tick

\* What TypeOK, the invariant and a step give for CountFollows.
LEMMA CountMoves ==
  ASSUME TypeOK, CountInv, [Serial]_vars
  PROVE  /\ story'.count # story.count => story'.count = Cardinality(Readable')
         /\ (\E r \in Slots : At(r, "txCommit") /\ req'[r].pc # "txCommit" /\ chapter' # chapter) =>
              story'.count = Cardinality(Readable')
<1>1. Alone /\ \A q \in Slots : CountHeld(q)
  BY DEF CountInv
<1>2. Cardinality(Readable') = CountOf(chapter')
  <2>1. Readable' = {c \in Chapters : Counted(chapter'[c])}
    BY DEF Readable, Counted, Live
  <2> QED
    BY <2>1 DEF CountOf
<1>3. story \in StoryRow
  BY StateFacts
<1>4. ASSUME NEW r \in Slots, TxCommit(r) PROVE story'.count = CountOf(chapter')
  BY <1>1, <1>3, <1>4 DEF TxCommit, At, CountHeld, StoryRow
<1>5. ASSUME NEW r \in Slots, WriteCount(r)
      PROVE  story'.count = CountOf(chapter') /\ chapter' = chapter
  BY <1>1, <1>3, <1>5 DEF WriteCount, At, CountHeld, StoryRow
<1>6. ASSUME NEW r \in Slots, UpdateStory(r)
      PROVE  story'.count = story.count /\ chapter' = chapter
  <2>1. req[r].pc \in SavingStory /\ req[r].story \in StoryRow
    BY <1>6, StateFacts DEF UpdateStory, At, Filled, SavingStory
  <2>2. req[r].story.count = story.count
    BY <1>1, <2>1 DEF CountHeld
  <2> QED
    BY <1>3, <1>6, <2>1, <2>2, UpdatedStory DEF UpdateStory
<1>7. ASSUME NEW r \in Slots, SoftDeleteStory(r)
      PROVE  story'.count = story.count /\ chapter' = chapter
  BY <1>3, <1>7 DEF SoftDeleteStory, StoryRow
<1>8. ASSUME NEW r \in Slots, InsertChapter(r) \/ UpdateRows(r) \/ SoftDelete(r)
      PROVE  story' = story /\ req[r].pc \notin {"txCommit", "idle"}
  BY <1>8 DEF InsertChapter, UpdateRows, SoftDelete, At
<1>9. \/ story' = story /\ chapter' = chapter
      \/ \E r \in Slots : \/ TxCommit(r) \/ WriteCount(r) \/ UpdateStory(r) \/ SoftDeleteStory(r)
                          \/ InsertChapter(r) \/ UpdateRows(r) \/ SoftDelete(r)
  <2>1. ASSUME NEW r \in Requests, Handler(r) PROVE story' = story /\ chapter' = chapter
    BY <2>1, HandlerCounts
  <2>2. ASSUME RunScheduler \/ NextDue PROVE story' = story /\ chapter' = chapter
    BY <2>2, JobCounts
  <2>3. ASSUME NEW r \in Slots, \/ SelectRows(r) \/ Recount(r) \/ TxUpdate(r) \/ Reopen(r)
                                 \/ Announce(r) \/ SelectStory(r) \/ Fail(r)
        PROVE  story' = story /\ chapter' = chapter
    BY <2>3 DEF SelectRows, Recount, TxUpdate, Reopen, Announce, SelectStory, Fail, Unstored
  <2> QED
    BY <2>1, <2>2, <2>3 DEF Serial, Next, Step, vars, Tick, Crash, Unstored
<1>10. ASSUME NEW r \in Slots, InsertChapter(r) \/ UpdateRows(r) \/ SoftDelete(r), NEW q \in Slots
       PROVE  ~At(q, "txCommit")
  BY <1>1, <1>8, <1>10 DEF Alone, At
<1> QED
  BY <1>2, <1>4, <1>5, <1>6, <1>7, <1>8, <1>9, <1>10

\* With one handler, or one run of the job, at a time the cached count of readable
\* Chapters never moves to a wrong value and is exact once a publication or a
\* withdrawal has committed, although failures and moderation leave it stale.
THEOREM CountFollowing == SerialSpec => CountFollows
<1>1. SerialSpec => Spec
  BY PTL DEF SerialSpec, Spec, Serial
<1>2. TypeOK /\ CountInv /\ [Serial]_vars =>
        [/\ story'.count # story.count => story'.count = Cardinality(Readable')
         /\ (\E r \in Slots : At(r, "txCommit") /\ req'[r].pc # "txCommit" /\ chapter' # chapter) =>
              story'.count = Cardinality(Readable')]_vars
  BY CountMoves
<1> QED
  BY <1>1, <1>2, InitCount, CountStep, Typing, PTL DEF SerialSpec, CountFollows

\* A save writes the columns that differ from the row as it still is.
SavesExactly(q) ==
  req[q].pc \in Updating => \A c \in Chapters :
    Saves(q, c) => req[q].dirty[c] = Differing(req[q].rows[c], chapter[c], Columns)

Punctual(row) == row.status = "SCHEDULED" <=> row.at # None

\* Every stored row, and every row a handler holds, has a time exactly while it waits.
ScheduleInv ==
  /\ \A c \in Chapters : chapter[c] # None => Punctual(chapter[c])
  /\ \A q \in Slots, c \in Chapters : req[q].rows[c] # None => Punctual(req[q].rows[c])
  /\ \A q \in Slots : SavesExactly(q)

LEMMA InitSchedule == Init => ScheduleInv
  BY DEF Init, ScheduleInv, Nothing, Idle, SavesExactly, Updating

LEMMA WrittenExactly ==
  ASSUME TypeOK, NEW q \in Slots, NEW c \in Chapters, SavesExactly(q), Saves(q, c),
         req[q].pc \in Updating
  PROVE  Written(q, c).status = req[q].rows[c].status /\ Written(q, c).at = req[q].rows[c].at
<1> DEFINE entity == req[q].rows[c]
           row == chapter[c]
<1>1. entity \in ChapterRow /\ row \in ChapterRow /\ row # None
  BY StateFacts DEF Saves, Filled
<1>2. Written(q, c) = Updated(row, entity, Differing(entity, row, Columns))
  BY DEF SavesExactly, Written
<1> HIDE DEF entity, row
<1>3. /\ "status" \in Differing(entity, row, Columns) <=> entity.status # row.status
      /\ "at" \in Differing(entity, row, Columns) <=> entity.at # row.at
  BY DEF Differing, Columns
<1>4. Written(q, c).status = entity.status /\ Written(q, c).at = entity.at
  BY <1>1, <1>2, <1>3, UpdatedRow
<1> QED
  BY <1>4 DEF entity

\* A row a handler loads, or turns, keeps or drops its time with its status.
LEMMA HeldPunctual ==
  ASSUME TypeOK, ScheduleInv, [Next]_vars, NEW q \in Slots, NEW c \in Chapters,
         req'[q].rows[c] # None
  PROVE  Punctual(req'[q].rows[c])
<1> DEFINE entity == req'[q].rows[c]
<1>1. Source(q, c, entity)
  BY StepSlots DEF SlotsFrom
<1>2. CASE req[q].rows[c] # None /\ entity = req[q].rows[c]
  BY <1>2 DEF ScheduleInv
<1>3. CASE Taken(q, c, entity)
  <2>1. Punctual(chapter[c])
    BY <1>3 DEF Taken, ScheduleInv
  <2> HIDE DEF entity
  <2>2. Punctual(entity)
    BY <1>3, <2>1 DEF Taken, Punctual
  <2> QED
    BY <2>2 DEF entity
<1>4. CASE Due(chapter[c]) /\ entity = chapter[c]
  BY <1>4 DEF Due, ScheduleInv
<1>5. CASE req[q].rows[c] # None /\ entity = Published(req[q].rows[c])
  <2>1. req[q].rows[c] \in ChapterRow
    BY <1>5, StateFacts
  <2> QED
    BY <1>5, <2>1 DEF Published, ChapterRow, Punctual
<1> QED
  BY <1>1, <1>2, <1>3, <1>4, <1>5 DEF Source

LEMMA StoredPunctual ==
  ASSUME TypeOK, ScheduleInv, [Next]_vars, NEW c \in Chapters, chapter'[c] # None
  PROVE  Punctual(chapter'[c])
<1>1. Wrote(c)
  BY StepChapters DEF ChaptersFrom
<1>2. CASE chapter[c] # None /\ chapter'[c].status = chapter[c].status /\ chapter'[c].at = chapter[c].at
  BY <1>2 DEF ScheduleInv, Punctual
<1>3. CASE chapter'[c].status = "DRAFT" /\ chapter'[c].at = None
  BY <1>3 DEF Punctual
<1>4. ASSUME NEW q \in Slots, req[q].pc \in {"update", "deleteUpdate", "txCommit"}, Saves(q, c),
             chapter'[c] = Written(q, c)
      PROVE  Punctual(chapter'[c])
  <2>1. req[q].pc \in Updating /\ SavesExactly(q) /\ Punctual(req[q].rows[c])
    BY <1>4 DEF Updating, ScheduleInv, Saves
  <2> QED
    BY <1>4, <2>1, WrittenExactly DEF Punctual
<1> QED
  BY <1>1, <1>2, <1>3, <1>4 DEF Wrote

\* A save stays exact while no other handler is there to write.
LEMMA ExactStays ==
  ASSUME NEW q \in Slots, SavesExactly(q), req'[q] = req[q],
         req[q].pc = "idle" \/ chapter' = chapter
  PROVE  SavesExactly(q)'
  BY DEF SavesExactly, Saves, Updating

LEMMA ExactStep ==
  ASSUME TypeOK, CountInv, ScheduleInv, [Serial]_vars, NEW q \in Slots
  PROVE  SavesExactly(q)'
<1>1. Alone /\ SavesExactly(q)
  BY DEF CountInv, ScheduleInv
<1>2. ASSUME UNCHANGED <<chapter, req>> PROVE SavesExactly(q)'
  BY <1>1, <1>2, ExactStays
<1>3. ASSUME Crash PROVE SavesExactly(q)'
  BY <1>3 DEF Crash, SavesExactly, Idle, Updating
<1>4. ASSUME NEW r \in Requests, Handler(r) PROVE SavesExactly(q)'
  <2>1. r \in Slots /\ (q # r => req'[q] = req[q])
    BY <1>4, SlotsFacts, StepTouchesOne
  <2>2. CASE q = r
    BY <1>4, <2>2, HandlerCounts DEF SavesExactly
  <2> QED
    BY <1>1, <1>4, <2>1, <2>2, HandlerCounts, ExactStays
<1>5. ASSUME NEW r \in Slots, Step(r) \/ Fail(r) PROVE SavesExactly(q)'
  <2>1. CASE q # r
    <3>1. req'[q] = req[q] /\ req[q].pc = "idle"
      BY <1>1, <1>5, <2>1, StepTouchesOne, StatementBusy DEF Alone
    <3> QED
      BY <1>1, <3>1, ExactStays
  <2>2. CASE q = r
    BY <1>1, <1>5, <2>2, StatementCounts DEF SavesExactly, Saves, Updating, Counting
  <2> QED
    BY <2>1, <2>2
<1>6. ASSUME RunScheduler \/ NextDue PROVE SavesExactly(q)'
  <2>1. CASE q = Cron
    BY <1>6, <2>1, JobCounts DEF SavesExactly
  <2> QED
    BY <1>1, <1>6, <2>1, JobCounts, ExactStays
<1> QED
  BY <1>2, <1>3, <1>4, <1>5, <1>6 DEF Serial, Next, vars, Tick

LEMMA ScheduleStep == TypeOK /\ CountInv /\ ScheduleInv /\ [Serial]_vars => ScheduleInv'
<1> SUFFICES ASSUME TypeOK, CountInv, ScheduleInv, [Serial]_vars PROVE ScheduleInv'
  OBVIOUS
<1>1. [Next]_vars
  BY DEF Serial
<1> QED
  BY <1>1, HeldPunctual, StoredPunctual, ExactStep DEF ScheduleInv

\* With one handler, or one run of the job, at a time a Chapter has a time to wait
\* for exactly while it waits for it: the columns of a save differ from the row it
\* will be written to.
THEOREM Schedules == SerialSpec => []ScheduleConsistent
<1>1. SerialSpec => Spec
  BY PTL DEF SerialSpec, Spec, Serial
<1>2. ScheduleInv => ScheduleConsistent
  BY DEF ScheduleInv, ScheduleConsistent, Punctual
<1> QED
  BY <1>1, <1>2, InitCount, InitSchedule, CountStep, ScheduleStep, Typing, PTL DEF SerialSpec
================================================================================
