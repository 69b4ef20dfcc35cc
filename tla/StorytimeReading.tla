--------------------------- MODULE StorytimeReading ---------------------------
(***************************************************************************)
(* One reader's progress through one Story whose Chapters come and go.     *)
(* Handlers are taken one at a time: what two of them do to each other by  *)
(* saving rows they loaded is the subject of the other Storytime modules.  *)
(*                                                                         *)
(* A Chapter's percentage is kept as a level: 0 below                      *)
(* MEANINGFUL_PROGRESS_PERCENT (UNREAD), 1 from there (IN_PROGRESS), 2     *)
(* from CHAPTER_COMPLETE_PERCENT (READ).                                   *)
(***************************************************************************)
EXTENDS Naturals, FiniteSets

CONSTANTS
  None,
  Chapters

VARIABLES
  readable,  \* Chapters published and not removed by moderation
  removed,   \* Chapters removed by moderation
  level,     \* storytime_user_chapter_progress, None without a row
  progress,  \* storytime_user_story_progress, or None
  restored   \* history: Chapters that came back since progress was derived

vars == <<readable, removed, level, progress, restored>>

Statuses == {"NOT_STARTED", "IN_PROGRESS", "COMPLETED", "ON_HOLD", "ABANDONED"}
Deliberate == {"ON_HOLD", "ABANDONED"}
Levels == 0..2

\* chosen is history: the status is the reader's own choice.
StoryRow == [status : Statuses, known : 0..Cardinality(Chapters), chosen : BOOLEAN]
NewRow == [status |-> "NOT_STARTED", known |-> 0, chosen |-> FALSE]

\* findOrCreateStoryProgress.
Found == IF progress = None THEN NewRow ELSE progress

ReadCount(levels) == Cardinality({c \in readable : levels[c] = 2})

\* Mutant of Derived: a status once completed is kept.
DerivedOnce(levels) ==
  LET read == ReadCount(levels) IN
  CASE Found.status \in Deliberate \cup {"COMPLETED"} -> Found
    [] OTHER -> [status |-> IF read > 0 /\ read = Cardinality(readable) THEN "COMPLETED"
                            ELSE IF read > 0 THEN "IN_PROGRESS" ELSE "NOT_STARTED",
                 known |-> Cardinality(readable), chosen |-> FALSE]

\* applyDerivedStatus.
Derived(levels) ==
  LET read == ReadCount(levels)
      total == Cardinality(readable) IN
  CASE Found.status \in Deliberate -> Found
    [] Found.status \notin Deliberate /\ total > 0 /\ read >= total ->
         [status |-> "COMPLETED", known |-> total, chosen |-> FALSE]
    [] Found.status \notin Deliberate /\ 0 < read /\ read < total ->
         [status |-> "IN_PROGRESS", known |-> total, chosen |-> FALSE]
    [] OTHER -> [Found EXCEPT !.status = "NOT_STARTED", !.chosen = FALSE]

\* refreshStoryProgress, at the end of every handler that moves a Chapter.
Refresh ==
  /\ progress' = Derived(level')
  /\ restored' = {}

(***************************************************************************)
(* The reader.                                                             *)
(***************************************************************************)
\* updateChapterProgress: a position never moves the Chapter backwards.
ReadTo(c, position) ==
  /\ level' = [level EXCEPT ![c] = IF @ # None /\ @ > position THEN @ ELSE position]
  /\ Refresh
  /\ UNCHANGED <<readable, removed>>

SetChapterRead(c, isRead) ==
  /\ level' = [level EXCEPT ![c] = IF isRead THEN 2 ELSE 0]
  /\ Refresh
  /\ UNCHANGED <<readable, removed>>

CompleteStory ==
  /\ level' = [c \in Chapters |-> IF c \in readable THEN 2 ELSE level[c]]
  /\ Refresh
  /\ UNCHANGED <<readable, removed>>

SetStoryStatus(status) ==
  /\ progress' = [Found EXCEPT !.status = status, !.chosen = TRUE]
  /\ UNCHANGED <<readable, removed, level, restored>>

ResetStory ==
  /\ level' = [c \in Chapters |-> None] /\ progress' = None
  /\ UNCHANGED <<readable, removed, restored>>

(***************************************************************************)
(* The Story.                                                              *)
(***************************************************************************)
\* Mutant of ReopenCompletedReaders: everybody who began is put back.
ReopenEveryReader ==
  progress' = IF progress = None THEN None
              ELSE [progress EXCEPT !.status = "IN_PROGRESS", !.chosen = FALSE]

ReopenCompletedReaders ==
  progress' = IF Found.status = "COMPLETED"
                THEN [progress EXCEPT !.status = "IN_PROGRESS", !.chosen = FALSE]
              ELSE progress

PublishChapter(c) ==
  /\ c \notin readable \cup removed
  /\ readable' = readable \cup {c}
  /\ ReopenCompletedReaders
  /\ UNCHANGED <<removed, level, restored>>

\* Unpublished, scheduled again or deleted.
WithdrawChapter(c) ==
  /\ c \in readable
  /\ readable' = readable \ {c}
  /\ UNCHANGED <<removed, level, progress, restored>>

RemoveChapter(c) ==
  /\ c \in readable
  /\ readable' = readable \ {c} /\ removed' = removed \cup {c}
  /\ UNCHANGED <<level, progress, restored>>

\* A restoration reopens nobody.
RestoreChapter(c) ==
  /\ c \in removed
  /\ readable' = readable \cup {c} /\ removed' = removed \ {c}
  /\ restored' = restored \cup {c}
  /\ UNCHANGED <<level, progress>>

Init ==
  /\ readable = {} /\ removed = {} /\ restored = {}
  /\ level = [c \in Chapters |-> None] /\ progress = None

Next ==
  \/ \E c \in Chapters, position \in Levels : ReadTo(c, position)
  \/ \E c \in Chapters, isRead \in BOOLEAN : SetChapterRead(c, isRead)
  \/ CompleteStory \/ ResetStory
  \/ \E status \in Statuses : SetStoryStatus(status)
  \/ \E c \in Chapters : PublishChapter(c) \/ WithdrawChapter(c) \/ RemoveChapter(c) \/ RestoreChapter(c)

Spec == Init /\ [][Next]_vars

TypeOK ==
  /\ readable \subseteq Chapters /\ removed \subseteq Chapters /\ restored \subseteq Chapters
  /\ level \in [Chapters -> Levels \cup {None}]
  /\ progress \in StoryRow \cup {None}

\* A Story sits among the completed ones only when its reader put it there or
\* has nothing left to read in it: a Chapter published afterwards brings it
\* back.  Only a restoration by moderation does not.
CompletedMeansRead ==
  progress # None /\ Found.status = "COMPLETED" =>
    Found.chosen \/ \A c \in readable \ restored : level[c] = 2

\* What the reader put on hold or gave up stays there, whatever they read and
\* whatever is published, until they choose otherwise or reset the Story.
DeliberateSticks ==
  [][Found.status \in Deliberate /\ progress' # progress => progress' = None \/ progress'.chosen]_vars
=============================================================================
