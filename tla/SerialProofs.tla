------------------------------ MODULE SerialProofs ------------------------------
(***************************************************************************)
(* TLAPS proofs about the components whose handlers run one at a time, for *)
(* every set of members, tokens, Chapters, appeals and reports.            *)
(***************************************************************************)
EXTENDS OneAtATime, FiniteSetTheorems, TLAPS

--------------------------------------------------------------------------------
(* Reading: a completed Story is read, and a reader's choice stands.       *)

\* The reader's part of a behaviour is a behaviour of StorytimeReading.
LEMMA ReadingSpec == Spec => Reading!Spec
<1>1. Init => Reading!Init
  BY DEF Init
<1>2. [Next]_vars => [Reading!Next]_(Reading!vars)
  BY DEF Next, vars, reading, Reading!vars
<1> QED
  BY <1>1, <1>2, PTL DEF Spec, Reading!Spec

\* StorytimeReading counts as FiniteSets does.
LEMMA SameCount == \A S : Reading!Cardinality(S) = Cardinality(S)
  BY DEF Reading!Cardinality, Cardinality

\* What a reader has read of a Story is a number of its readable Chapters, and
\* all of them when it is their number.
LEMMA ReadCounted ==
  ASSUME readable \subseteq Chapters, NEW levels
  PROVE  /\ Cardinality(readable) \in 0..Cardinality(Chapters)
         /\ Reading!ReadCount(levels) \in Nat
         /\ Reading!ReadCount(levels) >= Cardinality(readable) =>
              \A c \in readable : levels[c] = 2
<1> DEFINE read == {c \in readable : levels[c] = 2}
<1>1. /\ IsFiniteSet(readable) /\ Cardinality(readable) \in Nat
      /\ Cardinality(Chapters) \in Nat /\ Cardinality(readable) <= Cardinality(Chapters)
  BY ReadingAssumption, FS_Subset, FS_CardinalityType
<1>2. /\ IsFiniteSet(read) /\ Cardinality(read) \in Nat /\ Cardinality(read) <= Cardinality(readable)
      /\ Cardinality(read) = Cardinality(readable) => read = readable
  BY <1>1, FS_Subset, FS_CardinalityType
<1>3. Reading!ReadCount(levels) = Cardinality(read)
  BY SameCount DEF Reading!ReadCount
<1> QED
  BY <1>1, <1>2, <1>3

\* The row a reader has, or begins with, is a row.
LEMMA FoundTyped ==
  ASSUME Reading!TypeOK
  PROVE  /\ Reading!Found \in Reading!StoryRow
         /\ progress # None => Reading!Found = progress
         /\ Reading!Found.status # "NOT_STARTED" => progress # None
<1>1. Reading!NewRow \in Reading!StoryRow
  <2>1. 0 \in 0..Reading!Cardinality(Chapters)
    BY ReadingAssumption, FS_CardinalityType, SameCount
  <2> QED
    BY <2>1 DEF Reading!NewRow, Reading!StoryRow, Reading!Statuses
<1>2. Reading!NewRow.status = "NOT_STARTED"
  BY DEF Reading!NewRow
<1> QED
  BY <1>1, <1>2, ReadingAssumption DEF Reading!TypeOK, Reading!Found

\* The derived status leaves what the reader chose, and says completed of a
\* Story only when every readable Chapter is read.
LEMMA DerivedRow ==
  ASSUME Reading!TypeOK, NEW levels
  PROVE  /\ Reading!Derived(levels) \in Reading!StoryRow
         /\ Reading!Found.status \in Reading!Deliberate =>
              Reading!Derived(levels) = Reading!Found
         /\ Reading!Derived(levels).status = "COMPLETED" =>
              \A c \in readable : levels[c] = 2
<1> DEFINE read == Reading!ReadCount(levels)
           total == Reading!Cardinality(readable)
<1>1. /\ total \in 0..Reading!Cardinality(Chapters) /\ read \in Nat
      /\ read >= total => \A c \in readable : levels[c] = 2
  BY ReadCounted, SameCount DEF Reading!TypeOK
<1>2. PICK found \in Reading!StoryRow : found = Reading!Found
  BY FoundTyped
<1>3. [found EXCEPT !.status = "NOT_STARTED", !.chosen = FALSE] \in Reading!StoryRow
  BY DEF Reading!StoryRow, Reading!Statuses
<1>4. CASE found.status \in Reading!Deliberate
  <2>1. Reading!Derived(levels) = found
    BY <1>2, <1>4 DEF Reading!Derived
  <2> QED
    BY <1>2, <1>4, <2>1 DEF Reading!Deliberate
<1>5. CASE found.status \notin Reading!Deliberate /\ total > 0 /\ read >= total
  <2>1. Reading!Derived(levels) = [status |-> "COMPLETED", known |-> total, chosen |-> FALSE]
    BY <1>1, <1>2, <1>5 DEF Reading!Derived
  <2> QED
    BY <1>1, <1>2, <1>5, <2>1 DEF Reading!StoryRow, Reading!Statuses
<1>6. CASE found.status \notin Reading!Deliberate /\ 0 < read /\ read < total
  <2>1. ~(total > 0 /\ read >= total)
    BY <1>1, <1>6
  <2>2. Reading!Derived(levels) = [status |-> "IN_PROGRESS", known |-> total, chosen |-> FALSE]
    BY <1>2, <1>6, <2>1 DEF Reading!Derived
  <2> QED
    BY <1>1, <1>2, <1>6, <2>2 DEF Reading!StoryRow, Reading!Statuses
<1>7. CASE /\ found.status \notin Reading!Deliberate
           /\ ~(total > 0 /\ read >= total) /\ ~(0 < read /\ read < total)
  <2>1. Reading!Derived(levels) = [found EXCEPT !.status = "NOT_STARTED", !.chosen = FALSE]
    BY <1>2, <1>7 DEF Reading!Derived
  <2> QED
    BY <1>2, <1>3, <1>7, <2>1 DEF Reading!StoryRow
<1> QED
  BY <1>4, <1>5, <1>6, <1>7

\* The reader's steps that end by deriving the status of the Story.
ReadingMoves(levels) ==
  /\ level' = levels /\ levels \in [Chapters -> Reading!Levels \cup {None}]
  /\ progress' = Reading!Derived(levels) /\ restored' = {}
  /\ UNCHANGED <<readable, removed>>

LEMMA ReadingMoved ==
  ASSUME Reading!TypeOK,
         \/ \E c \in Chapters, position \in Reading!Levels : Reading!ReadTo(c, position)
         \/ \E c \in Chapters, isRead \in BOOLEAN : Reading!SetChapterRead(c, isRead)
         \/ Reading!CompleteStory
  PROVE  \E levels : ReadingMoves(levels)
<1>1. ASSUME NEW c \in Chapters, NEW position \in Reading!Levels, Reading!ReadTo(c, position)
      PROVE  ReadingMoves(level')
  BY <1>1 DEF Reading!ReadTo, Reading!Refresh, ReadingMoves, Reading!TypeOK
<1>2. ASSUME NEW c \in Chapters, NEW isRead \in BOOLEAN, Reading!SetChapterRead(c, isRead)
      PROVE  ReadingMoves(level')
  BY <1>2 DEF Reading!SetChapterRead, Reading!Refresh, ReadingMoves, Reading!TypeOK, Reading!Levels
<1>3. ASSUME Reading!CompleteStory
      PROVE  ReadingMoves(level')
  BY <1>3 DEF Reading!CompleteStory, Reading!Refresh, ReadingMoves, Reading!TypeOK, Reading!Levels
<1> QED
  BY <1>1, <1>2, <1>3

\* What the reader's part keeps: rows of the right shape, and a completed Story
\* that is read or was put there by its reader.
ReadInv == Reading!TypeOK /\ Reading!CompletedMeansRead

LEMMA ReadInvInit == Reading!Init => ReadInv
  BY DEF Reading!Init, ReadInv, Reading!TypeOK, Reading!CompletedMeansRead

LEMMA ReadInvStep ==
  ASSUME ReadInv, [Reading!Next]_(Reading!vars)
  PROVE  ReadInv'
<1> USE DEF ReadInv
<1>1. CASE UNCHANGED Reading!vars
  BY <1>1 DEF Reading!vars, Reading!TypeOK, Reading!CompletedMeansRead, Reading!Found
<1>2. ASSUME NEW levels, ReadingMoves(levels)
      PROVE  ReadInv'
  <2>1. /\ progress' \in Reading!StoryRow
        /\ progress'.status = "COMPLETED" => \A c \in readable' : level'[c] = 2
    BY <1>2, DerivedRow DEF ReadingMoves
  <2>2. (Reading!Found)' = progress'
    BY <2>1, ReadingAssumption DEF Reading!Found
  <2> QED
    BY <1>2, <2>1, <2>2 DEF ReadingMoves, Reading!TypeOK, Reading!CompletedMeansRead
<1>3. CASE Reading!ResetStory
  BY <1>3 DEF Reading!ResetStory, Reading!TypeOK, Reading!CompletedMeansRead
<1>4. ASSUME NEW status \in Reading!Statuses, Reading!SetStoryStatus(status)
      PROVE  ReadInv'
  <2>1. PICK found \in Reading!StoryRow : found = Reading!Found
    BY FoundTyped
  <2>2. /\ progress' = [found EXCEPT !.status = status, !.chosen = TRUE]
        /\ progress' \in Reading!StoryRow /\ progress'.chosen
    BY <1>4, <2>1 DEF Reading!SetStoryStatus, Reading!StoryRow
  <2>3. (Reading!Found)' = progress'
    BY <2>2, ReadingAssumption DEF Reading!Found
  <2> QED
    BY <1>4, <2>2, <2>3 DEF Reading!SetStoryStatus, Reading!TypeOK, Reading!CompletedMeansRead
<1>5. ASSUME NEW c \in Chapters, Reading!PublishChapter(c)
      PROVE  ReadInv'
  <2>1. CASE Reading!Found.status = "COMPLETED"
    <3>1. progress \in Reading!StoryRow
      BY <2>1, FoundTyped
    <3>2. /\ progress' = [progress EXCEPT !.status = "IN_PROGRESS", !.chosen = FALSE]
          /\ progress' \in Reading!StoryRow /\ progress'.status = "IN_PROGRESS"
      BY <1>5, <2>1, <3>1
         DEF Reading!PublishChapter, Reading!ReopenCompletedReaders, Reading!StoryRow, Reading!Statuses
    <3>3. (Reading!Found)' = progress'
      BY <3>2, ReadingAssumption DEF Reading!Found
    <3> QED
      BY <1>5, <3>2, <3>3 DEF Reading!PublishChapter, Reading!TypeOK, Reading!CompletedMeansRead
  <2>2. CASE Reading!Found.status # "COMPLETED"
    <3>1. progress' = progress /\ (Reading!Found)' = Reading!Found
      BY <1>5, <2>2 DEF Reading!PublishChapter, Reading!ReopenCompletedReaders, Reading!Found
    <3> QED
      BY <1>5, <2>2, <3>1 DEF Reading!PublishChapter, Reading!TypeOK, Reading!CompletedMeansRead
  <2> QED
    BY <2>1, <2>2
<1>6. ASSUME NEW c \in Chapters,
             Reading!WithdrawChapter(c) \/ Reading!RemoveChapter(c) \/ Reading!RestoreChapter(c)
      PROVE  ReadInv'
  <2>1. /\ UNCHANGED <<level, progress>> /\ (Reading!Found)' = Reading!Found
        /\ readable' \subseteq Chapters /\ removed' \subseteq Chapters /\ restored' \subseteq Chapters
        /\ readable' \ restored' \subseteq readable \ restored
    BY <1>6 DEF Reading!WithdrawChapter, Reading!RemoveChapter, Reading!RestoreChapter,
                Reading!Found, Reading!TypeOK
  <2> QED
    BY <2>1 DEF Reading!TypeOK, Reading!CompletedMeansRead
<1> QED
  BY <1>1, <1>2, <1>3, <1>4, <1>5, <1>6, ReadingMoved DEF Reading!Next

\* In StorytimeReading a Story sits among the completed ones only when its
\* reader put it there or has read every Chapter that no restoration brought back.
THEOREM CompletedRead == Spec => []CompletedMeansRead
<1>1. Reading!Spec => []ReadInv
  BY ReadInvInit, ReadInvStep, PTL DEF Reading!Spec
<1>2. ReadInv => CompletedMeansRead
  BY DEF ReadInv, CompletedMeansRead
<1> QED
  BY <1>1, <1>2, ReadingSpec, PTL

\* What a reader put on hold or gave up is moved by no later reading and no
\* publication: only by their own choice or a reset.
THEOREM ChoiceSticks == Spec => DeliberateSticks
<1>1. ReadInv /\ [Reading!Next]_(Reading!vars) =>
        [Reading!Found.status \in Reading!Deliberate /\ progress' # progress =>
           progress' = None \/ progress'.chosen]_(Reading!vars)
  <2> SUFFICES ASSUME ReadInv, Reading!Next,
                      Reading!Found.status \in Reading!Deliberate, progress' # progress
               PROVE  progress' = None \/ progress'.chosen
    OBVIOUS
  <2>1. /\ Reading!TypeOK /\ progress # None /\ Reading!Found = progress
        /\ Reading!Found.status # "COMPLETED"
    BY FoundTyped DEF ReadInv, Reading!Deliberate
  <2>2. \A levels : ~ReadingMoves(levels)
    BY <2>1, DerivedRow DEF ReadingMoves
  <2>3. ASSUME NEW status \in Reading!Statuses, Reading!SetStoryStatus(status)
        PROVE  progress'.chosen
    <3>1. PICK found \in Reading!StoryRow : found = Reading!Found
      BY <2>1, FoundTyped
    <3> QED
      BY <2>3, <3>1 DEF Reading!SetStoryStatus, Reading!StoryRow
  <2>4. Reading!ResetStory => progress' = None
    BY DEF Reading!ResetStory
  <2>5. \A c \in Chapters : /\ Reading!PublishChapter(c) => progress' = progress
                            /\ Reading!WithdrawChapter(c) => progress' = progress
                            /\ Reading!RemoveChapter(c) => progress' = progress
                            /\ Reading!RestoreChapter(c) => progress' = progress
    BY <2>1 DEF Reading!PublishChapter, Reading!ReopenCompletedReaders, Reading!WithdrawChapter,
                Reading!RemoveChapter, Reading!RestoreChapter
  <2> QED
    BY <2>1, <2>2, <2>3, <2>4, <2>5, ReadingMoved DEF Reading!Next
<1>2. Reading!Spec => []ReadInv
  BY ReadInvInit, ReadInvStep, PTL DEF Reading!Spec
<1> QED
  BY <1>1, <1>2, ReadingSpec, PTL DEF DeliberateSticks, Reading!DeliberateSticks, Reading!Spec

--------------------------------------------------------------------------------
(* Reports of members: a disabled member's reports are closed.             *)

\* The reports' part of a behaviour is one of MemberReports, a handler at a time.
LEMMA ComplaintsSpec == Spec => MembersReported!SerialSpec
<1>1. Init => MembersReported!Init
  BY DEF Init
<1>2. [Next]_vars => [MembersReported!Serial]_(MembersReported!vars)
  BY DEF Next, vars, complaints, MembersReported!vars
<1> QED
  BY <1>1, <1>2, PTL DEF Spec, MembersReported!SerialSpec

\* What a handler at its desk is about to write.
AtDesk(task) ==
  \/ task = MembersReported!Nothing
  \/ \E entity \in MembersReported!ComplaintRow :
       /\ ~disabled
       /\ task = [op |-> "insert", of |-> None, row |-> entity]
  \/ \E c \in Complaints, entity \in MembersReported!ComplaintRow :
       task = [op |-> "save", of |-> c, row |-> entity]
  \/ task = [op |-> "action", of |-> None, row |-> None]

\* Reports of a disabled member stay open only until the disabling handler has
\* actioned them, or when an administrator took them up again.
ComplaintInv ==
  /\ complaint \in [Complaints -> MembersReported!ComplaintRow \cup {None}]
  /\ desk = [r \in Requests |-> desk[r]]
  /\ \A r \in Requests : AtDesk(desk[r])
  /\ disabled /\ (\A r \in Requests : desk[r].op # "action") =>
       \A c \in Complaints : MembersReported!Open(c) => c \in takenUp

LEMMA ComplaintInvInit == MembersReported!Init => ComplaintInv
  BY DEF MembersReported!Init, ComplaintInv, AtDesk, MembersReported!Nothing

\* A handler begins: nothing is written but its slot.
LEMMA ComplaintBegun ==
  ASSUME ComplaintInv, NEW r \in Requests, desk[r] = MembersReported!Nothing,
         \/ \E u \in Members : MembersReported!ReportMember(r, u)
         \/ \E c \in Complaints, status \in MembersReported!Statuses :
              MembersReported!UpdateForAdmin(r, c, status)
         \/ MembersReported!DisableUser(r) \/ MembersReported!EnableUser(r)
  PROVE  ComplaintInv'
<1>1. Requests = {r}
  BY SlotAssumption
<1>2. ASSUME NEW u \in Members, MembersReported!ReportMember(r, u)
      PROVE  ComplaintInv'
  <2> DEFINE fresh == [by |-> u, status |-> "OPEN", reviewed |-> FALSE]
  <2>1. fresh \in MembersReported!ComplaintRow
    BY DEF MembersReported!ComplaintRow, MembersReported!Statuses, MembersReported!Unresolved
  <2>2. desk' = [desk EXCEPT ![r] = [op |-> "insert", of |-> None, row |-> fresh]]
    BY <1>2 DEF MembersReported!ReportMember, MembersReported!Soon
  <2>3. ~disabled /\ UNCHANGED <<complaint, disabled, takenUp>>
    BY <1>2 DEF MembersReported!ReportMember
  <2> QED
    BY <1>1, <2>1, <2>2, <2>3 DEF ComplaintInv, AtDesk
<1>3. ASSUME NEW c \in Complaints, NEW status \in MembersReported!Statuses,
             MembersReported!UpdateForAdmin(r, c, status)
      PROVE  ComplaintInv'
  <2> DEFINE taken == [complaint[c] EXCEPT !.status = status, !.reviewed = TRUE]
  <2>1. taken \in MembersReported!ComplaintRow
    BY <1>3 DEF MembersReported!UpdateForAdmin, ComplaintInv, MembersReported!ComplaintRow
  <2>2. desk' = [desk EXCEPT ![r] = [op |-> "save", of |-> c, row |-> taken]]
    BY <1>3 DEF MembersReported!UpdateForAdmin, MembersReported!Soon
  <2>3. UNCHANGED <<complaint, disabled, takenUp>>
    BY <1>3 DEF MembersReported!UpdateForAdmin
  <2> QED
    BY <1>1, <2>1, <2>2, <2>3 DEF ComplaintInv, AtDesk, MembersReported!Nothing, MembersReported!Open
<1>4. CASE MembersReported!DisableUser(r)
  <2>1. /\ desk' = [desk EXCEPT ![r] = [op |-> "action", of |-> None, row |-> None]]
        /\ UNCHANGED <<complaint, takenUp>>
    BY <1>4 DEF MembersReported!DisableUser, MembersReported!Soon
  <2> QED
    BY <1>1, <2>1 DEF ComplaintInv, AtDesk
<1>5. CASE MembersReported!EnableUser(r)
  BY <1>1, <1>5 DEF MembersReported!EnableUser, ComplaintInv, AtDesk
<1> QED
  BY <1>2, <1>3, <1>4, <1>5 DEF MembersReported!ReportMember, MembersReported!UpdateForAdmin,
     MembersReported!DisableUser, MembersReported!EnableUser

\* A handler writes what it holds, or actions every open report, and ends.
LEMMA ComplaintWritten ==
  ASSUME ComplaintInv, NEW r \in Requests,
         MembersReported!Write(r) \/ MembersReported!ActionReports(r)
  PROVE  ComplaintInv'
<1>1. Requests = {r}
  BY SlotAssumption
<1>2. /\ desk' = [desk EXCEPT ![r] = MembersReported!Nothing] /\ UNCHANGED disabled
      /\ desk'[r] = MembersReported!Nothing
  BY DEF MembersReported!Write, MembersReported!ActionReports, MembersReported!Done, ComplaintInv
<1>3. (\A q \in Requests : AtDesk(desk[q]))' /\ desk' = [q \in Requests |-> desk'[q]]
  BY <1>1, <1>2 DEF AtDesk, ComplaintInv
<1>4. CASE MembersReported!Write(r) /\ desk[r].op = "insert"
  <2>1. PICK entity \in MembersReported!ComplaintRow :
          ~disabled /\ desk[r] = [op |-> "insert", of |-> None, row |-> entity]
    BY <1>4 DEF ComplaintInv, AtDesk, MembersReported!Nothing
  <2>2. \E c \in Complaints : complaint' = [complaint EXCEPT ![c] = entity]
    BY <1>4, <2>1 DEF MembersReported!Write
  <2> QED
    BY <1>2, <1>3, <2>1, <2>2 DEF ComplaintInv
<1>5. CASE MembersReported!Write(r) /\ desk[r].op = "save"
  <2>1. PICK c \in Complaints, entity \in MembersReported!ComplaintRow :
          desk[r] = [op |-> "save", of |-> c, row |-> entity]
    BY <1>5 DEF ComplaintInv, AtDesk, MembersReported!Nothing
  <2>2. complaint' = [complaint EXCEPT ![c] = entity] /\ takenUp' = takenUp \cup {c}
    BY <1>5, <2>1 DEF MembersReported!Write
  <2>3. \A q \in Requests : desk[q].op # "action"
    BY <1>1, <1>5
  <2> QED
    BY <1>2, <1>3, <2>2, <2>3 DEF ComplaintInv, MembersReported!Open
<1>6. CASE MembersReported!ActionReports(r)
  <2>1. /\ complaint' \in [Complaints -> MembersReported!ComplaintRow \cup {None}]
        /\ \A c \in Complaints : ~(MembersReported!Open(c))'
    <3>1. \A entity \in MembersReported!ComplaintRow :
            LET closed == [entity EXCEPT !.status = "ACTIONED", !.reviewed = TRUE]
            IN  closed \in MembersReported!ComplaintRow /\ closed.status = "ACTIONED"
      BY DEF MembersReported!ComplaintRow, MembersReported!Statuses
    <3>2. complaint' = [c \in Complaints |->
            IF MembersReported!Open(c)
            THEN [complaint[c] EXCEPT !.status = "ACTIONED", !.reviewed = TRUE] ELSE complaint[c]]
      BY <1>6 DEF MembersReported!ActionReports
    <3> QED
      BY <3>1, <3>2 DEF ComplaintInv, MembersReported!Open, MembersReported!Unresolved
  <2> QED
    BY <1>2, <1>3, <2>1 DEF ComplaintInv
<1> QED
  BY <1>4, <1>5, <1>6 DEF MembersReported!Write

LEMMA ComplaintInvStep ==
  ASSUME ComplaintInv, [MembersReported!Serial]_(MembersReported!vars)
  PROVE  ComplaintInv'
<1>1. CASE UNCHANGED MembersReported!vars
  BY <1>1 DEF MembersReported!vars, ComplaintInv, AtDesk, MembersReported!Open
<1> QED
  BY <1>1, ComplaintBegun, ComplaintWritten
     DEF MembersReported!Serial, MembersReported!Next, MembersReported!ReportMember,
         MembersReported!UpdateForAdmin, MembersReported!DisableUser, MembersReported!EnableUser

\* In MemberReports a disabled member's reports are all closed once the handlers
\* have ended, but for those an administrator has taken up again.
THEOREM ReportsClosed == Spec => []ActedOnIsClosed
<1>1. MembersReported!SerialSpec => []ComplaintInv
  BY ComplaintInvInit, ComplaintInvStep, PTL DEF MembersReported!SerialSpec
<1>2. ComplaintInv => ActedOnIsClosed
  BY DEF ComplaintInv, ActedOnIsClosed, MembersReported!ActedOnIsClosed, MembersReported!Nothing
<1> QED
  BY <1>1, <1>2, ComplaintsSpec, PTL

--------------------------------------------------------------------------------
(* Moderation: what becomes of content and of its appeals.                 *)

\* The moderation part of a behaviour is one of StorytimeReview, a handler at a
\* time and no statement failing.
LEMMA ReviewSpec == Spec => Review!SerialSpec
<1>1. Init => Review!Init
  BY DEF Init
<1>2. [Next]_vars => [Review!Serial]_(Review!vars)
  BY DEF Next, vars, review, Review!vars, Review!Decisions
<1> QED
  BY <1>1, <1>2, PTL DEF Spec, Review!SerialSpec

Sides == {"ACTIVE", "REMOVED"}
SpentAppeals == {a \in Appeals : appeal[a] \in Review!Spent}

\* What a handler of moderation is about to do.
AtTable(task) ==
  \/ task = Review!Idle
  \/ \E side \in Sides, a \in Appeals \cup {None} :
       /\ content # side
       /\ a # None => side = "ACTIVE"
       /\ task = [op |-> "content", key |-> a, status |-> side]
  \/ \E a \in Appeals \cup {None} : task = [op |-> "record", key |-> a, status |-> content]
  \/ \E a \in Appeals : task = [op |-> "decided", key |-> a, status |-> None]
  \/ \E a \in Appeals :
       /\ SpentAppeals = {}
       /\ task = [op |-> "raise", key |-> a, status |-> "SUBMITTED"]
  \/ \E a \in Appeals : task = [op |-> "raise", key |-> a, status |-> "WITHDRAWN"]
  \/ \E a \in Appeals, status \in {"UPHELD", "REJECTED"} :
       /\ appeal[a] = "SUBMITTED"
       /\ task = [op |-> "decide", key |-> a, status |-> status]
  \/ \E a \in Appeals : task = [op |-> "restore", key |-> a, status |-> None]
  \/ \E p \in Reports, status \in Review!ReportStatus :
       task = [op |-> "report", key |-> p, status |-> status]

\* Content that an upheld appeal is to give back is not yet given back only while
\* the handler is on its way there, and the trail is behind only while an act on
\* the content is being recorded.
SettledInv ==
  /\ Review!TypeOK
  /\ table = [r \in Requests |-> table[r]]
  /\ \A r \in Requests : AtTable(table[r])
  /\ upheld # {} /\ content = "REMOVED" =>
       \E r \in Requests : \/ table[r].op = "restore"
                           \/ table[r].op = "content" /\ table[r].status = "ACTIVE"
  /\ (\A r \in Requests : table[r].op # "record") => trail.act = content
  /\ \A a, b \in SpentAppeals : a = b
  /\ Review!OneLive(report)

LEMMA SettledInvInit == Review!Init => SettledInv
<1> SUFFICES ASSUME Review!Init PROVE SettledInv
  OBVIOUS
<1>1. Review!TypeOK
  BY DEF Review!Init, Review!TypeOK
<1>2. SpentAppeals = {} /\ Review!OneLive(report)
  BY ReviewAssumption
     DEF Review!Init, SpentAppeals, Review!Spent, Review!AppealStatus, Review!OneLive,
         Review!LiveStatuses, Review!ReportStatus
<1>3. \A r \in Requests : AtTable(table[r])
  BY DEF Review!Init, AtTable
<1> QED
  BY <1>1, <1>2, <1>3 DEF Review!Init, SettledInv

\* A handler takes the table and decides nothing yet.
LEMMA SettledTaken ==
  ASSUME SettledInv, NEW r \in Requests, NEW task, AtTable(task),
         table[r] = Review!Idle, table' = [table EXCEPT ![r] = task],
         UNCHANGED <<content, appeal, report, trail, upheld>>,
         task.op # "record"
  PROVE  SettledInv'
<1>1. Requests = {r}
  BY SlotAssumption
<1>2. AtTable(task)'
  BY DEF AtTable, SpentAppeals
<1>3. SpentAppeals' = SpentAppeals
  BY DEF SpentAppeals
<1>4. Review!TypeOK'
  BY DEF SettledInv, Review!TypeOK
<1>5. trail'.act = content'
  BY <1>1 DEF SettledInv, Review!Idle
<1>6. ~(upheld # {} /\ content = "REMOVED")
  BY <1>1 DEF SettledInv, Review!Idle
<1> QED
  BY <1>1, <1>2, <1>3, <1>4, <1>5, <1>6 DEF SettledInv, Review!OneLive

LEMMA SettledBegun ==
  ASSUME SettledInv, NEW r \in Requests, Review!Free(r),
         \/ Review!RemoveContent(r) \/ Review!RestoreContent(r)
         \/ \E a \in Appeals : Review!RaiseAppeal(r, a) \/ Review!Withdraw(r, a)
         \/ \E a \in Appeals, uphold \in BOOLEAN : Review!Decide(r, a, uphold)
         \/ \E p \in Reports : Review!CreateReport(r, p)
         \/ \E p \in Reports, status \in Review!ReportStatus : Review!ResolveReport(r, p, status)
  PROVE  SettledInv'
<1> DEFINE Takes(op, key, status) ==
      /\ AtTable([op |-> op, key |-> key, status |-> status]) /\ op # "record"
      /\ Review!Hold(r, op, key, status) /\ UNCHANGED <<content, appeal, report, trail, upheld>>
<1>1. \A op, key, status : Takes(op, key, status) => SettledInv'
  BY SettledTaken DEF Review!Hold, Review!Free
<1>2. CASE Review!RemoveContent(r)
  <2>1. Takes("content", None, "REMOVED")
    BY <1>2 DEF Review!RemoveContent, AtTable, Sides, Review!Decisions
  <2> QED
    BY <1>1, <2>1
<1>3. CASE Review!RestoreContent(r)
  <2>1. Takes("content", None, "ACTIVE")
    BY <1>3 DEF Review!RestoreContent, AtTable, Sides, Review!Decisions
  <2> QED
    BY <1>1, <2>1
<1>4. ASSUME NEW a \in Appeals, Review!RaiseAppeal(r, a)
      PROVE  SettledInv'
  <2>1. Takes("raise", a, "SUBMITTED")
    BY <1>4 DEF Review!RaiseAppeal, AtTable, SpentAppeals, Review!Decisions
  <2> QED
    BY <1>1, <2>1
<1>5. ASSUME NEW a \in Appeals, Review!Withdraw(r, a)
      PROVE  SettledInv'
  <2>1. Takes("raise", a, "WITHDRAWN")
    BY <1>5 DEF Review!Withdraw, AtTable, Review!Decisions
  <2> QED
    BY <1>1, <2>1
<1>6. ASSUME NEW a \in Appeals, NEW uphold \in BOOLEAN, Review!Decide(r, a, uphold)
      PROVE  SettledInv'
  <2>1. Takes("decide", a, IF uphold THEN "UPHELD" ELSE "REJECTED")
    BY <1>6 DEF Review!Decide, AtTable, Review!Decisions
  <2> QED
    BY <1>1, <2>1
<1>7. ASSUME NEW p \in Reports, Review!CreateReport(r, p)
      PROVE  SettledInv'
  <2>1. Takes("report", p, "OPEN")
    BY <1>7 DEF Review!CreateReport, AtTable, Review!ReportStatus, Review!Decisions
  <2> QED
    BY <1>1, <2>1
<1>8. ASSUME NEW p \in Reports, NEW status \in Review!ReportStatus, Review!ResolveReport(r, p, status)
      PROVE  SettledInv'
  <2>1. Takes("report", p, status)
    BY <1>8 DEF Review!ResolveReport, AtTable, Review!Decisions
  <2> QED
    BY <1>1, <2>1
<1> QED
  BY <1>2, <1>3, <1>4, <1>5, <1>6, <1>7, <1>8

\* The slots a handler can hold, told apart by what it is about to do.
TableKinds(r) ==
  /\ Review!At(r, "content") =>
       \E side \in Sides, a \in Appeals \cup {None} :
         /\ content # side
         /\ a # None => side = "ACTIVE"
         /\ table[r] = [op |-> "content", key |-> a, status |-> side]
  /\ Review!At(r, "record") =>
       \E a \in Appeals \cup {None} : table[r] = [op |-> "record", key |-> a, status |-> content]
  /\ Review!At(r, "decided") =>
       \E a \in Appeals : table[r] = [op |-> "decided", key |-> a, status |-> None]
  /\ Review!At(r, "raise") =>
       \E a \in Appeals, status \in {"SUBMITTED", "WITHDRAWN"} :
         /\ status = "SUBMITTED" => SpentAppeals = {}
         /\ table[r] = [op |-> "raise", key |-> a, status |-> status]
  /\ Review!At(r, "decide") =>
       \E a \in Appeals, status \in {"UPHELD", "REJECTED"} :
         /\ appeal[a] = "SUBMITTED"
         /\ table[r] = [op |-> "decide", key |-> a, status |-> status]
  /\ Review!At(r, "restore") =>
       \E a \in Appeals : table[r] = [op |-> "restore", key |-> a, status |-> None]
  /\ Review!At(r, "report") =>
       \E p \in Reports, status \in Review!ReportStatus :
         table[r] = [op |-> "report", key |-> p, status |-> status]

LEMMA TableTold ==
  ASSUME SettledInv, NEW r \in Requests
  PROVE  TableKinds(r)
<1>1. AtTable(table[r]) /\ Requests = {r}
  BY SlotAssumption DEF SettledInv
<1>2. CASE table[r] = Review!Idle
  BY <1>1, <1>2 DEF TableKinds, Review!At, Review!Idle
<1>3. ASSUME NEW side \in Sides, NEW a \in Appeals \cup {None},
             content # side, a # None => side = "ACTIVE",
             table[r] = [op |-> "content", key |-> a, status |-> side]
      PROVE  TableKinds(r)
  BY <1>1, <1>3 DEF TableKinds, Review!At
<1>4. ASSUME NEW a \in Appeals \cup {None},
             table[r] = [op |-> "record", key |-> a, status |-> content]
      PROVE  TableKinds(r)
  BY <1>1, <1>4 DEF TableKinds, Review!At
<1>5. ASSUME NEW a \in Appeals, NEW op \in {"decided", "restore"},
             table[r] = [op |-> op, key |-> a, status |-> None]
      PROVE  TableKinds(r)
  BY <1>1, <1>5 DEF TableKinds, Review!At
<1>6. ASSUME NEW a \in Appeals, NEW status \in {"SUBMITTED", "WITHDRAWN"},
             status = "SUBMITTED" => SpentAppeals = {},
             table[r] = [op |-> "raise", key |-> a, status |-> status]
      PROVE  TableKinds(r)
  BY <1>1, <1>6 DEF TableKinds, Review!At
<1>7. ASSUME NEW a \in Appeals, NEW status \in {"UPHELD", "REJECTED"},
             appeal[a] = "SUBMITTED",
             table[r] = [op |-> "decide", key |-> a, status |-> status]
      PROVE  TableKinds(r)
  BY <1>1, <1>7 DEF TableKinds, Review!At
<1>8. ASSUME NEW p \in Reports, NEW status \in Review!ReportStatus,
             table[r] = [op |-> "report", key |-> p, status |-> status]
      PROVE  TableKinds(r)
  BY <1>1, <1>8 DEF TableKinds, Review!At
<1> QED
  BY <1>1, <1>2, <1>3, <1>4, <1>5, <1>6, <1>7, <1>8 DEF AtTable

\* What has to be seen of a step that changes the slot of one handler.
LEMMA SettledBy ==
  ASSUME SettledInv, NEW r \in Requests, table' = [table EXCEPT ![r] = table'[r]],
         Review!TypeOK', AtTable(table[r])',
         upheld' # {} /\ content' = "REMOVED" =>
           \/ table'[r].op = "restore"
           \/ table'[r].op = "content" /\ table'[r].status = "ACTIVE",
         table'[r].op = "record" \/ trail'.act = content',
         (\A a, b \in SpentAppeals : a = b)', Review!OneLive(report)'
  PROVE  SettledInv'
<1>1. Requests = {r} /\ table = [q \in Requests |-> table[q]]
  BY SlotAssumption DEF SettledInv
<1>2. (table = [q \in Requests |-> table[q]])'
  BY <1>1
<1>3. (\A q \in Requests : AtTable(table[q]))'
  BY <1>1
<1> QED
  BY <1>1, <1>2, <1>3 DEF SettledInv

\* A handler that holds one thing holds no other; between two handlers the trail
\* is up to date and nothing is owed.
LEMMA SettledFacts ==
  ASSUME SettledInv, NEW r \in Requests
  PROVE  /\ Requests = {r} /\ Review!TypeOK /\ table = [q \in Requests |-> table[q]]
         /\ (\A a, b \in SpentAppeals : a = b) /\ Review!OneLive(report)
         /\ table[r].op # "record" => trail.act = content
         /\ upheld # {} /\ content = "REMOVED" =>
              table[r].op = "restore" \/ (table[r].op = "content" /\ table[r].status = "ACTIVE")
  BY SlotAssumption DEF SettledInv

\* The next statement of a handler of content, and its record.
LEMMA ContentSettled ==
  ASSUME SettledInv, NEW r \in Requests,
         Review!SaveContent(r) \/ Review!Record(r) \/ Review!RestoreUpheld(r)
         \/ Review!RecordDecision(r)
  PROVE  SettledInv'
<1> USE DEF Review!Hold, Review!Done
<1>1. /\ Requests = {r} /\ UNCHANGED <<appeal, report>> /\ SpentAppeals' = SpentAppeals
      /\ Review!OneLive(report)' /\ (\A a, b \in SpentAppeals : a = b)'
  BY SettledFacts DEF Review!SaveContent, Review!Record, Review!RestoreUpheld, Review!RecordDecision,
     Review!Decisions, SpentAppeals, Review!OneLive
<1>2. CASE Review!SaveContent(r)
  <2>1. PICK side \in Sides, a \in Appeals \cup {None} :
          /\ content # side
          /\ a # None => side = "ACTIVE"
          /\ table[r] = [op |-> "content", key |-> a, status |-> side]
    BY <1>2, TableTold DEF TableKinds, Review!SaveContent
  <2>2. /\ content' = side /\ trail' = trail
        /\ upheld' = IF side = "REMOVED" THEN {} ELSE upheld
        /\ table' = [table EXCEPT ![r] = [op |-> "record", key |-> a, status |-> side]]
    BY <1>2, <2>1 DEF Review!SaveContent
  <2>3. Review!TypeOK'
    BY <1>1, <2>2, SettledFacts DEF Review!TypeOK, Sides
  <2>4. AtTable(table[r])' /\ table'[r].op = "record"
    BY <2>2, SettledFacts DEF AtTable
  <2>5. ~(upheld' # {} /\ content' = "REMOVED")
    BY <2>2
  <2> QED
    BY <1>1, <2>2, <2>3, <2>4, <2>5, SettledBy, SettledFacts
<1>3. CASE Review!Record(r)
  <2>1. PICK a \in Appeals \cup {None} : table[r] = [op |-> "record", key |-> a, status |-> content]
    BY <1>3, TableTold DEF TableKinds, Review!Record
  <2>2. /\ trail' = [trail EXCEPT !.act = content] /\ UNCHANGED <<content, upheld>>
        /\ \/ table' = [table EXCEPT ![r] = Review!Idle]
           \/ a \in Appeals /\ table' = [table EXCEPT ![r] = [op |-> "decided", key |-> a, status |-> None]]
    BY <1>3, <2>1 DEF Review!Record
  <2>3. Review!TypeOK' /\ trail'.act = content'
    BY <1>1, <2>2, SettledFacts DEF Review!TypeOK
  <2>4. AtTable(table[r])'
    BY <2>2, SettledFacts DEF AtTable
  <2>5. ~(upheld # {} /\ content = "REMOVED")
    BY <2>1, SettledFacts
  <2> QED
    BY <1>1, <2>2, <2>3, <2>4, <2>5, SettledBy, SettledFacts
<1>4. CASE Review!RestoreUpheld(r)
  <2>1. PICK a \in Appeals : table[r] = [op |-> "restore", key |-> a, status |-> None]
    BY <1>4, TableTold DEF TableKinds, Review!RestoreUpheld
  <2>2. /\ UNCHANGED <<content, trail, upheld>>
        /\ \/ content # "REMOVED" /\ table' = [table EXCEPT ![r] = Review!Idle]
           \/ /\ content = "REMOVED"
              /\ table' = [table EXCEPT ![r] = [op |-> "content", key |-> a, status |-> "ACTIVE"]]
    BY <1>4, <2>1 DEF Review!RestoreUpheld
  <2>3. Review!TypeOK' /\ trail'.act = content'
    BY <1>1, <2>1, <2>2, SettledFacts DEF Review!TypeOK
  <2>4. AtTable(table[r])'
    BY <2>2, SettledFacts DEF AtTable, Sides
  <2>5. upheld' # {} /\ content' = "REMOVED" =>
          table'[r].op = "content" /\ table'[r].status = "ACTIVE"
    BY <2>2, SettledFacts
  <2> QED
    BY <1>1, <2>2, <2>3, <2>4, <2>5, SettledBy, SettledFacts
<1>5. CASE Review!RecordDecision(r)
  <2>1. PICK a \in Appeals : table[r] = [op |-> "decided", key |-> a, status |-> None]
    BY <1>5, TableTold DEF TableKinds, Review!RecordDecision
  <2>2. /\ trail' = [trail EXCEPT !.appeals = @ \cup {a}] /\ UNCHANGED <<content, upheld>>
        /\ table' = [table EXCEPT ![r] = Review!Idle]
    BY <1>5, <2>1 DEF Review!RecordDecision
  <2>3. Review!TypeOK' /\ trail'.act = content'
    BY <1>1, <2>1, <2>2, SettledFacts DEF Review!TypeOK
  <2>4. AtTable(table[r])'
    BY <2>2, SettledFacts DEF AtTable
  <2>5. ~(upheld # {} /\ content = "REMOVED")
    BY <2>1, SettledFacts
  <2> QED
    BY <1>1, <2>2, <2>3, <2>4, <2>5, SettledBy, SettledFacts
<1> QED
  BY <1>2, <1>3, <1>4, <1>5

\* An appeal is saved, answered, or a report is.
LEMMA DecisionSettled ==
  ASSUME SettledInv, NEW r \in Requests,
         Review!SaveAppeal(r) \/ Review!SaveDecision(r) \/ Review!SaveReport(r)
  PROVE  SettledInv'
<1> USE DEF Review!Hold, Review!Done
<1>1. Requests = {r} /\ UNCHANGED <<content, trail>>
  BY SettledFacts DEF Review!SaveAppeal, Review!SaveDecision, Review!SaveReport
<1>2. CASE Review!SaveAppeal(r)
  <2>1. PICK a \in Appeals, status \in {"SUBMITTED", "WITHDRAWN"} :
          /\ status = "SUBMITTED" => SpentAppeals = {}
          /\ table[r] = [op |-> "raise", key |-> a, status |-> status]
    BY <1>2, TableTold DEF TableKinds, Review!SaveAppeal
  <2>2. /\ appeal' = [appeal EXCEPT ![a] = status] /\ UNCHANGED <<report, upheld>>
        /\ table' = [table EXCEPT ![r] = Review!Idle]
    BY <1>2, <2>1 DEF Review!SaveAppeal
  <2>3. Review!TypeOK' /\ trail'.act = content'
    BY <1>1, <2>1, <2>2, SettledFacts DEF Review!TypeOK, Review!AppealStatus
  <2>4. AtTable(table[r])'
    BY <2>2, SettledFacts DEF AtTable
  <2>5. ~(upheld # {} /\ content = "REMOVED")
    BY <2>1, SettledFacts
  <2>6. \A b, c \in SpentAppeals' : b = c
    BY <2>1, <2>2, SettledFacts DEF SpentAppeals, Review!Spent, Review!TypeOK
  <2> QED
    BY <1>1, <2>2, <2>3, <2>4, <2>5, <2>6, SettledBy, SettledFacts DEF Review!OneLive
<1>3. CASE Review!SaveDecision(r)
  <2>1. PICK a \in Appeals, status \in {"UPHELD", "REJECTED"} :
          /\ appeal[a] = "SUBMITTED"
          /\ table[r] = [op |-> "decide", key |-> a, status |-> status]
    BY <1>3, TableTold DEF TableKinds, Review!SaveDecision
  <2>2. /\ appeal' = [appeal EXCEPT ![a] = status] /\ report' = report
        /\ upheld' = IF status = "UPHELD" THEN upheld \cup {a} ELSE upheld
        /\ table' = [table EXCEPT ![r] =
             [op |-> IF status = "UPHELD" THEN "restore" ELSE "decided", key |-> a, status |-> None]]
    BY <1>3, <2>1 DEF Review!SaveDecision
  <2>3. Review!TypeOK' /\ trail'.act = content'
    BY <1>1, <2>1, <2>2, SettledFacts DEF Review!TypeOK, Review!AppealStatus
  <2>4. AtTable(table[r])'
    BY <2>2, SettledFacts DEF AtTable
  <2>5. upheld' # {} /\ content' = "REMOVED" => table'[r].op = "restore"
    BY <1>1, <2>1, <2>2, SettledFacts
  <2>6. SpentAppeals' = SpentAppeals
    BY <2>1, <2>2, SettledFacts DEF SpentAppeals, Review!Spent, Review!TypeOK
  <2> QED
    BY <1>1, <2>2, <2>3, <2>4, <2>5, <2>6, SettledBy, SettledFacts DEF Review!OneLive
<1>4. CASE Review!SaveReport(r)
  <2>1. PICK p \in Reports, status \in Review!ReportStatus :
          table[r] = [op |-> "report", key |-> p, status |-> status]
    BY <1>4, TableTold DEF TableKinds, Review!SaveReport
  <2> DEFINE reports == [report EXCEPT ![p] = status]
  <2>2. /\ report' = IF Review!OneLive(reports) THEN reports ELSE report
        /\ UNCHANGED <<appeal, upheld>> /\ table' = [table EXCEPT ![r] = Review!Idle]
    BY <1>4, <2>1 DEF Review!SaveReport
  <2>3. Review!OneLive(report') /\ report' \in [Reports -> Review!ReportStatus \cup {None}]
    BY <2>2, SettledFacts DEF Review!TypeOK
  <2>4. Review!TypeOK' /\ trail'.act = content'
    BY <1>1, <2>1, <2>2, <2>3, SettledFacts DEF Review!TypeOK
  <2>5. AtTable(table[r])'
    BY <2>2, SettledFacts DEF AtTable
  <2>6. ~(upheld # {} /\ content = "REMOVED")
    BY <2>1, SettledFacts
  <2>7. SpentAppeals' = SpentAppeals /\ Review!OneLive(report)'
    BY <2>2, <2>3 DEF SpentAppeals, Review!OneLive
  <2> QED
    BY <1>1, <2>2, <2>4, <2>5, <2>6, <2>7, SettledBy, SettledFacts
<1> QED
  BY <1>2, <1>3, <1>4

LEMMA SettledInvStep ==
  ASSUME SettledInv, [Review!Serial]_(Review!vars)
  PROVE  SettledInv'
<1>1. CASE UNCHANGED Review!vars
  BY <1>1 DEF Review!vars, SettledInv, Review!TypeOK, AtTable, SpentAppeals, Review!OneLive
<1>2. ASSUME NEW r \in Requests, Review!Handle(r)
      PROVE  SettledInv'
  BY <1>2, SettledBegun, ContentSettled, DecisionSettled
     DEF Review!Handle, Review!RemoveContent, Review!RestoreContent, Review!RaiseAppeal,
         Review!Withdraw, Review!Decide, Review!CreateReport, Review!ResolveReport
<1> QED
  BY <1>1, <1>2 DEF Review!Serial

\* In StorytimeReview an upheld appeal gives the content back as part of the same
\* act, one appeal is spent at most, the trail tells what became of the content,
\* and no member has two reports of it waiting.
THEOREM ReviewSettles == Spec => []ReviewSettled
<1>1. Review!SerialSpec => []SettledInv
  BY SettledInvInit, SettledInvStep, PTL DEF Review!SerialSpec
<1>2. SettledInv => ReviewSettled
  <2> SUFFICES ASSUME SettledInv, \A r \in Requests : Review!Free(r)
               PROVE  /\ upheld # {} => content = "ACTIVE"
                      /\ Review!Cardinality(SpentAppeals) <= 1
                      /\ trail.act = content
                      /\ Review!OneLive(report)
    BY DEF ReviewSettled, Review!ReviewSettled, SpentAppeals
  <2>1. \A r \in Requests : table[r].op = "idle"
    BY DEF Review!Free, Review!Idle
  <2>2. content \in Sides
    BY DEF SettledInv, Review!TypeOK, Sides
  <2>3. Cardinality(SpentAppeals) <= 1
    <3>1. CASE SpentAppeals = {}
      <4>1. Cardinality(SpentAppeals) = 0
        BY <3>1, FS_EmptySet
      <4> QED
        BY <4>1
    <3>2. ASSUME NEW a \in SpentAppeals PROVE Cardinality(SpentAppeals) <= 1
      <4>1. SpentAppeals = {a}
        BY <3>2 DEF SettledInv
      <4>2. Cardinality(SpentAppeals) = 1
        BY <4>1, FS_Singleton
      <4> QED
        BY <4>2
    <3> QED
      BY <3>1, <3>2
  <2>4. Review!Cardinality(SpentAppeals) = Cardinality(SpentAppeals)
    BY DEF Review!Cardinality, Cardinality
  <2> QED
    BY <2>1, <2>2, <2>3, <2>4 DEF SettledInv, Sides
<1> QED
  BY <1>1, <1>2, ReviewSpec, PTL

--------------------------------------------------------------------------------
(* Accounts: the handlers implement AccountContract.                       *)

\* The accounts' part of a behaviour is one of AuthSession.
LEMMA AccountsSpec == Spec => Accounts!Spec
<1>1. Init => Accounts!Init
  BY DEF Init
<1>2. [Next]_vars => [Accounts!Next]_(Accounts!vars)
  BY DEF Next, vars, accounts, Accounts!vars
<1> QED
  BY <1>1, <1>2, PTL DEF Spec, Accounts!Spec

\* A save that only proves an address, lifts a lock or writes a mailed secret.
Touches(before, after) ==
  /\ after.registered /\ ~after.deleted /\ after.password = before.password
  /\ \/ after.verified = before.verified /\ after.disabled = before.disabled
     \/ after.verified /\ after.disabled = before.disabled
     \/ after.verified = before.verified /\ ~after.disabled

\* A save that changes the password or locks the account.
Overturns(before, after) ==
  /\ after.registered /\ ~after.deleted /\ after.verified = before.verified
  /\ \/ after.password = before.password /\ after.disabled
     \/ after.disabled = before.disabled

\* What a running handler still knows to be so: nobody moves the row meanwhile,
\* the new token has not been handed out and the old one has.
AtWork(task) ==
  /\ task \in Accounts!Slot
  /\ task.pc # "idle" => Accounts!Found
  /\ task.pc \in {"loginIssue", "loginSave"} => task.snap = user
  /\ task.pc \in {"loginIssue", "loginSave", "refreshIssue", "refreshFind", "refreshRevoke"} =>
       user.verified /\ ~user.disabled
  /\ task.pc \in {"refreshIssue", "refreshFind", "refreshRevoke"} => task.old \in held
  /\ task.pc \in {"loginSave", "refreshFind", "refreshRevoke"} =>
       task.new \in Tokens \ held /\ rt[task.new] # "unissued"
  /\ task.pc = "save" => Touches(user, task.snap)
  /\ task.pc = "saveThenRevoke" => Overturns(user, task.snap)
  /\ task.pc = "close" => ~user.disabled

AccountInv ==
  /\ user \in Accounts!UserRow /\ rt \in [Tokens -> Accounts!TokenStates] /\ held \subseteq Tokens
  /\ authReq = [r \in Requests |-> authReq[r]]
  /\ \A r \in Requests : AtWork(authReq[r])
  /\ \A t \in held : rt[t] # "unissued"
  /\ ~user.registered => ~user.disabled

\* A step the contract allows.
Promised == Accounts!Promise!CNext \/ UNCHANGED Accounts!Promise!cvars

LiveHeld == {t \in held \ expired : rt[t] = "live"}
Revoking(task) == task.pc \in {"revokeAll", "deleteAll"}

LEMMA OpenIs ==
  ASSUME NEW r, Requests = {r}
  PROVE  /\ Accounts!OpenSessions = IF Revoking(authReq[r]) THEN {} ELSE LiveHeld
         /\ Accounts!OpenSessions' = IF Revoking(authReq[r])' THEN {} ELSE LiveHeld'
  BY DEF Accounts!OpenSessions, Revoking, LiveHeld

\* What has to be seen of a step to keep the invariant.
LEMMA AccountBy ==
  ASSUME NEW r, Requests = {r}, AccountInv, authReq' = [authReq EXCEPT ![r] = authReq'[r]],
         user' \in Accounts!UserRow, rt' \in [Tokens -> Accounts!TokenStates],
         held' \subseteq Tokens, AtWork(authReq[r])', \A t \in held' : rt'[t] # "unissued",
         ~user'.registered => ~user'.disabled
  PROVE  AccountInv'
<1>1. (authReq = [q \in Requests |-> authReq[q]])'
  BY DEF AccountInv
<1>2. (\A q \in Requests : AtWork(authReq[q]))'
  OBVIOUS
<1> QED
  BY <1>1, <1>2 DEF AccountInv

LEMMA AccountFacts ==
  ASSUME AccountInv, NEW r \in Requests
  PROVE  /\ Requests = {r} /\ AtWork(authReq[r]) /\ authReq = [q \in Requests |-> authReq[q]]
         /\ user \in Accounts!UserRow /\ rt \in [Tokens -> Accounts!TokenStates]
         /\ held \subseteq Tokens /\ (\A t \in held : rt[t] # "unissued")
         /\ ~user.registered => ~user.disabled
  BY SlotAssumption DEF AccountInv

\* The contract sees nothing of a step that leaves the row and the open sessions.
LEMMA Unseen ==
  ASSUME user' = user, Accounts!OpenSessions' = Accounts!OpenSessions
  PROVE  Promised
  BY DEF Promised, Accounts!Promise!cvars, Accounts!Standing

\* The slot of a handler that has ended.
LEMMA IdleAtWork == AtWork(Accounts!Idle)
<1>1. Accounts!InitialUser \in Accounts!UserRow
  BY AccountsAssumption DEF Accounts!InitialUser, Accounts!UserRow
<1>2. Accounts!Idle \in Accounts!Slot /\ Accounts!Idle.pc = "idle"
  BY <1>1 DEF Accounts!Idle, Accounts!Slot, Accounts!Pcs
<1> QED
  BY <1>2 DEF AtWork

LEMMA AccountInit == Accounts!Init => AccountInv /\ Accounts!Promise!CInit
<1> SUFFICES ASSUME Accounts!Init PROVE AccountInv /\ Accounts!Promise!CInit
  OBVIOUS
<1>1. user \in Accounts!UserRow /\ rt \in [Tokens -> Accounts!TokenStates]
  BY AccountsAssumption
     DEF Accounts!Init, Accounts!InitialUser, Accounts!UserRow, Accounts!TokenStates
<1>2. \A r \in Requests : AtWork(authReq[r])
  BY IdleAtWork DEF Accounts!Init
<1>3. AccountInv
  BY <1>1, <1>2, AccountsAssumption DEF Accounts!Init, AccountInv, Accounts!InitialUser
<1>4. Accounts!Promise!CInit
  BY AccountsAssumption DEF Accounts!Init, Accounts!Promise!CInit, Accounts!Standing,
     Accounts!OpenSessions, Accounts!InitialUser, Accounts!Idle
<1> QED
  BY <1>3, <1>4

\* A handler begins: it knows what it read, and nothing has happened yet.
LEMMA AccountBegun ==
  ASSUME AccountInv, NEW r \in Requests, Accounts!At(r, "idle"),
         authReq' = [authReq EXCEPT ![r] = authReq'[r]], AtWork(authReq'[r]),
         ~Revoking(authReq'[r]), UNCHANGED <<user, rt, expired, held>>
  PROVE  AccountInv' /\ Promised
<1>1. Requests = {r} /\ ~Revoking(authReq[r]) /\ ~Revoking(authReq[r])' /\ LiveHeld' = LiveHeld
  BY AccountFacts DEF Accounts!At, Revoking, LiveHeld
<1>2. Promised
  BY <1>1, OpenIs, Unseen
<1>3. AtWork(authReq[r])'
  BY DEF AtWork, Accounts!Found
<1> QED
  BY <1>1, <1>2, <1>3, AccountFacts, AccountBy

LEMMA AccountStarts ==
  ASSUME AccountInv, Accounts!NoSessionWithoutStanding, NEW r \in Requests,
         \/ Accounts!LoginValidate(r) \/ Accounts!RefreshCheck(r)
         \/ Accounts!RequestReset(r) \/ Accounts!ResetPassword(r)
         \/ Accounts!VerifyEmail(r) \/ Accounts!ResendVerification(r)
         \/ Accounts!DisableUser(r) \/ Accounts!EnableUser(r) \/ Accounts!CloseAccount(r)
  PROVE  AccountInv' /\ Promised
<1> DEFINE Begins(task) ==
      /\ Accounts!At(r, "idle") /\ AtWork(task) /\ ~Revoking(task)
      /\ authReq' = [authReq EXCEPT ![r] = task] /\ UNCHANGED <<user, rt, expired, held>>
<1>1. \A task : Begins(task) => AccountInv' /\ Promised
  <2> SUFFICES ASSUME NEW task, Begins(task) PROVE AccountInv' /\ Promised
    OBVIOUS
  <2>1. authReq'[r] = task /\ authReq' = [authReq EXCEPT ![r] = authReq'[r]]
    BY AccountFacts
  <2> QED
    BY <2>1, AccountBegun
<1> HIDE DEF Begins
<1>2. /\ user \in Accounts!UserRow /\ Accounts!Idle \in Accounts!Slot
      /\ Accounts!Idle = [pc |-> "idle", snap |-> Accounts!InitialUser, old |-> None, new |-> None]
  BY AccountFacts, IdleAtWork DEF AtWork, Accounts!Idle
<1>3. ASSUME NEW pc \in {"save", "saveThenRevoke"}, NEW entity \in Accounts!UserRow,
             Accounts!At(r, "idle"), Accounts!Found, Accounts!Prepare(r, pc, entity),
             IF pc = "save" THEN Touches(user, entity) ELSE Overturns(user, entity),
             UNCHANGED <<user, rt, expired, held>>
      PROVE  AccountInv' /\ Promised
  <2> DEFINE task == [Accounts!Idle EXCEPT !.pc = pc, !.snap = entity]
  <2>1. task \in Accounts!Slot /\ task.pc = pc /\ task.snap = entity
    BY <1>2 DEF Accounts!Slot, Accounts!Pcs
  <2>2. Begins(task)
    BY <1>3, <2>1 DEF Begins, AtWork, Revoking, Accounts!Prepare
  <2> QED
    BY <1>1, <2>2
<1>4. CASE Accounts!LoginValidate(r)
  <2> DEFINE task == [Accounts!Idle EXCEPT !.pc = "loginIssue", !.snap = user]
  <2>1. task \in Accounts!Slot /\ task.pc = "loginIssue" /\ task.snap = user
    BY <1>2 DEF Accounts!Slot, Accounts!Pcs
  <2>2. Begins(task)
    BY <1>4, <2>1 DEF Begins, AtWork, Revoking, Accounts!Prepare, Accounts!LoginValidate,
       Accounts!MayAct
  <2> QED
    BY <1>1, <2>2
<1>5. CASE Accounts!RefreshCheck(r)
  <2>1. PICK t \in held \ expired :
          /\ rt[t] = "live"
          /\ authReq' = [authReq EXCEPT ![r] = [Accounts!Idle EXCEPT !.pc = "refreshIssue", !.old = t]]
    BY <1>5 DEF Accounts!RefreshCheck
  <2> DEFINE task == [Accounts!Idle EXCEPT !.pc = "refreshIssue", !.old = t]
  <2>2. t \in Tokens /\ task \in Accounts!Slot /\ task.pc = "refreshIssue" /\ task.old = t
    BY <1>2, <2>1, AccountFacts DEF Accounts!Slot, Accounts!Pcs
  <2>3. t \in Accounts!OpenSessions
    BY <1>5, <2>1, AccountFacts, OpenIs DEF Accounts!RefreshCheck, Accounts!At, Revoking, LiveHeld
  <2>4. user.verified /\ ~user.disabled /\ Accounts!Found
    BY <2>3 DEF Accounts!NoSessionWithoutStanding, Accounts!Promise!NoSessionWithoutStanding,
       Accounts!Standing, Accounts!Found
  <2>5. Begins(task)
    BY <1>5, <2>1, <2>2, <2>4 DEF Begins, AtWork, Revoking, Accounts!RefreshCheck
  <2> QED
    BY <1>1, <2>5
<1>6. CASE Accounts!RequestReset(r)
  <2>1. PICK m \in Mails : Accounts!Prepare(r, "save", [user EXCEPT !.reset = m])
    BY <1>6 DEF Accounts!RequestReset
  <2>2. /\ [user EXCEPT !.reset = m] \in Accounts!UserRow
        /\ Accounts!Found => Touches(user, [user EXCEPT !.reset = m])
    BY <1>2 DEF Accounts!UserRow, Accounts!Found, Touches
  <2> QED
    BY <1>3, <1>6, <2>1, <2>2 DEF Accounts!RequestReset
<1>7. CASE Accounts!ResetPassword(r)
  <2>1. PICK p \in Passwords :
          Accounts!Prepare(r, "saveThenRevoke", [user EXCEPT !.password = p, !.reset = None])
    BY <1>7 DEF Accounts!ResetPassword
  <2>2. /\ [user EXCEPT !.password = p, !.reset = None] \in Accounts!UserRow
        /\ Accounts!Found => Overturns(user, [user EXCEPT !.password = p, !.reset = None])
    BY <1>2 DEF Accounts!UserRow, Accounts!Found, Overturns
  <2> QED
    BY <1>3, <1>7, <2>1, <2>2 DEF Accounts!ResetPassword
<1>8. CASE Accounts!VerifyEmail(r)
  <2>1. /\ [user EXCEPT !.verified = TRUE, !.verify = None] \in Accounts!UserRow
        /\ Accounts!Found => Touches(user, [user EXCEPT !.verified = TRUE, !.verify = None])
    BY <1>2 DEF Accounts!UserRow, Accounts!Found, Touches
  <2> QED
    BY <1>3, <1>8, <2>1 DEF Accounts!VerifyEmail
<1>9. CASE Accounts!ResendVerification(r)
  <2>1. PICK m \in Mails : Accounts!Prepare(r, "save", [user EXCEPT !.verify = m])
    BY <1>9 DEF Accounts!ResendVerification
  <2>2. /\ [user EXCEPT !.verify = m] \in Accounts!UserRow
        /\ Accounts!Found => Touches(user, [user EXCEPT !.verify = m])
    BY <1>2 DEF Accounts!UserRow, Accounts!Found, Touches
  <2> QED
    BY <1>3, <1>9, <2>1, <2>2 DEF Accounts!ResendVerification
<1>10. CASE Accounts!DisableUser(r)
  <2>1. /\ [user EXCEPT !.disabled = TRUE] \in Accounts!UserRow
        /\ Accounts!Found => Overturns(user, [user EXCEPT !.disabled = TRUE])
    BY <1>2 DEF Accounts!UserRow, Accounts!Found, Overturns
  <2> QED
    BY <1>3, <1>10, <2>1 DEF Accounts!DisableUser
<1>11. CASE Accounts!EnableUser(r)
  <2>1. /\ [user EXCEPT !.disabled = FALSE] \in Accounts!UserRow
        /\ Accounts!Found => Touches(user, [user EXCEPT !.disabled = FALSE])
    BY <1>2 DEF Accounts!UserRow, Accounts!Found, Touches
  <2> QED
    BY <1>3, <1>11, <2>1 DEF Accounts!EnableUser
<1>12. CASE Accounts!CloseAccount(r)
  <2> DEFINE task == [authReq[r] EXCEPT !.pc = "close"]
  <2>1. task \in Accounts!Slot /\ task.pc = "close"
    BY AccountFacts DEF AtWork, Accounts!Slot, Accounts!Pcs
  <2>2. authReq' = [authReq EXCEPT ![r] = task]
    BY <1>12, AccountFacts DEF Accounts!CloseAccount, Accounts!Goto
  <2>3. Begins(task)
    BY <1>12, <2>1, <2>2 DEF Begins, AtWork, Revoking, Accounts!CloseAccount, Accounts!MayAct
  <2> QED
    BY <1>1, <2>3
<1> QED
  BY <1>4, <1>5, <1>6, <1>7, <1>8, <1>9, <1>10, <1>11, <1>12

\* A token is issued: its row is live, and nobody holds it yet.
LEMMA AccountIssues ==
  ASSUME AccountInv, NEW r \in Requests, Accounts!LoginIssue(r) \/ Accounts!RefreshIssue(r)
  PROVE  AccountInv' /\ Promised
<1>1. PICK t \in Tokens, next \in {"loginSave", "refreshFind"} :
        /\ Accounts!IssueToken(r, t, next)
        /\ authReq[r].pc = IF next = "loginSave" THEN "loginIssue" ELSE "refreshIssue"
  BY DEF Accounts!LoginIssue, Accounts!RefreshIssue, Accounts!At
<1>2. UNCHANGED <<user, expired, held>> /\ t \notin held
  BY <1>1, AccountFacts DEF Accounts!LoginIssue, Accounts!RefreshIssue, Accounts!IssueToken
<1>3. PICK task \in Accounts!Slot : task = authReq[r] /\ AtWork(task)
  BY AccountFacts DEF AtWork
<1>4. authReq' = [authReq EXCEPT ![r] = [task EXCEPT !.pc = next, !.new = t]]
  BY <1>1, <1>3, AccountFacts DEF Accounts!IssueToken
<1>5. authReq'[r] = [task EXCEPT !.pc = next, !.new = t]
  BY <1>4, AccountFacts
<1>6. /\ rt' \in [Tokens -> Accounts!TokenStates] /\ LiveHeld' = LiveHeld /\ rt'[t] = "live"
      /\ \A u \in held : rt'[u] = rt[u]
  BY <1>1, <1>2, AccountFacts DEF Accounts!IssueToken, Accounts!TokenStates, LiveHeld
<1>7. AtWork(authReq[r])'
  BY <1>1, <1>2, <1>3, <1>5, <1>6 DEF AtWork, Accounts!Slot, Accounts!Pcs, Accounts!Found
<1>8. ~Revoking(authReq[r]) /\ ~Revoking(authReq[r])'
  BY <1>1, <1>3, <1>5 DEF Revoking, Accounts!Slot
<1>9. Promised
  BY <1>2, <1>6, <1>8, OpenIs, Unseen, AccountFacts
<1> QED
  BY <1>2, <1>4, <1>5, <1>6, <1>7, <1>9, AccountFacts, AccountBy

\* The handler ends: what is left to see are the rows it leaves.
LEMMA AccountEnds ==
  ASSUME AccountInv, NEW r \in Requests, Accounts!Finish(r),
         user' \in Accounts!UserRow, rt' \in [Tokens -> Accounts!TokenStates],
         held' \subseteq Tokens, \A t \in held' : rt'[t] # "unissued",
         ~user'.registered => ~user'.disabled
  PROVE  AccountInv' /\ Accounts!OpenSessions' = LiveHeld'
<1>1. authReq'[r] = Accounts!Idle /\ authReq' = [authReq EXCEPT ![r] = authReq'[r]]
  BY AccountFacts DEF Accounts!Finish
<1>2. AtWork(authReq[r])' /\ ~Revoking(authReq[r])'
  BY <1>1, IdleAtWork DEF AtWork, Revoking, Accounts!Idle
<1> QED
  BY <1>1, <1>2, AccountFacts, AccountBy, OpenIs

\* An answer with a token opens a session, and a refresh ends the old one, unless
\* the new one expired or was swept meanwhile.
LEMMA AccountAnswers ==
  ASSUME AccountInv, NEW r \in Requests, Accounts!LoginSave(r) \/ Accounts!RefreshRevoke(r)
  PROVE  AccountInv' /\ Promised
<1> DEFINE old == IF Accounts!At(r, "loginSave") THEN {} ELSE {authReq[r].old}
           new == authReq[r].new
<1>1. /\ new \in Tokens \ held /\ rt[new] # "unissued" /\ old \subseteq held
      /\ Accounts!Found /\ user.verified /\ ~user.disabled /\ ~Revoking(authReq[r])
  BY AccountFacts DEF Accounts!LoginSave, Accounts!RefreshRevoke, Accounts!At, AtWork, Revoking
<1>2. /\ user' = user /\ expired' = expired /\ held' = held \cup {new} /\ Accounts!Finish(r)
      /\ rt' = [t \in Tokens |-> IF t \in old THEN "revoked" ELSE rt[t]]
  <2>1. CASE Accounts!LoginSave(r)
    <3>1. user' = [user EXCEPT !.verified = user.verified, !.disabled = user.disabled,
                               !.deleted = user.deleted]
      BY <2>1, AccountFacts DEF Accounts!LoginSave, Accounts!PlainSave, Accounts!At, AtWork
    <3>2. user' = user
      BY <3>1, AccountFacts DEF Accounts!UserRow
    <3> QED
      BY <2>1, <3>2, AccountFacts DEF Accounts!LoginSave
  <2>2. CASE Accounts!RefreshRevoke(r)
    BY <2>2, AccountFacts DEF Accounts!RefreshRevoke, Accounts!At
  <2> QED
    BY <2>1, <2>2
<1>3. rt' \in [Tokens -> Accounts!TokenStates] /\ \A t \in held' : rt'[t] # "unissued"
  BY <1>1, <1>2, AccountFacts DEF Accounts!TokenStates
<1>4. AccountInv' /\ Accounts!OpenSessions' = LiveHeld'
  BY <1>1, <1>2, <1>3, AccountFacts, AccountEnds
<1>5. Accounts!OpenSessions = LiveHeld
  BY <1>1, AccountFacts, OpenIs
<1>6. /\ new \notin LiveHeld
      /\ LiveHeld' \in {(LiveHeld \ old) \cup {new}, LiveHeld \ old}
  BY <1>1, <1>2, AccountFacts DEF LiveHeld
<1>7. Accounts!Standing = "active" /\ UNCHANGED <<Accounts!Standing, user.disabled, user.password>>
  BY <1>1, <1>2 DEF Accounts!Standing, Accounts!Found
<1>8. CASE LiveHeld' = (LiveHeld \ old) \cup {new}
  <2>1. PICK o \in {{}} \cup {{q} : q \in LiveHeld} : LiveHeld \ old = LiveHeld \ o
    <3>1. CASE old \cap LiveHeld = {}
      <4>1. LiveHeld \ old = LiveHeld \ {}
        BY <3>1
      <4> QED
        BY <4>1
    <3>2. CASE old \cap LiveHeld # {}
      <4>1. old \in {{q} : q \in LiveHeld}
        BY <3>2
      <4> QED
        BY <4>1
    <3> QED
      BY <3>1, <3>2
  <2>2. Accounts!Promise!Open
    BY <1>1, <1>4, <1>5, <1>6, <1>7, <1>8, <2>1 DEF Accounts!Promise!Open
  <2> QED
    BY <1>4, <2>2 DEF Promised, Accounts!Promise!CNext
<1>9. CASE LiveHeld' = LiveHeld \ old
  <2>1. LiveHeld \ old = LiveHeld \/ \E q \in LiveHeld : LiveHeld \ old = LiveHeld \ {q}
    OBVIOUS
  <2>2. CASE LiveHeld' = LiveHeld
    BY <1>2, <1>4, <1>5, <2>2, Unseen
  <2>3. CASE \E q \in LiveHeld : LiveHeld' = LiveHeld \ {q}
    BY <1>4, <1>5, <1>7, <2>3 DEF Promised, Accounts!Promise!CNext, Accounts!Promise!Leave
  <2> QED
    BY <1>9, <2>1, <2>2, <2>3
<1> QED
  BY <1>6, <1>8, <1>9

\* The refresh looks its old token up.
LEMMA AccountFinds ==
  ASSUME AccountInv, NEW r \in Requests, Accounts!RefreshFind(r)
  PROVE  AccountInv' /\ Promised
<1>1. /\ UNCHANGED <<user, rt, expired, held>> /\ ~Revoking(authReq[r])
      /\ LiveHeld' = LiveHeld /\ authReq[r].pc = "refreshFind"
  BY DEF Accounts!RefreshFind, Revoking, Accounts!At, LiveHeld
<1>2. CASE Accounts!Finish(r)
  <2>1. AccountInv' /\ Accounts!OpenSessions' = LiveHeld'
    BY <1>1, <1>2, AccountFacts, AccountEnds
  <2> QED
    BY <1>1, <2>1, AccountFacts, OpenIs, Unseen
<1>3. CASE Accounts!Goto(r, "refreshRevoke")
  <2>1. PICK task \in Accounts!Slot : task = authReq[r] /\ AtWork(task)
    BY AccountFacts DEF AtWork
  <2>2. /\ authReq' = [authReq EXCEPT ![r] = authReq'[r]]
        /\ authReq'[r] = [task EXCEPT !.pc = "refreshRevoke"]
    BY <1>3, <2>1, AccountFacts DEF Accounts!Goto
  <2>3. AtWork(authReq[r])' /\ ~Revoking(authReq[r])'
    BY <1>1, <2>1, <2>2 DEF AtWork, Revoking, Accounts!Slot, Accounts!Pcs, Accounts!Found
  <2>4. Promised
    BY <1>1, <2>3, AccountFacts, OpenIs, Unseen
  <2> QED
    BY <1>1, <2>2, <2>3, <2>4, AccountFacts, AccountBy
<1> QED
  BY <1>2, <1>3 DEF Accounts!RefreshFind

\* What was prepared is saved: a proof, a lifted lock, or a change that ends
\* every session with it.
LEMMA AccountSaves ==
  ASSUME AccountInv, NEW r \in Requests, Accounts!SaveUser(r)
  PROVE  AccountInv' /\ Promised
<1>1. PICK task \in Accounts!Slot : task = authReq[r] /\ AtWork(task)
  BY AccountFacts DEF AtWork
<1>2. /\ user' = task.snap /\ user' \in Accounts!UserRow /\ UNCHANGED <<rt, expired, held>>
      /\ LiveHeld' = LiveHeld /\ user \in Accounts!UserRow
      /\ user.registered /\ ~user.deleted
  BY <1>1, AccountFacts DEF Accounts!SaveUser, Accounts!Slot, LiveHeld, Accounts!At, AtWork,
     Accounts!Found
<1>3. CASE Accounts!At(r, "save") /\ Accounts!Finish(r)
  <2>1. Touches(user, user') /\ ~Revoking(authReq[r])
    BY <1>1, <1>2, <1>3 DEF AtWork, Accounts!At, Revoking
  <2>2. AccountInv' /\ Accounts!OpenSessions' = Accounts!OpenSessions
    BY <1>2, <1>3, <2>1, AccountFacts, AccountEnds, OpenIs DEF Touches
  <2>3. Promised
    <3>1. CASE user'.verified = user.verified /\ user'.disabled = user.disabled
      BY <1>2, <2>1, <2>2, <3>1
         DEF Promised, Accounts!Promise!cvars, Accounts!Standing, Touches
    <3>2. CASE user'.verified # user.verified
      BY <1>2, <2>1, <2>2, <3>2
         DEF Promised, Accounts!Promise!CNext, Accounts!Promise!Verify, Accounts!Standing, Touches,
             Accounts!UserRow
    <3>3. CASE user'.disabled # user.disabled
      BY <1>2, <2>1, <2>2, <3>3
         DEF Promised, Accounts!Promise!CNext, Accounts!Promise!Unlock, Accounts!Standing, Touches,
             Accounts!UserRow
    <3> QED
      BY <3>1, <3>2, <3>3
  <2> QED
    BY <2>2, <2>3
<1>4. CASE Accounts!At(r, "saveThenRevoke") /\ Accounts!Goto(r, "revokeAll")
  <2>1. Overturns(user, user')
    BY <1>1, <1>2, <1>4 DEF AtWork, Accounts!At
  <2>2. /\ authReq' = [authReq EXCEPT ![r] = authReq'[r]]
        /\ authReq'[r] = [task EXCEPT !.pc = "revokeAll"]
    BY <1>1, <1>4, AccountFacts DEF Accounts!Goto
  <2>3. AtWork(authReq[r])' /\ Revoking(authReq[r])'
    BY <1>2, <2>1, <2>2 DEF AtWork, Revoking, Accounts!Slot, Accounts!Pcs, Accounts!Found, Overturns
  <2>4. AccountInv'
    BY <1>2, <2>1, <2>2, <2>3, AccountFacts, AccountBy DEF Overturns
  <2>5. Accounts!OpenSessions' = {}
    BY <2>3, AccountFacts, OpenIs
  <2>6. CASE user'.disabled = user.disabled
    BY <1>2, <2>1, <2>4, <2>5, <2>6
       DEF Promised, Accounts!Promise!CNext, Accounts!Promise!ChangePassword, Accounts!Standing,
           Overturns, Accounts!UserRow
  <2>7. CASE user'.disabled # user.disabled
    BY <1>2, <2>1, <2>4, <2>5, <2>7
       DEF Promised, Accounts!Promise!CNext, Accounts!Promise!Lock, Accounts!Standing,
           Overturns, Accounts!UserRow
  <2> QED
    BY <2>6, <2>7
<1> QED
  BY <1>3, <1>4 DEF Accounts!SaveUser

\* The two statements of a revocation: the contract has seen it at the save.
LEMMA AccountRevokes ==
  ASSUME AccountInv, NEW r \in Requests, Accounts!RevokeAll(r) \/ Accounts!DeleteAll(r)
  PROVE  AccountInv' /\ Promised
<1>1. PICK task \in Accounts!Slot : task = authReq[r] /\ AtWork(task)
  BY AccountFacts DEF AtWork
<1>2. /\ UNCHANGED <<user, expired, held>> /\ Revoking(authReq[r])
      /\ rt' \in [Tokens -> Accounts!TokenStates]
      /\ \A t \in Tokens : rt'[t] # "live" /\ (rt[t] # "unissued" => rt'[t] # "unissued")
  BY AccountFacts DEF Accounts!RevokeAll, Accounts!DeleteAll, Accounts!LivePart,
     Accounts!WithoutRows, Accounts!TokenStates, Revoking, Accounts!At
<1>3. LiveHeld' = {} /\ Accounts!OpenSessions = {}
  BY <1>2, AccountFacts, OpenIs DEF LiveHeld
<1>4. CASE Accounts!RevokeAll(r)
  <2>1. /\ authReq' = [authReq EXCEPT ![r] = authReq'[r]]
        /\ authReq'[r] = [task EXCEPT !.pc = "deleteAll"] /\ task.pc = "revokeAll"
    BY <1>1, <1>4, AccountFacts DEF Accounts!RevokeAll, Accounts!Goto, Accounts!At
  <2>2. AtWork(authReq[r])' /\ Revoking(authReq[r])'
    BY <1>1, <1>2, <2>1 DEF AtWork, Revoking, Accounts!Slot, Accounts!Pcs, Accounts!Found
  <2>3. Promised
    BY <1>2, <1>3, <2>2, AccountFacts, OpenIs, Unseen
  <2> QED
    BY <1>2, <2>1, <2>2, <2>3, AccountFacts, AccountBy
<1>5. CASE Accounts!DeleteAll(r)
  <2>1. AccountInv' /\ Accounts!OpenSessions' = LiveHeld'
    BY <1>2, <1>5, AccountFacts, AccountEnds DEF Accounts!DeleteAll
  <2> QED
    BY <1>2, <1>3, <2>1, Unseen
<1> QED
  BY <1>4, <1>5

\* The closing transaction marks the account and its sessions together.
LEMMA AccountCloses ==
  ASSUME AccountInv, NEW r \in Requests, Accounts!CloseCommit(r)
  PROVE  AccountInv' /\ Promised
<1>1. /\ ~user.disabled /\ Accounts!Found
      /\ user' = [user EXCEPT !.deleted = TRUE] /\ UNCHANGED <<expired, held>>
      /\ Accounts!Finish(r)
  BY AccountFacts DEF Accounts!CloseCommit, Accounts!At, AtWork
<1>2. /\ rt' \in [Tokens -> Accounts!TokenStates]
      /\ \A t \in Tokens : rt'[t] # "live" /\ (rt[t] # "unissued" => rt'[t] # "unissued")
  BY AccountFacts DEF Accounts!CloseCommit, Accounts!LivePart, Accounts!TokenStates
<1>3. /\ user' \in Accounts!UserRow /\ user'.registered /\ user'.deleted
      /\ user'.disabled = user.disabled /\ user'.password = user.password
  BY <1>1, AccountFacts DEF Accounts!UserRow, Accounts!Found
<1>4. AccountInv' /\ Accounts!OpenSessions' = LiveHeld'
  BY <1>1, <1>2, <1>3, AccountFacts, AccountEnds
<1>5. Accounts!OpenSessions' = {}
  BY <1>1, <1>2, <1>4, AccountFacts DEF LiveHeld
<1>6. Accounts!Promise!Close
  BY <1>1, <1>3, <1>5 DEF Accounts!Promise!Close, Accounts!Standing, Accounts!Found
<1> QED
  BY <1>4, <1>6 DEF Promised, Accounts!Promise!CNext

\* The retention purge and a new registration of the address.
LEMMA AccountReplaced ==
  ASSUME AccountInv, Accounts!NoSessionWithoutStanding,
         Accounts!PurgeAccount \/ Accounts!Register
  PROVE  AccountInv' /\ Promised
<1>1. PICK r : Requests = {r}
  BY SlotAssumption
<1>2. PICK task \in Accounts!Slot : task = authReq[r] /\ AtWork(task)
  BY <1>1, AccountFacts DEF AtWork
<1>3. task.pc = "idle" /\ ~Revoking(task)
  BY <1>1, <1>2 DEF Accounts!PurgeAccount, Accounts!Register, Accounts!At, AtWork, Accounts!Found,
     Revoking
<1>4. UNCHANGED <<authReq, expired, held>>
  BY DEF Accounts!PurgeAccount, Accounts!Register
<1>5. /\ rt' \in [Tokens -> Accounts!TokenStates]
      /\ \A t \in Tokens : /\ rt[t] # "unissued" => rt'[t] # "unissued"
                           /\ rt'[t] = "live" => rt[t] = "live"
  BY <1>1, AccountFacts DEF Accounts!PurgeAccount, Accounts!Register, Accounts!WithoutRows,
     Accounts!TokenStates
<1>6. /\ Accounts!OpenSessions = {} /\ Accounts!OpenSessions = LiveHeld
      /\ Accounts!OpenSessions' = LiveHeld'
  <2>1. Accounts!Standing # "active"
    BY DEF Accounts!PurgeAccount, Accounts!Register, Accounts!Standing
  <2> QED
    BY <1>1, <1>2, <1>3, <1>4, <2>1, OpenIs DEF Accounts!NoSessionWithoutStanding,
       Accounts!Promise!NoSessionWithoutStanding, Revoking
<1>7. LiveHeld' = {}
  BY <1>1, <1>4, <1>5, <1>6, AccountFacts DEF LiveHeld
<1>8. Accounts!InitialUser \in Accounts!UserRow
  BY AccountsAssumption DEF Accounts!InitialUser, Accounts!UserRow
<1>9. ASSUME user' \in Accounts!UserRow, ~user'.disabled
      PROVE  AccountInv'
  <2>1. AtWork(authReq[r])'
    BY <1>2, <1>3, <1>4 DEF AtWork
  <2>2. authReq' = [authReq EXCEPT ![r] = authReq'[r]]
    BY <1>1, <1>4, AccountFacts
  <2> QED
    BY <1>1, <1>4, <1>5, <1>9, <2>1, <2>2, AccountFacts, AccountBy
<1>10. CASE Accounts!PurgeAccount
  <2>1. /\ user' = [Accounts!InitialUser EXCEPT !.registered = FALSE, !.verified = FALSE]
        /\ user.registered /\ user.deleted
    BY <1>10 DEF Accounts!PurgeAccount
  <2>2. /\ user' \in Accounts!UserRow /\ ~user'.registered /\ user'.disabled = FALSE
        /\ user'.password = p1
    BY <1>8, <2>1 DEF Accounts!UserRow, Accounts!InitialUser
  <2>3. Accounts!Promise!Remove
    BY <1>6, <1>7, <2>1, <2>2 DEF Accounts!Promise!Remove, Accounts!Standing
  <2> QED
    BY <1>9, <2>2, <2>3 DEF Promised, Accounts!Promise!CNext
<1>11. CASE Accounts!Register
  <2>1. PICK m \in Mails, p \in Passwords :
          user' = [Accounts!InitialUser EXCEPT !.password = p, !.verified = FALSE, !.verify = m]
    BY <1>11 DEF Accounts!Register
  <2>2. /\ user' \in Accounts!UserRow /\ user'.registered /\ user'.disabled = FALSE
        /\ ~user'.deleted /\ ~user'.verified /\ user'.password \in Passwords
    BY <1>8, <2>1 DEF Accounts!UserRow, Accounts!InitialUser
  <2>3. ~user.registered /\ user.disabled = FALSE
    BY <1>1, <1>11, AccountFacts DEF Accounts!Register, Accounts!UserRow
  <2>4. Accounts!Promise!Create
    BY <1>6, <1>7, <2>2, <2>3 DEF Accounts!Promise!Create, Accounts!Standing
  <2> QED
    BY <1>9, <2>2, <2>4 DEF Promised, Accounts!Promise!CNext
<1> QED
  BY <1>10, <1>11

\* Logout, the daily clean-up and time, which end one session at most.
LEMMA AccountLeaves ==
  ASSUME AccountInv, Accounts!Logout \/ Accounts!CleanupTokens \/ Accounts!Expire
  PROVE  AccountInv' /\ Promised
<1>1. PICK r : Requests = {r}
  BY SlotAssumption
<1>2. UNCHANGED <<user, held, authReq>>
  BY DEF Accounts!Logout, Accounts!CleanupTokens, Accounts!Expire
<1>3. /\ rt' \in [Tokens -> Accounts!TokenStates]
      /\ \A t \in Tokens : rt[t] # "unissued" => rt'[t] # "unissued"
  <2>1. CASE Accounts!Logout
    BY <1>1, <2>1, AccountFacts DEF Accounts!Logout, Accounts!TokenStates
  <2>2. CASE Accounts!CleanupTokens
    BY <1>1, <2>2, AccountFacts DEF Accounts!CleanupTokens, Accounts!TokenStates, Accounts!Sweepable
  <2>3. CASE Accounts!Expire
    BY <1>1, <2>3, AccountFacts DEF Accounts!Expire
  <2> QED
    BY <2>1, <2>2, <2>3
<1>4. AccountInv'
  <2>1. AtWork(authReq[r]) /\ authReq = [authReq EXCEPT ![r] = authReq[r]]
    BY <1>1, AccountFacts
  <2>2. AtWork(authReq[r])'
    BY <1>2, <1>3, <2>1 DEF AtWork, Accounts!Found
  <2> QED
    BY <1>1, <1>2, <1>3, <2>1, <2>2, AccountFacts, AccountBy
<1>5. LiveHeld' = LiveHeld \/ \E t \in LiveHeld : LiveHeld' = LiveHeld \ {t}
  <2>1. CASE Accounts!Logout
    <3>1. PICK t \in held \ expired : rt[t] = "live" /\ rt' = [rt EXCEPT ![t] = "revoked"]
      BY <2>1 DEF Accounts!Logout
    <3>2. LiveHeld' = LiveHeld \ {t} /\ t \in LiveHeld
      BY <1>1, <1>2, <2>1, <3>1, AccountFacts DEF LiveHeld, Accounts!Logout
    <3> QED
      BY <3>2
  <2>2. CASE Accounts!CleanupTokens
    BY <1>1, <1>2, <2>2, AccountFacts DEF Accounts!CleanupTokens, Accounts!Sweepable, LiveHeld
  <2>3. CASE Accounts!Expire
    <3>1. PICK x : expired' = expired \cup {x}
      BY <2>3 DEF Accounts!Expire
    <3>2. LiveHeld' = LiveHeld \ {x}
      BY <1>2, <2>3, <3>1 DEF Accounts!Expire, LiveHeld
    <3> QED
      BY <3>2
  <2> QED
    BY <2>1, <2>2, <2>3
<1>6. \/ Accounts!OpenSessions' = Accounts!OpenSessions
      \/ \E t \in Accounts!OpenSessions : Accounts!OpenSessions' = Accounts!OpenSessions \ {t}
  BY <1>1, <1>2, <1>5, OpenIs DEF Revoking
<1>7. Promised
  <2>1. UNCHANGED <<Accounts!Standing, user.disabled, user.password>>
    BY <1>2 DEF Accounts!Standing
  <2>2. CASE Accounts!OpenSessions' = Accounts!OpenSessions
    BY <1>2, <2>2, Unseen
  <2>3. CASE \E t \in Accounts!OpenSessions : Accounts!OpenSessions' = Accounts!OpenSessions \ {t}
    BY <2>1, <2>3 DEF Promised, Accounts!Promise!CNext, Accounts!Promise!Leave
  <2> QED
    BY <1>6, <2>2, <2>3
<1> QED
  BY <1>4, <1>7

\* The contract keeps every session on an account that may have one.
LEMMA ContractKeeps ==
  ASSUME Accounts!NoSessionWithoutStanding, Promised
  PROVE  Accounts!NoSessionWithoutStanding'
<1> USE DEF Accounts!NoSessionWithoutStanding, Accounts!Promise!NoSessionWithoutStanding
<1>1. CASE UNCHANGED Accounts!Promise!cvars
  BY <1>1 DEF Accounts!Promise!cvars
<1>2. CASE Accounts!Promise!Open \/ Accounts!Promise!Leave
  BY <1>2 DEF Accounts!Promise!Open, Accounts!Promise!Leave
<1>3. CASE Accounts!Promise!ChangePassword \/ Accounts!Promise!Lock \/ Accounts!Promise!Close
  BY <1>3 DEF Accounts!Promise!ChangePassword, Accounts!Promise!Lock, Accounts!Promise!Close
<1>4. CASE Accounts!Promise!Unlock \/ Accounts!Promise!Verify
  BY <1>4 DEF Accounts!Promise!Unlock, Accounts!Promise!Verify
<1>5. CASE Accounts!Promise!Remove \/ Accounts!Promise!Create
  BY <1>5 DEF Accounts!Promise!Remove, Accounts!Promise!Create
<1> QED
  BY <1>1, <1>2, <1>3, <1>4, <1>5 DEF Promised, Accounts!Promise!CNext

LEMMA AccountStep ==
  ASSUME AccountInv, Accounts!NoSessionWithoutStanding, [Accounts!Next]_(Accounts!vars)
  PROVE  /\ AccountInv' /\ Accounts!NoSessionWithoutStanding'
         /\ [Accounts!Promise!CNext]_(Accounts!Promise!cvars)
<1>1. CASE UNCHANGED Accounts!vars
  <2>1. AccountInv'
    BY <1>1 DEF Accounts!vars, AccountInv, AtWork, Accounts!Found
  <2>2. user' = user /\ Accounts!OpenSessions' = Accounts!OpenSessions
    BY <1>1 DEF Accounts!vars, Accounts!OpenSessions
  <2> QED
    BY <2>1, <2>2, Unseen, ContractKeeps DEF Promised
<1>2. ASSUME NEW r \in Requests, Accounts!Step(r)
      PROVE  AccountInv' /\ Promised
  BY <1>2, AccountStarts, AccountIssues, AccountAnswers, AccountFinds, AccountSaves,
     AccountRevokes, AccountCloses DEF Accounts!Step
<1>3. CASE Accounts!Next
  <2>1. AccountInv' /\ Promised
    BY <1>2, <1>3, AccountReplaced, AccountLeaves DEF Accounts!Next
  <2> QED
    BY <2>1, ContractKeeps DEF Promised
<1> QED
  BY <1>1, <1>3

LEMMA AccountKept ==
  Accounts!Spec => [](AccountInv /\ Accounts!NoSessionWithoutStanding)
<1>1. Accounts!Init => AccountInv /\ Accounts!NoSessionWithoutStanding
  <2>1. Accounts!Promise!CInit => Accounts!NoSessionWithoutStanding
    BY DEF Accounts!Promise!CInit, Accounts!NoSessionWithoutStanding,
       Accounts!Promise!NoSessionWithoutStanding
  <2> QED
    BY <2>1, AccountInit
<1> QED
  BY <1>1, AccountStep, PTL DEF Accounts!Spec

\* With one handler at a time no session outlives the account's standing.
THEOREM StandingHeld == Spec => []NoSessionWithoutStanding
  BY AccountKept, AccountsSpec, PTL DEF NoSessionWithoutStanding

\* With one handler at a time AuthSession implements AccountContract: a disable, a
\* closure or a reset is final and leaves no session open, and every session was
\* opened by a login or a refresh of an active account.
THEOREM AccountsKeepContract == Spec => AccountsImplementContract
<1>1. Accounts!Init => Accounts!Promise!CInit
  BY AccountInit
<1>2. Accounts!Spec => Accounts!Promise!Contract
  BY <1>1, AccountStep, AccountKept, PTL DEF Accounts!Spec, Accounts!Promise!Contract
<1> QED
  BY <1>2, AccountsSpec, PTL DEF AccountsImplementContract, Accounts!ImplementsContract

--------------------------------------------------------------------------------
(* Friendships: the handlers implement FriendContract.                     *)

\* The friendships' part of a behaviour is one of Friendship.
LEMMA FriendshipsSpec == Spec => Friendships!Spec
<1>1. Init => Friendships!Init
  BY DEF Init
<1>2. [Next]_vars => [Friendships!Next]_(Friendships!vars)
  BY DEF Next, vars, friendships, Friendships!vars
<1> QED
  BY <1>1, <1>2, PTL DEF Spec, Friendships!Spec

Pair(entity) == {entity.requester, entity.addressee}
Arrow(entity) == <<entity.requester, entity.addressee>>
Walled(entity) == Friendships!BlockedBetween(entity.requester, entity.addressee)
LiveRow(f) == Friendships!Live(row, f)

\* An answer to a waiting request, and a declined request asked again.
Answering(task) ==
  /\ LiveRow(task.id) /\ row[task.id].status = "PENDING"
  /\ Arrow(task.snap) = Arrow(row[task.id])
  /\ task.snap.status \in {"ACCEPTED", "DECLINED"}
Reviving(task) ==
  /\ LiveRow(task.id) /\ row[task.id].status = "DECLINED"
  /\ Pair(task.snap) = Pair(row[task.id]) /\ task.snap.requester # task.snap.addressee
  /\ task.snap.status = "PENDING"

\* What a handler running alone still knows of the rows it read.
AtHand(task) ==
  /\ task \in Friendships!Slot
  /\ task.pc \in {"sendFind", "insert", "insertBlock", "saveBlock", "findPair"} =>
       task.user \in Members /\ task.other \in Members /\ task.user # task.other
  /\ task.pc \in {"sendFind", "insert"} => ~Friendships!BlockedBetween(task.user, task.other)
  /\ task.pc = "insert" => Friendships!LiveBetween(task.user, task.other) = {}
  /\ task.pc \in {"checkBlock", "save"} =>
       /\ task.id \in Rows /\ task.snap \in Friendships!FriendshipRow /\ ~task.snap.deleted
       /\ Answering(task) \/ (task.pc = "save" /\ Reviving(task))
  /\ task.pc = "softRemove" =>
       /\ task.id \in Rows /\ LiveRow(task.id)
       /\ Walled(row[task.id]) \/ row[task.id].status \in {"PENDING", "ACCEPTED"}
  /\ task.pc = "insertBlock" =>
       \A k \in Blocks : block[k] # None =>
         ~(block[k].blocker = task.user /\ block[k].blocked = task.other)
  /\ task.pc = "saveBlock" =>
       /\ task.id \in Blocks /\ block[task.id] # None
       /\ block[task.id].blocker = task.user /\ block[task.id].blocked = task.other
  /\ task.pc = "findPair" => Friendships!BlockedBetween(task.user, task.other)
  /\ task.pc = "softRemoveBlock" => task.id \in Blocks /\ Friendships!Live(block, task.id)

\* A row stands across a block only while the blocking handler is removing it.
BeingRemoved(task, f) ==
  \/ task.pc = "findPair" /\ Pair(row[f]) = {task.user, task.other}
  \/ task.pc = "softRemove" /\ task.id = f

FriendInv ==
  /\ row \in [Rows -> Friendships!FriendshipRow \cup {None}]
  /\ block \in [Blocks -> Friendships!BlockRow \cup {None}]
  /\ friendReq = [r \in Requests |-> friendReq[r]]
  /\ \A r \in Requests : AtHand(friendReq[r])
  /\ \A f \in Rows : row[f] # None => row[f].requester # row[f].addressee
  /\ \A k \in Blocks : block[k] # None => block[k].blocker # block[k].blocked
  /\ \A f, g \in Rows : LiveRow(f) /\ LiveRow(g) /\ Pair(row[f]) = Pair(row[g]) => f = g
  /\ \A j, k \in Blocks :
       /\ Friendships!Live(block, j) /\ Friendships!Live(block, k)
       /\ block[j].blocker = block[k].blocker /\ block[j].blocked = block[k].blocked
       => j = k
  /\ \A f \in Rows, r \in Requests :
       LiveRow(f) /\ Walled(row[f]) => BeingRemoved(friendReq[r], f)

\* A step the contract allows.
Kept == Friendships!Promise!FNext \/ UNCHANGED Friendships!Promise!fvars

LEMMA FriendFacts ==
  ASSUME FriendInv, NEW r \in Requests
  PROVE  /\ Requests = {r} /\ AtHand(friendReq[r]) /\ friendReq[r] \in Friendships!Slot
         /\ friendReq = [q \in Requests |-> friendReq[q]]
         /\ row \in [Rows -> Friendships!FriendshipRow \cup {None}]
         /\ block \in [Blocks -> Friendships!BlockRow \cup {None}]
         /\ \A f \in Rows : LiveRow(f) =>
              /\ row[f] \in Friendships!FriendshipRow /\ ~row[f].deleted
              /\ row[f].requester # row[f].addressee
              /\ Walled(row[f]) => BeingRemoved(friendReq[r], f)
  BY SlotAssumption DEF FriendInv, LiveRow, Friendships!Live, AtHand

LEMMA FriendInit == Friendships!Init => FriendInv /\ Friendships!Promise!FInit
<1> SUFFICES ASSUME Friendships!Init PROVE FriendInv /\ Friendships!Promise!FInit
  OBVIOUS
<1>1. Friendships!Idle \in Friendships!Slot /\ Friendships!Idle.pc = "idle"
  BY DEF Friendships!Idle, Friendships!Slot, Friendships!Pcs
<1>2. \A r \in Requests : AtHand(friendReq[r])
  BY <1>1 DEF Friendships!Init, AtHand
<1>3. (\A f \in Rows : ~LiveRow(f)) /\ (\A k \in Blocks : ~Friendships!Live(block, k))
  BY DEF Friendships!Init, LiveRow, Friendships!Live
<1>4. FriendInv
  BY <1>2, <1>3 DEF Friendships!Init, FriendInv
<1>5. \A status : Friendships!Standing(status) = {}
  BY <1>3 DEF Friendships!Standing, LiveRow
<1>6. Friendships!Promise!FInit
  BY <1>3, <1>5 DEF Friendships!Promise!FInit, Friendships!Arrows
<1> QED
  BY <1>4, <1>6

\* The contract sees nothing of a step that writes no table.
LEMMA TablesUnseen ==
  ASSUME UNCHANGED <<row, block>>
  PROVE  Kept
<1>1. \A status : Friendships!Standing(status)' = Friendships!Standing(status)
  BY DEF Friendships!Standing, Friendships!Live, Friendships!BlockedBetween
<1>2. \A status : Friendships!Arrows(status)' = Friendships!Arrows(status)
  BY <1>1 DEF Friendships!Arrows
<1> QED
  BY <1>1, <1>2 DEF Kept, Friendships!Promise!fvars, Friendships!PairKey, Friendships!Live

\* What has to be seen of a step that writes no table.
LEMMA FriendQuiet ==
  ASSUME FriendInv, NEW r \in Requests, UNCHANGED <<row, block>>,
         friendReq' = [friendReq EXCEPT ![r] = friendReq'[r]], AtHand(friendReq'[r]),
         \A f \in Rows : LiveRow(f) /\ Walled(row[f]) => BeingRemoved(friendReq'[r], f)
  PROVE  FriendInv' /\ Kept
<1>1. Requests = {r}
  BY FriendFacts
<1>2. AtHand(friendReq[r])'
  BY DEF AtHand, Answering, Reviving, LiveRow, Walled, Friendships!Live, Friendships!LiveBetween,
     Friendships!BlockedBetween
<1>3. (\A f \in Rows : LiveRow(f) /\ Walled(row[f]) => BeingRemoved(friendReq[r], f))'
  BY DEF LiveRow, Walled, BeingRemoved, Friendships!Live, Friendships!BlockedBetween
<1>4. FriendInv'
  BY <1>1, <1>2, <1>3, FriendFacts DEF FriendInv, LiveRow, Friendships!Live
<1> QED
  BY <1>4, TablesUnseen

Both(entity) == {Arrow(entity), <<entity.addressee, entity.requester>>}
Shown(entity, status) == ~entity.deleted /\ entity.status = status /\ ~Walled(entity)
Bonds == {Friendships!PairKey(row[f]) : f \in Friendships!Standing("ACCEPTED")}
Walls == {<<block[k].blocker, block[k].blocked>> : k \in {j \in Blocks : Friendships!Live(block, j)}}

\* Two directions of a pair, and the pair.
LEMMA PairFacts ==
  ASSUME NEW e, NEW g
  PROVE  /\ Pair(e) = Pair(g) <=> Arrow(g) \in Both(e)
         /\ Pair(e) = Pair(g) => (Walled(e) <=> Walled(g)) /\ Both(e) = Both(g)
<1>1. Pair(e) = Pair(g) <=> \/ e.requester = g.requester /\ e.addressee = g.addressee
                            \/ e.requester = g.addressee /\ e.addressee = g.requester
  BY DEF Pair
<1>2. Arrow(g) \in Both(e) <=> \/ e.requester = g.requester /\ e.addressee = g.addressee
                               \/ e.requester = g.addressee /\ e.addressee = g.requester
  BY DEF Both, Arrow
<1>3. Pair(e) = Pair(g) => (Walled(e) <=> Walled(g))
  BY DEF Pair, Walled, Friendships!BlockedBetween
<1>4. Pair(e) = Pair(g) => Both(e) = Both(g)
  BY <1>1 DEF Both, Arrow
<1> QED
  BY <1>1, <1>2, <1>3, <1>4

\* Writing the only live row of a pair moves that pair and no other.
LEMMA RowMoves ==
  ASSUME FriendInv, NEW f \in Rows, NEW e \in Friendships!FriendshipRow,
         row' = [row EXCEPT ![f] = e], block' = block,
         \A g \in Rows \ {f} : LiveRow(g) => Pair(row[g]) # Pair(e),
         LiveRow(f) => Pair(row[f]) = Pair(e)
  PROVE  /\ \A status : Friendships!Arrows(status)' =
              (Friendships!Arrows(status) \ Both(e))
                \cup (IF Shown(e, status) THEN {Arrow(e)} ELSE {})
         /\ Bonds' = (Bonds \ {Pair(e)}) \cup (IF Shown(e, "ACCEPTED") THEN {Pair(e)} ELSE {})
         /\ Walls' = Walls
<1>1. /\ row \in [Rows -> Friendships!FriendshipRow \cup {None}] /\ row'[f] = e
      /\ \A g \in Rows \ {f} : row'[g] = row[g]
      /\ e # None
  BY FriendshipsAssumption DEF FriendInv
<1>2. \A entity : Friendships!BlockedBetween(entity.requester, entity.addressee)' =
                  Friendships!BlockedBetween(entity.requester, entity.addressee)
  BY DEF Friendships!BlockedBetween, Friendships!Live
<1>3. ASSUME NEW status
      PROVE  Friendships!Standing(status)' =
               (Friendships!Standing(status) \ {f}) \cup (IF Shown(e, status) THEN {f} ELSE {})
  BY <1>1 DEF Friendships!Standing, Shown, Walled, Friendships!Live, Friendships!BlockedBetween
<1>4. ASSUME NEW status, NEW g \in Friendships!Standing(status) \ {f}
      PROVE  /\ g \in Rows /\ LiveRow(g) /\ Arrow(row[g]) \notin Both(e)
             /\ Pair(row[g]) # Pair(e) /\ row'[g] = row[g]
  BY <1>1, <1>4, PairFacts DEF Friendships!Standing, LiveRow
<1>5. ASSUME NEW status, f \in Friendships!Standing(status)
      PROVE  Arrow(row[f]) \in Both(e) /\ Pair(row[f]) = Pair(e)
  BY <1>5, PairFacts DEF Friendships!Standing, LiveRow
<1>6. ASSUME NEW status
      PROVE  Friendships!Arrows(status)' =
               (Friendships!Arrows(status) \ Both(e))
                 \cup (IF Shown(e, status) THEN {Arrow(e)} ELSE {})
  <2>1. {Arrow(row[g]) : g \in Friendships!Standing(status) \ {f}} =
          Friendships!Arrows(status) \ Both(e)
    BY <1>4, <1>5 DEF Friendships!Arrows, Arrow
  <2>2. {Arrow(row'[g]) : g \in Friendships!Standing(status) \ {f}} =
          {Arrow(row[g]) : g \in Friendships!Standing(status) \ {f}}
    BY <1>4
  <2>3. Friendships!Arrows(status)' = {Arrow(row'[g]) : g \in Friendships!Standing(status)'}
    BY DEF Friendships!Arrows, Arrow
  <2> QED
    BY <1>1, <1>3, <2>1, <2>2, <2>3
<1>7. Bonds' = (Bonds \ {Pair(e)}) \cup (IF Shown(e, "ACCEPTED") THEN {Pair(e)} ELSE {})
  <2> DEFINE rest == Friendships!Standing("ACCEPTED") \ {f}
  <2>0. Bonds = {Pair(row[g]) : g \in Friendships!Standing("ACCEPTED")}
    BY DEF Bonds, Friendships!PairKey, Pair
  <2>1. {Pair(row[g]) : g \in rest} = Bonds \ {Pair(e)}
    BY <1>4, <1>5, <2>0
  <2>2. {Pair(row'[g]) : g \in rest} = {Pair(row[g]) : g \in rest}
    BY <1>4
  <2>3. Bonds' = {Pair(row'[g]) : g \in Friendships!Standing("ACCEPTED")'}
    BY DEF Bonds, Friendships!PairKey, Pair
  <2> QED
    BY <1>1, <1>3, <2>1, <2>2, <2>3
<1>8. Walls' = Walls
  BY DEF Walls, Friendships!Live
<1> QED
  BY <1>6, <1>7, <1>8

\* What the relations say of the pair of a live row that no block hides.
LEMMA RowStands ==
  ASSUME FriendInv, NEW f \in Rows, LiveRow(f), ~Walled(row[f])
  PROVE  /\ \A status : Friendships!Arrows(status) \cap Both(row[f]) =
              IF row[f].status = status THEN {Arrow(row[f])} ELSE {}
         /\ Pair(row[f]) \in Bonds <=> row[f].status = "ACCEPTED"
<1>1. ASSUME NEW status, NEW g \in Friendships!Standing(status), Pair(row[g]) = Pair(row[f])
      PROVE  g = f
  BY <1>1 DEF FriendInv, Friendships!Standing, LiveRow
<1>2. \A status : f \in Friendships!Standing(status) <=> row[f].status = status
  BY DEF Friendships!Standing, LiveRow, Walled
<1>3. ASSUME NEW status
      PROVE  Friendships!Arrows(status) \cap Both(row[f]) =
               IF row[f].status = status THEN {Arrow(row[f])} ELSE {}
  <2>1. Friendships!Arrows(status) = {Arrow(row[g]) : g \in Friendships!Standing(status)}
    BY DEF Friendships!Arrows, Arrow
  <2>2. \A g \in Friendships!Standing(status) : Arrow(row[g]) \in Both(row[f]) => g = f
    BY <1>1, PairFacts
  <2>3. Arrow(row[f]) \in Both(row[f])
    BY DEF Both
  <2> QED
    BY <1>2, <2>1, <2>2, <2>3
<1>4. Pair(row[f]) \in Bonds <=> row[f].status = "ACCEPTED"
  <2>1. Bonds = {Pair(row[g]) : g \in Friendships!Standing("ACCEPTED")}
    BY DEF Bonds, Friendships!PairKey, Pair
  <2> QED
    BY <1>1, <1>2, <2>1
<1> QED
  BY <1>3, <1>4

\* ... and of a pair without a live row.
LEMMA NoneStands ==
  ASSUME NEW e, \A g \in Rows : LiveRow(g) => Pair(row[g]) # Pair(e)
  PROVE  /\ \A status : Friendships!Arrows(status) \cap Both(e) = {}
         /\ Pair(e) \notin Bonds
<1>1. ASSUME NEW status, NEW g \in Friendships!Standing(status)
      PROVE  Pair(row[g]) # Pair(e) /\ Arrow(row[g]) \notin Both(e)
  BY <1>1, PairFacts DEF Friendships!Standing, LiveRow
<1>2. /\ \A status : Friendships!Arrows(status) = {Arrow(row[g]) : g \in Friendships!Standing(status)}
      /\ Bonds = {Pair(row[g]) : g \in Friendships!Standing("ACCEPTED")}
  BY DEF Friendships!Arrows, Arrow, Bonds, Friendships!PairKey, Pair
<1> QED
  BY <1>1, <1>2

\* A wall between two is a block of one of them against the other.
LEMMA WallFacts ==
  ASSUME NEW m, NEW n
  PROVE  <<m, n>> \in Walls \/ <<n, m>> \in Walls <=> Friendships!BlockedBetween(m, n)
<1>1. \A k \in Blocks : {block[k].blocker, block[k].blocked} = {m, n} <=>
        \/ <<block[k].blocker, block[k].blocked>> = <<m, n>>
        \/ <<block[k].blocker, block[k].blocked>> = <<n, m>>
  OBVIOUS
<1> QED
  BY <1>1 DEF Walls, Friendships!BlockedBetween

\* Outside the removal no live row stands across a block.
LEMMA NoneAcross ==
  ASSUME FriendInv, NEW r \in Requests, friendReq[r].pc \notin {"findPair", "softRemove"}
  PROVE  \A f \in Rows : LiveRow(f) => ~Walled(row[f])
  BY FriendFacts DEF BeingRemoved

LEMMA EndsAtHand ==
  /\ Friendships!Idle \in Friendships!Slot /\ AtHand(Friendships!Idle)
  /\ Friendships!Idle = [pc |-> "idle", user |-> None, other |-> None, id |-> None, snap |-> None]
<1>1. Friendships!Idle \in Friendships!Slot /\ Friendships!Idle.pc = "idle"
  BY DEF Friendships!Idle, Friendships!Slot, Friendships!Pcs
<1> QED
  BY <1>1 DEF AtHand, Friendships!Idle

\* The handler takes up a slot and writes no table.
Takes(r, task) ==
  /\ AtHand(task) /\ friendReq' = [friendReq EXCEPT ![r] = task] /\ UNCHANGED <<row, block>>
  /\ \A f \in Rows : LiveRow(f) /\ Walled(row[f]) => BeingRemoved(task, f)

LEMMA FriendTakes ==
  ASSUME FriendInv, NEW r \in Requests, NEW task, Takes(r, task)
  PROVE  FriendInv' /\ Kept
<1>1. friendReq'[r] = task /\ friendReq' = [friendReq EXCEPT ![r] = friendReq'[r]]
  BY FriendFacts DEF Takes
<1> QED
  BY <1>1, FriendQuiet DEF Takes

LEMMA FriendRefuses ==
  ASSUME FriendInv, NEW r \in Requests, Friendships!Finish(r), UNCHANGED <<row, block>>,
         \A f \in Rows : LiveRow(f) => ~Walled(row[f])
  PROVE  FriendInv' /\ Kept
<1>1. Takes(r, Friendships!Idle)
  BY EndsAtHand DEF Takes, Friendships!Finish, Friendships!Enter
<1> QED
  BY <1>1, FriendTakes

\* A handler begins.
LEMMA FriendStarts ==
  ASSUME FriendInv, NEW r \in Requests,
         \/ Friendships!SendRequest(r) \/ Friendships!Respond(r) \/ Friendships!Withdraw(r)
         \/ Friendships!BlockMember(r) \/ Friendships!UnblockMember(r)
  PROVE  FriendInv' /\ Kept
<1>1. /\ friendReq[r].pc = "idle" /\ UNCHANGED <<row, block>>
      /\ \A f \in Rows : LiveRow(f) => ~Walled(row[f])
  BY NoneAcross DEF Friendships!SendRequest, Friendships!Respond, Friendships!Withdraw,
     Friendships!BlockMember, Friendships!UnblockMember, Friendships!At
<1>2. ASSUME NEW task, AtHand(task), Friendships!Enter(r, task)
      PROVE  FriendInv' /\ Kept
  BY <1>1, <1>2, FriendTakes DEF Takes, Friendships!Enter
<1>3. CASE Friendships!SendRequest(r)
  <2>1. PICK u \in Members, v \in Members :
          /\ u # v /\ ~Friendships!BlockedBetween(u, v)
          /\ Friendships!Enter(r, [Friendships!Idle EXCEPT !.pc = "sendFind", !.user = u, !.other = v])
    BY <1>3 DEF Friendships!SendRequest
  <2>2. AtHand([Friendships!Idle EXCEPT !.pc = "sendFind", !.user = u, !.other = v])
    BY <2>1, EndsAtHand DEF AtHand, Friendships!Slot, Friendships!Pcs
  <2> QED
    BY <1>2, <2>1, <2>2
<1>4. CASE Friendships!Respond(r)
  <2>1. PICK f \in Rows, given \in {"ACCEPTED", "DECLINED"} :
          /\ LiveRow(f) /\ row[f].status = "PENDING"
          /\ Friendships!Enter(r,
               [pc |-> "checkBlock", user |-> row[f].addressee, other |-> row[f].requester,
                id |-> f, snap |-> [row[f] EXCEPT !.status = given]])
    BY <1>4 DEF Friendships!Respond, LiveRow
  <2> DEFINE snap == [row[f] EXCEPT !.status = given]
             task == [pc |-> "checkBlock", user |-> row[f].addressee, other |-> row[f].requester,
                      id |-> f, snap |-> snap]
  <2>2. /\ row[f] \in Friendships!FriendshipRow /\ snap \in Friendships!FriendshipRow
        /\ ~snap.deleted /\ snap.status = given /\ Arrow(snap) = Arrow(row[f])
    BY <2>1, FriendFacts DEF Friendships!FriendshipRow, Friendships!Statuses, Arrow
  <2>3. task \in Friendships!Slot /\ task.pc = "checkBlock" /\ task.id = f /\ task.snap = snap
    BY <2>2 DEF Friendships!Slot, Friendships!Pcs, Friendships!FriendshipRow
  <2>4. AtHand(task)
    BY <2>1, <2>2, <2>3 DEF AtHand, Answering
  <2> QED
    BY <1>2, <2>1, <2>4
<1>5. CASE Friendships!Withdraw(r)
  <2>1. PICK f \in Rows :
          /\ LiveRow(f) /\ row[f].status \in {"PENDING", "ACCEPTED"}
          /\ \E u \in Pair(row[f]) :
               Friendships!Enter(r, [Friendships!Idle EXCEPT !.pc = "softRemove", !.user = u, !.id = f])
    BY <1>5 DEF Friendships!Withdraw, LiveRow, Friendships!PairKey, Pair
  <2>2. PICK u \in Members :
          Friendships!Enter(r, [Friendships!Idle EXCEPT !.pc = "softRemove", !.user = u, !.id = f])
    BY <2>1, FriendFacts DEF Pair, Friendships!FriendshipRow
  <2> DEFINE task == [Friendships!Idle EXCEPT !.pc = "softRemove", !.user = u, !.id = f]
  <2>3. task \in Friendships!Slot /\ task.pc = "softRemove" /\ task.id = f
    BY <2>2, EndsAtHand DEF Friendships!Slot, Friendships!Pcs
  <2>4. AtHand(task)
    BY <2>1, <2>3 DEF AtHand
  <2> QED
    BY <1>2, <2>2, <2>4
<1>6. CASE Friendships!BlockMember(r)
  <2>1. PICK u \in Members, v \in Members :
          /\ u # v
          /\ LET mine == {k \in Blocks : /\ block[k] # None
                                          /\ block[k].blocker = u /\ block[k].blocked = v}
                 At0 == [Friendships!Idle EXCEPT !.user = u, !.other = v]
             IN  \/ mine = {} /\ Friendships!Enter(r, [At0 EXCEPT !.pc = "insertBlock"])
                 \/ \E k \in mine : Friendships!Enter(r, [At0 EXCEPT !.pc = "saveBlock", !.id = k])
    BY <1>6 DEF Friendships!BlockMember
  <2> DEFINE mine == {k \in Blocks : block[k] # None /\ block[k].blocker = u /\ block[k].blocked = v}
             At0 == [Friendships!Idle EXCEPT !.user = u, !.other = v]
  <2>2. CASE mine = {} /\ Friendships!Enter(r, [At0 EXCEPT !.pc = "insertBlock"])
    <3> DEFINE task == [At0 EXCEPT !.pc = "insertBlock"]
    <3>1. task \in Friendships!Slot /\ task.pc = "insertBlock" /\ task.user = u /\ task.other = v
      BY EndsAtHand DEF Friendships!Slot, Friendships!Pcs
    <3>2. AtHand(task)
      BY <2>1, <2>2, <3>1 DEF AtHand
    <3> QED
      BY <1>2, <2>2, <3>2
  <2>3. ASSUME NEW k \in mine, Friendships!Enter(r, [At0 EXCEPT !.pc = "saveBlock", !.id = k])
        PROVE  FriendInv' /\ Kept
    <3> DEFINE task == [At0 EXCEPT !.pc = "saveBlock", !.id = k]
    <3>1. /\ task \in Friendships!Slot /\ task.pc = "saveBlock" /\ task.id = k
          /\ task.user = u /\ task.other = v
      BY <2>3, EndsAtHand DEF Friendships!Slot, Friendships!Pcs
    <3>2. AtHand(task)
      BY <2>1, <2>3, <3>1 DEF AtHand
    <3> QED
      BY <1>2, <2>3, <3>2
  <2> QED
    BY <2>1, <2>2, <2>3
<1>7. CASE Friendships!UnblockMember(r)
  <2>1. PICK k \in Blocks :
          /\ Friendships!Live(block, k)
          /\ Friendships!Enter(r,
               [Friendships!Idle EXCEPT !.pc = "softRemoveBlock", !.user = block[k].blocker, !.id = k])
    BY <1>7 DEF Friendships!UnblockMember
  <2>2. block[k].blocker \in Members
    BY <2>1, FriendFacts DEF Friendships!Live, Friendships!BlockRow
  <2>3. AtHand([Friendships!Idle EXCEPT !.pc = "softRemoveBlock", !.user = block[k].blocker, !.id = k])
    BY <2>1, <2>2, EndsAtHand DEF AtHand, Friendships!Slot, Friendships!Pcs
  <2> QED
    BY <1>2, <2>1, <2>3
<1> QED
  BY <1>3, <1>4, <1>5, <1>6, <1>7

\* A handler reads on: the pair's row, a block, or the row to remove.
LEMMA FriendReads ==
  ASSUME FriendInv, NEW r \in Requests,
         Friendships!SendFind(r) \/ Friendships!CheckBlock(r) \/ Friendships!FindPair(r)
  PROVE  FriendInv' /\ Kept
<1>1. PICK task \in Friendships!Slot : task = friendReq[r] /\ AtHand(task)
  BY FriendFacts
<1>2. UNCHANGED <<row, block>>
  BY DEF Friendships!SendFind, Friendships!CheckBlock, Friendships!FindPair,
     Friendships!ResolveExisting, Friendships!Refuse
<1>3. CASE Friendships!SendFind(r)
  <2>1. /\ task.pc = "sendFind" /\ task.user \in Members /\ task.other \in Members
        /\ task.user # task.other /\ ~Friendships!BlockedBetween(task.user, task.other)
        /\ \A f \in Rows : LiveRow(f) => ~Walled(row[f])
    BY <1>1, <1>3, NoneAcross DEF Friendships!SendFind, Friendships!At, AtHand
  <2>2. CASE Friendships!Finish(r)
    BY <1>2, <2>1, <2>2, FriendRefuses
  <2>3. CASE Friendships!LiveBetween(task.user, task.other) = {} /\ Friendships!Goto(r, "insert")
    <3>1. AtHand([task EXCEPT !.pc = "insert"])
      BY <1>1, <2>1, <2>3 DEF AtHand, Friendships!Slot, Friendships!Pcs
    <3>2. Takes(r, [task EXCEPT !.pc = "insert"])
      BY <1>1, <1>2, <2>1, <2>3, <3>1, FriendFacts DEF Takes, Friendships!Goto
    <3> QED
      BY <3>2, FriendTakes
  <2>4. ASSUME NEW f \in Rows, LiveRow(f), Pair(row[f]) = {task.user, task.other},
               NEW entity \in Friendships!FriendshipRow,
               Friendships!Enter(r, [task EXCEPT !.pc = "save", !.id = f, !.snap = entity]),
               Answering([task EXCEPT !.pc = "save", !.id = f, !.snap = entity])
                 \/ Reviving([task EXCEPT !.pc = "save", !.id = f, !.snap = entity]),
               ~entity.deleted
        PROVE  FriendInv' /\ Kept
    <3> DEFINE next == [task EXCEPT !.pc = "save", !.id = f, !.snap = entity]
    <3>1. next \in Friendships!Slot /\ next.pc = "save" /\ next.id = f /\ next.snap = entity
      BY <1>1 DEF Friendships!Slot, Friendships!Pcs
    <3>2. AtHand(next)
      BY <2>4, <3>1 DEF AtHand
    <3>3. Takes(r, next)
      BY <1>2, <2>1, <2>4, <3>2 DEF Takes, Friendships!Enter
    <3> QED
      BY <3>3, FriendTakes
  <2>5. ASSUME NEW f \in Friendships!LiveBetween(task.user, task.other),
               Friendships!ResolveExisting(r, f)
        PROVE  FriendInv' /\ Kept
    <3>1. /\ f \in Rows /\ LiveRow(f) /\ Pair(row[f]) = {task.user, task.other}
          /\ row[f] \in Friendships!FriendshipRow /\ ~row[f].deleted
      BY <2>5, FriendFacts DEF Friendships!LiveBetween, LiveRow, Pair
    <3> DEFINE taken == [row[f] EXCEPT !.status = "ACCEPTED"]
               fresh == [requester |-> task.user, addressee |-> task.other, status |-> "PENDING",
                         deleted |-> FALSE]
    <3>2. CASE row[f].status = "PENDING"
               /\ Friendships!Enter(r, [task EXCEPT !.pc = "save", !.id = f, !.snap = taken])
      <4>1. /\ taken \in Friendships!FriendshipRow /\ ~taken.deleted
            /\ taken.status = "ACCEPTED" /\ Arrow(taken) = Arrow(row[f])
        BY <3>1 DEF Friendships!FriendshipRow, Friendships!Statuses, Arrow
      <4>2. Answering([task EXCEPT !.pc = "save", !.id = f, !.snap = taken])
        BY <1>1, <3>1, <3>2, <4>1 DEF Answering, Friendships!Slot
      <4> QED
        BY <2>4, <3>1, <3>2, <4>1, <4>2
    <3>3. CASE row[f].status = "DECLINED"
               /\ Friendships!Enter(r, [task EXCEPT !.pc = "save", !.id = f, !.snap = fresh])
      <4>1. /\ fresh \in Friendships!FriendshipRow /\ ~fresh.deleted
            /\ Pair(fresh) = Pair(row[f])
        BY <2>1, <3>1 DEF Friendships!FriendshipRow, Friendships!Statuses, Pair
      <4>2. Reviving([task EXCEPT !.pc = "save", !.id = f, !.snap = fresh])
        BY <1>1, <2>1, <3>1, <3>3, <4>1 DEF Reviving, Friendships!Slot
      <4> QED
        BY <2>4, <3>1, <3>3, <4>1, <4>2
    <3>4. CASE Friendships!Finish(r)
      BY <2>2, <3>4
    <3> QED
      BY <1>1, <2>5, <3>2, <3>3, <3>4 DEF Friendships!ResolveExisting, Friendships!Refuse
  <2> QED
    BY <1>1, <1>3, <2>3, <2>5 DEF Friendships!SendFind
<1>4. CASE Friendships!CheckBlock(r)
  <2>1. task.pc = "checkBlock" /\ \A f \in Rows : LiveRow(f) => ~Walled(row[f])
    BY <1>1, <1>4, NoneAcross DEF Friendships!CheckBlock, Friendships!At
  <2>2. CASE Friendships!Finish(r)
    BY <1>2, <2>1, <2>2, FriendRefuses
  <2>3. CASE Friendships!Goto(r, "save")
    <3>1. AtHand([task EXCEPT !.pc = "save"])
      BY <1>1, <2>1 DEF AtHand, Answering, Friendships!Slot, Friendships!Pcs
    <3>2. Takes(r, [task EXCEPT !.pc = "save"])
      BY <1>1, <1>2, <2>1, <2>3, <3>1, FriendFacts DEF Takes, Friendships!Goto
    <3> QED
      BY <3>2, FriendTakes
  <2> QED
    BY <1>4, <2>2, <2>3 DEF Friendships!CheckBlock, Friendships!Refuse
<1>5. CASE Friendships!FindPair(r)
  <2>1. /\ task.pc = "findPair" /\ Friendships!BlockedBetween(task.user, task.other)
        /\ \A f \in Rows : LiveRow(f) /\ Walled(row[f]) => Pair(row[f]) = {task.user, task.other}
    BY <1>1, <1>5, FriendFacts DEF Friendships!FindPair, Friendships!At, AtHand, BeingRemoved
  <2>2. \A f \in Rows : f \in Friendships!LiveBetween(task.user, task.other) <=>
                          LiveRow(f) /\ Pair(row[f]) = {task.user, task.other}
    BY DEF Friendships!LiveBetween, LiveRow, Pair
  <2>3. CASE Friendships!LiveBetween(task.user, task.other) = {} /\ Friendships!Finish(r)
    <3>1. \A f \in Rows : LiveRow(f) => ~Walled(row[f])
      BY <2>1, <2>2, <2>3
    <3> QED
      BY <1>2, <2>3, <3>1, FriendRefuses
  <2>4. ASSUME NEW f \in Friendships!LiveBetween(task.user, task.other),
               Friendships!Enter(r, [task EXCEPT !.pc = "softRemove", !.id = f])
        PROVE  FriendInv' /\ Kept
    <3> DEFINE next == [task EXCEPT !.pc = "softRemove", !.id = f]
    <3>1. f \in Rows /\ LiveRow(f) /\ Pair(row[f]) = {task.user, task.other}
      BY <2>2, <2>4 DEF Friendships!LiveBetween
    <3>2. next \in Friendships!Slot /\ next.pc = "softRemove" /\ next.id = f
      BY <1>1, <3>1 DEF Friendships!Slot, Friendships!Pcs
    <3>3. Walled(row[f])
      <4>1. {row[f].requester, row[f].addressee} = {task.user, task.other}
        BY <3>1 DEF Pair
      <4> QED
        BY <2>1, <4>1 DEF Walled, Friendships!BlockedBetween
    <3>4. AtHand(next)
      BY <3>1, <3>2, <3>3 DEF AtHand
    <3>5. \A g \in Rows : LiveRow(g) /\ Walled(row[g]) => g = f
      BY <2>1, <3>1 DEF FriendInv
    <3>6. Takes(r, next)
      BY <1>2, <2>4, <3>2, <3>4, <3>5 DEF Takes, Friendships!Enter, BeingRemoved
    <3> QED
      BY <3>6, FriendTakes
  <2> QED
    BY <1>1, <1>5, <2>3, <2>4 DEF Friendships!FindPair
<1> QED
  BY <1>3, <1>4, <1>5

\* What has to be seen of a step that writes one row and ends its handler.
LEMMA RowWritten ==
  ASSUME FriendInv, NEW r \in Requests, NEW f \in Rows, NEW e \in Friendships!FriendshipRow,
         row' = [row EXCEPT ![f] = e], block' = block, Friendships!Finish(r),
         e.requester # e.addressee, e.deleted \/ ~Walled(e),
         \A g \in Rows \ {f} : LiveRow(g) => Pair(row[g]) # Pair(e) /\ ~Walled(row[g])
  PROVE  FriendInv'
<1>1. /\ Requests = {r} /\ row' \in [Rows -> Friendships!FriendshipRow \cup {None}] /\ row'[f] = e
      /\ \A g \in Rows \ {f} : row'[g] = row[g]
  BY FriendFacts
<1>2. friendReq'[r] = Friendships!Idle /\ friendReq' = [friendReq EXCEPT ![r] = friendReq'[r]]
  BY FriendFacts DEF Friendships!Finish, Friendships!Enter
<1>3. (friendReq = [q \in Requests |-> friendReq[q]])'
  BY <1>1, <1>2, FriendFacts
<1>4. AtHand(friendReq[r])'
  BY <1>2, EndsAtHand DEF AtHand, Friendships!Idle
<1>5. \A g \in Rows \ {f} : /\ LiveRow(g)' <=> LiveRow(g)
                            /\ Walled(row[g])' <=> Walled(row[g])
                            /\ Pair(row[g])' = Pair(row[g])
  BY <1>1 DEF LiveRow, Walled, Pair, Friendships!Live, Friendships!BlockedBetween
<1>6. /\ LiveRow(f)' => ~e.deleted
      /\ Walled(row[f])' <=> Walled(e)
      /\ Pair(row[f])' = Pair(e)
  BY <1>1 DEF LiveRow, Walled, Pair, Friendships!Live, Friendships!BlockedBetween
<1>7. (\A g \in Rows : LiveRow(g) => ~Walled(row[g]))'
  BY <1>5, <1>6
<1>8. (\A g, h \in Rows : LiveRow(g) /\ LiveRow(h) /\ Pair(row[g]) = Pair(row[h]) => g = h)'
  BY <1>5, <1>6 DEF FriendInv
<1>9. (\A g \in Rows : row[g] # None => row[g].requester # row[g].addressee)'
  BY <1>1 DEF FriendInv
<1> QED
  BY <1>1, <1>3, <1>4, <1>7, <1>8, <1>9 DEF FriendInv, Friendships!Live

\* No relation is shown across a block.
LEMMA WalledStands ==
  ASSUME NEW e, Walled(e)
  PROVE  /\ \A status : Friendships!Arrows(status) \cap Both(e) = {}
         /\ Pair(e) \notin Bonds
<1>1. ASSUME NEW status, NEW g \in Friendships!Standing(status)
      PROVE  Pair(row[g]) # Pair(e) /\ Arrow(row[g]) \notin Both(e)
  BY <1>1, PairFacts DEF Friendships!Standing, Walled
<1>2. /\ \A status : Friendships!Arrows(status) = {Arrow(row[g]) : g \in Friendships!Standing(status)}
      /\ Bonds = {Pair(row[g]) : g \in Friendships!Standing("ACCEPTED")}
  BY DEF Friendships!Arrows, Arrow, Bonds, Friendships!PairKey, Pair
<1> QED
  BY <1>1, <1>2

\* A request between two that nothing relates is what the contract calls asking.
LEMMA Asks ==
  ASSUME NEW e \in Friendships!FriendshipRow, e.requester # e.addressee, ~Walled(e),
         Friendships!Arrows("PENDING") \cap Both(e) = {}, Pair(e) \notin Bonds,
         Friendships!Arrows("PENDING")' = (Friendships!Arrows("PENDING") \ Both(e)) \cup {Arrow(e)},
         Friendships!Arrows("DECLINED")' = Friendships!Arrows("DECLINED") \ Both(e),
         Bonds' = Bonds \ {Pair(e)}, Walls' = Walls
  PROVE  Kept
<1> DEFINE m == e.requester
           n == e.addressee
<1>1. m \in Members /\ n \in Members \ {m}
  BY DEF Friendships!FriendshipRow
<1>2. <<m, n>> \notin Walls /\ <<n, m>> \notin Walls
  BY WallFacts DEF Walled
<1>3. Friendships!Promise!Ask(m, n)
  BY <1>2 DEF Friendships!Promise!Ask, Friendships!Promise!Apart, Friendships!Promise!Both, Both,
     Arrow, Pair, Bonds, Walls
<1> QED
  BY <1>1, <1>3 DEF Kept, Friendships!Promise!FNext

LEMMA FriendInserts ==
  ASSUME FriendInv, NEW r \in Requests, Friendships!InsertRequest(r)
  PROVE  FriendInv' /\ Kept
<1>1. PICK task \in Friendships!Slot : task = friendReq[r] /\ AtHand(task)
  BY FriendFacts
<1> DEFINE fresh == [requester |-> task.user, addressee |-> task.other, status |-> "PENDING",
                     deleted |-> FALSE]
<1>2. /\ task.pc = "insert" /\ Friendships!LiveBetween(task.user, task.other) = {}
      /\ fresh \in Friendships!FriendshipRow /\ fresh.requester # fresh.addressee /\ ~Walled(fresh)
      /\ \A g \in Rows : LiveRow(g) => ~Walled(row[g])
  BY <1>1, NoneAcross DEF Friendships!InsertRequest, Friendships!At, AtHand, Walled,
     Friendships!FriendshipRow, Friendships!Statuses
<1>3. \A g \in Rows : LiveRow(g) => Pair(row[g]) # Pair(fresh)
  BY <1>2 DEF Friendships!LiveBetween, LiveRow, Pair
<1>4. PICK f \in Rows :
        /\ row[f] = None /\ row' = [row EXCEPT ![f] = fresh]
        /\ Friendships!Finish(r) /\ block' = block
  BY <1>1, <1>2 DEF Friendships!InsertRequest
<1>5. ~LiveRow(f)
  BY <1>4 DEF LiveRow, Friendships!Live
<1>6. FriendInv'
  <2> DEFINE new == fresh
  <2>1. \A g \in Rows \ {f} : LiveRow(g) => Pair(row[g]) # Pair(new) /\ ~Walled(row[g])
    BY <1>2, <1>3
  <2>2. new \in Friendships!FriendshipRow /\ new.requester # new.addressee /\ ~Walled(new)
    BY <1>2
  <2>3. row' = [row EXCEPT ![f] = new] /\ block' = block /\ Friendships!Finish(r)
    BY <1>4
  <2> HIDE DEF new
  <2> QED
    BY <2>1, <2>2, <2>3, RowWritten
<1>7. /\ Friendships!Arrows("PENDING")' = (Friendships!Arrows("PENDING") \ Both(fresh)) \cup {Arrow(fresh)}
      /\ Friendships!Arrows("DECLINED")' = Friendships!Arrows("DECLINED") \ Both(fresh)
      /\ Bonds' = Bonds \ {Pair(fresh)} /\ Walls' = Walls
  <2>1. Shown(fresh, "PENDING") /\ ~Shown(fresh, "DECLINED") /\ ~Shown(fresh, "ACCEPTED")
    BY <1>2 DEF Shown
  <2> HIDE DEF fresh
  <2>2. /\ \A status : Friendships!Arrows(status)' =
             (Friendships!Arrows(status) \ Both(fresh))
               \cup (IF Shown(fresh, status) THEN {Arrow(fresh)} ELSE {})
        /\ Bonds' = (Bonds \ {Pair(fresh)})
                      \cup (IF Shown(fresh, "ACCEPTED") THEN {Pair(fresh)} ELSE {})
        /\ Walls' = Walls
    BY <1>2, <1>3, <1>4, <1>5, RowMoves
  <2> QED
    BY <2>1, <2>2
<1>8. Friendships!Arrows("PENDING") \cap Both(fresh) = {} /\ Pair(fresh) \notin Bonds
  BY <1>3, NoneStands
<1> QED
  BY <1>2, <1>6, <1>7, <1>8, Asks

LEMMA FriendSaves ==
  ASSUME FriendInv, NEW r \in Requests, Friendships!SaveRow(r)
  PROVE  FriendInv' /\ Kept
<1>1. PICK task \in Friendships!Slot : task = friendReq[r] /\ AtHand(task)
  BY FriendFacts
<1>2. /\ task.pc = "save" /\ \A g \in Rows : LiveRow(g) => ~Walled(row[g])
  BY <1>1, NoneAcross DEF Friendships!SaveRow, Friendships!At
<1>3. CASE Friendships!Refuse(r)
  BY <1>2, <1>3, FriendRefuses DEF Friendships!Refuse
<1>4. CASE ~Friendships!Refuse(r)
  <2>1. PICK f \in Rows, e \in Friendships!FriendshipRow :
          /\ f = task.id /\ e = task.snap /\ ~e.deleted /\ LiveRow(f)
          /\ Answering(task) \/ Reviving(task)
    BY <1>1, <1>2 DEF AtHand, Answering, Reviving
  <2>2. row' = [row EXCEPT ![f] = e] /\ Friendships!Finish(r) /\ block' = block
    BY <1>1, <1>4, <2>1 DEF Friendships!SaveRow
  <2>3. /\ row[f] \in Friendships!FriendshipRow /\ row[f].requester # row[f].addressee
        /\ Pair(row[f]) = Pair(e) /\ e.requester # e.addressee
        /\ Both(row[f]) = Both(e) /\ ~Walled(row[f]) /\ ~Walled(e)
    <3>1. row[f] \in Friendships!FriendshipRow /\ row[f].requester # row[f].addressee
      BY <2>1, FriendFacts
    <3>2. Pair(row[f]) = Pair(e) /\ e.requester # e.addressee
      BY <2>1, <3>1 DEF Answering, Reviving, Arrow, Pair
    <3> QED
      BY <1>2, <2>1, <3>1, <3>2, PairFacts
  <2>4. \A g \in Rows \ {f} : LiveRow(g) => Pair(row[g]) # Pair(e) /\ ~Walled(row[g])
    BY <1>2, <2>1, <2>3 DEF FriendInv
  <2>5. FriendInv'
    BY <2>1, <2>2, <2>3, <2>4, RowWritten
  <2>6. /\ \A status : Friendships!Arrows(status)' =
             (Friendships!Arrows(status) \ Both(e)) \cup (IF e.status = status THEN {Arrow(e)} ELSE {})
        /\ Bonds' = (Bonds \ {Pair(e)}) \cup (IF e.status = "ACCEPTED" THEN {Pair(e)} ELSE {})
        /\ Walls' = Walls
    BY <2>1, <2>2, <2>3, <2>4, RowMoves DEF Shown
  <2>7. /\ \A status : Friendships!Arrows(status) \cap Both(e) =
              IF row[f].status = status THEN {Arrow(row[f])} ELSE {}
        /\ Pair(e) \in Bonds <=> row[f].status = "ACCEPTED"
    BY <2>1, <2>3, RowStands
  <2>8. CASE Reviving(task)
    <3>1. row[f].status = "DECLINED" /\ e.status = "PENDING"
      BY <2>1, <2>8 DEF Reviving
    <3>2. /\ Friendships!Arrows("PENDING")' = (Friendships!Arrows("PENDING") \ Both(e)) \cup {Arrow(e)}
          /\ Friendships!Arrows("DECLINED")' = Friendships!Arrows("DECLINED") \ Both(e)
          /\ Bonds' = Bonds \ {Pair(e)}
          /\ Friendships!Arrows("PENDING") \cap Both(e) = {} /\ Pair(e) \notin Bonds
      BY <2>6, <2>7, <3>1
    <3> QED
      BY <2>3, <2>5, <2>6, <3>2, Asks
  <2>9. CASE Answering(task)
    <3> DEFINE m == e.addressee
               n == e.requester
    <3>1. row[f].status = "PENDING" /\ Arrow(row[f]) = Arrow(e) /\ e.status \in {"ACCEPTED", "DECLINED"}
      BY <2>1, <2>9 DEF Answering
    <3>2. m \in Members /\ n \in Members \ {m}
      BY <2>3 DEF Friendships!FriendshipRow
    <3>3. /\ Arrow(e) \in Friendships!Arrows("PENDING")
          /\ Friendships!Arrows("PENDING")' = Friendships!Arrows("PENDING") \ {Arrow(e)}
          /\ Pair(e) \notin Bonds
          /\ Friendships!Arrows("DECLINED") \cap Both(e) = {}
      <4>1. /\ Friendships!Arrows("PENDING") \cap Both(e) = {Arrow(e)}
            /\ Friendships!Arrows("PENDING")' = Friendships!Arrows("PENDING") \ Both(e)
        BY <2>6, <2>7, <3>1
      <4>2. Friendships!Arrows("DECLINED") \cap Both(e) = {} /\ Pair(e) \notin Bonds
        BY <2>7, <3>1
      <4> QED
        BY <4>1, <4>2
    <3>4. CASE e.status = "ACCEPTED"
      <4>1. /\ Friendships!Arrows("DECLINED")' = Friendships!Arrows("DECLINED")
            /\ Bonds' = Bonds \cup {Pair(e)}
        BY <2>6, <3>3, <3>4
      <4>2. Pair(e) = {m, n} /\ Arrow(e) = <<n, m>>
        BY DEF Pair, Arrow
      <4>3. Friendships!Promise!Accept(m, n)
        BY <2>6, <3>3, <4>1, <4>2 DEF Friendships!Promise!Accept, Bonds, Walls
      <4> QED
        BY <2>5, <3>2, <4>3 DEF Kept, Friendships!Promise!FNext
    <3>5. CASE e.status = "DECLINED"
      <4>1. /\ Friendships!Arrows("DECLINED")' = Friendships!Arrows("DECLINED") \cup {Arrow(e)}
            /\ Bonds' = Bonds
        BY <2>6, <3>3, <3>5
      <4>2. Arrow(e) = <<n, m>>
        BY DEF Arrow
      <4>3. Friendships!Promise!Decline(m, n)
        BY <2>6, <3>3, <4>1, <4>2 DEF Friendships!Promise!Decline, Bonds, Walls
      <4> QED
        BY <2>5, <3>2, <4>3 DEF Kept, Friendships!Promise!FNext
    <3> QED
      BY <3>1, <3>4, <3>5
  <2> QED
    BY <2>1, <2>8, <2>9
<1> QED
  BY <1>3, <1>4

\* The withdrawal of a request, the end of a friendship, or a block's removal of
\* what stood between the two, which the contract counted with the block.
LEMMA FriendRemoves ==
  ASSUME FriendInv, NEW r \in Requests, Friendships!SoftRemove(r)
  PROVE  FriendInv' /\ Kept
<1>1. PICK task \in Friendships!Slot : task = friendReq[r] /\ AtHand(task)
  BY FriendFacts
<1>2. PICK f \in Rows :
        /\ task.pc = "softRemove" /\ f = task.id /\ LiveRow(f)
        /\ Walled(row[f]) \/ row[f].status \in {"PENDING", "ACCEPTED"}
  BY <1>1 DEF AtHand, Friendships!SoftRemove, Friendships!At
<1> DEFINE e == [row[f] EXCEPT !.deleted = TRUE]
<1>3. /\ row[f] \in Friendships!FriendshipRow /\ row[f].requester # row[f].addressee
      /\ e \in Friendships!FriendshipRow /\ e.deleted /\ e.requester # e.addressee
      /\ e.requester = row[f].requester /\ e.addressee = row[f].addressee
  BY <1>2, FriendFacts DEF Friendships!FriendshipRow
<1>4. Pair(row[f]) = Pair(e) /\ Both(row[f]) = Both(e) /\ (Walled(row[f]) <=> Walled(e))
  BY <1>3 DEF Pair, Both, Arrow, Walled
<1>5. row' = [row EXCEPT ![f] = e] /\ Friendships!Finish(r) /\ block' = block
  BY <1>1, <1>2 DEF Friendships!SoftRemove
<1> HIDE DEF e
<1>6. \A g \in Rows \ {f} : LiveRow(g) => Pair(row[g]) # Pair(e) /\ ~Walled(row[g])
  BY <1>1, <1>2, <1>4, FriendFacts DEF FriendInv, BeingRemoved
<1>7. FriendInv'
  BY <1>3, <1>5, <1>6, RowWritten
<1>8. /\ \A status : Friendships!Arrows(status)' = Friendships!Arrows(status) \ Both(e)
      /\ Bonds' = Bonds \ {Pair(e)} /\ Walls' = Walls
  <2>1. \A status : ~Shown(e, status)
    BY <1>3 DEF Shown
  <2>2. /\ \A status : Friendships!Arrows(status)' =
             (Friendships!Arrows(status) \ Both(e))
               \cup (IF Shown(e, status) THEN {Arrow(e)} ELSE {})
        /\ Bonds' = (Bonds \ {Pair(e)}) \cup (IF Shown(e, "ACCEPTED") THEN {Pair(e)} ELSE {})
        /\ Walls' = Walls
    BY <1>2, <1>3, <1>4, <1>5, <1>6, RowMoves
  <2> QED
    BY <2>1, <2>2
<1>9. CASE Walled(row[f])
  <2>1. /\ \A status : Friendships!Arrows(status) \cap Both(e) = {}
        /\ Pair(e) \notin Bonds
    BY <1>4, <1>9, WalledStands
  <2>2. (\A status : Friendships!Arrows(status)' = Friendships!Arrows(status)) /\ Bonds' = Bonds
    BY <1>8, <2>1
  <2> QED
    BY <1>7, <1>8, <2>2 DEF Kept, Friendships!Promise!fvars, Bonds, Walls
<1>10. CASE ~Walled(row[f])
  <2> DEFINE m == e.requester
             n == e.addressee
  <2>1. m \in Members /\ n \in Members \ {m} /\ Arrow(e) = <<m, n>> /\ Pair(e) = {m, n}
        /\ Arrow(row[f]) = Arrow(e)
    BY <1>3 DEF Friendships!FriendshipRow, Arrow, Pair
  <2>2. /\ \A status : Friendships!Arrows(status) \cap Both(e) =
              IF row[f].status = status THEN {Arrow(e)} ELSE {}
        /\ Pair(e) \in Bonds <=> row[f].status = "ACCEPTED"
    BY <1>2, <1>4, <1>10, <2>1, RowStands
  <2>3. CASE row[f].status = "PENDING"
    <3>1. /\ Friendships!Arrows("PENDING") \cap Both(e) = {Arrow(e)}
          /\ Friendships!Arrows("DECLINED") \cap Both(e) = {} /\ Pair(e) \notin Bonds
      BY <2>2, <2>3
    <3>2. /\ <<m, n>> \in Friendships!Arrows("PENDING")
          /\ Friendships!Arrows("PENDING")' = Friendships!Arrows("PENDING") \ {<<m, n>>}
          /\ Friendships!Arrows("DECLINED")' = Friendships!Arrows("DECLINED") /\ Bonds' = Bonds
      BY <1>8, <2>1, <3>1
    <3>3. Friendships!Promise!Cancel(m, n)
      BY <1>8, <3>2 DEF Friendships!Promise!Cancel, Bonds, Walls
    <3> QED
      BY <1>7, <2>1, <3>3 DEF Kept, Friendships!Promise!FNext
  <2>4. CASE row[f].status = "ACCEPTED"
    <3>1. /\ Friendships!Arrows("PENDING") \cap Both(e) = {}
          /\ Friendships!Arrows("DECLINED") \cap Both(e) = {} /\ Pair(e) \in Bonds
      BY <2>2, <2>4
    <3>2. /\ Friendships!Arrows("PENDING")' = Friendships!Arrows("PENDING")
          /\ Friendships!Arrows("DECLINED")' = Friendships!Arrows("DECLINED")
          /\ {m, n} \in Bonds /\ Bonds' = Bonds \ {{m, n}}
      BY <1>8, <2>1, <3>1
    <3>3. Friendships!Promise!Part(m, n)
      BY <1>8, <3>2 DEF Friendships!Promise!Part, Bonds, Walls
    <3> QED
      BY <1>7, <2>1, <3>3 DEF Kept, Friendships!Promise!FNext
  <2> QED
    BY <1>2, <1>10, <2>3, <2>4
<1> QED
  BY <1>9, <1>10

\* A new block hides the pair's relation and no other.
LEMMA BlockHides ==
  ASSUME NEW u, NEW v, row' = row,
         \A m, n : Friendships!BlockedBetween(m, n)' <=>
                     Friendships!BlockedBetween(m, n) \/ {m, n} = {u, v}
  PROVE  /\ \A status : Friendships!Arrows(status)' =
              Friendships!Arrows(status) \ {<<u, v>>, <<v, u>>}
         /\ Bonds' = Bonds \ {{u, v}}
<1>1. ASSUME NEW status
      PROVE  Friendships!Standing(status)' =
               {f \in Friendships!Standing(status) : Pair(row[f]) # {u, v}}
  BY DEF Friendships!Standing, Friendships!Live, Pair
<1>2. /\ \A status : /\ Friendships!Arrows(status) =
                          {Arrow(row[f]) : f \in Friendships!Standing(status)}
                     /\ Friendships!Arrows(status)' =
                          {Arrow(row[f]) : f \in Friendships!Standing(status)'}
      /\ Bonds = {Pair(row[f]) : f \in Friendships!Standing("ACCEPTED")}
      /\ Bonds' = {Pair(row[f]) : f \in Friendships!Standing("ACCEPTED")'}
  BY DEF Friendships!Arrows, Arrow, Bonds, Friendships!PairKey, Pair
<1>3. \A f \in Rows : Pair(row[f]) = {u, v} <=> Arrow(row[f]) \in {<<u, v>>, <<v, u>>}
  BY DEF Pair, Arrow
<1>4. \A status : Friendships!Standing(status) \subseteq Rows
  BY DEF Friendships!Standing
<1>5. \A status : Friendships!Arrows(status)' =
              Friendships!Arrows(status) \ {<<u, v>>, <<v, u>>}
  BY <1>1, <1>2, <1>3, <1>4
<1>6. Bonds' = Bonds \ {{u, v}}
  BY <1>1, <1>2
<1> QED
  BY <1>5, <1>6

\* A block is written: a new row, or the lifted one of the same two members.
LEMMA FriendBlocks ==
  ASSUME FriendInv, NEW r \in Requests, Friendships!WriteBlock(r)
  PROVE  FriendInv' /\ Kept
<1>1. PICK task \in Friendships!Slot : task = friendReq[r] /\ AtHand(task)
  BY FriendFacts
<1>2. /\ task.pc \in {"insertBlock", "saveBlock"}
      /\ \A f \in Rows : LiveRow(f) => ~Walled(row[f])
  BY <1>1, NoneAcross DEF Friendships!WriteBlock, Friendships!At
<1>3. CASE Friendships!Refuse(r)
  BY <1>2, <1>3, FriendRefuses DEF Friendships!Refuse
<1>4. CASE ~Friendships!Refuse(r)
  <2>1. PICK u \in Members, v \in Members : u = task.user /\ v = task.other /\ u # v
    BY <1>1, <1>2 DEF AtHand
  <2> DEFINE fresh == [blocker |-> u, blocked |-> v, deleted |-> FALSE]
             next == [task EXCEPT !.pc = "findPair"]
  <2>2. PICK k \in Blocks :
          /\ block' = [block EXCEPT ![k] = fresh] /\ row' = row
          /\ friendReq' = [friendReq EXCEPT ![r] = next]
          /\ Friendships!BlocksOf(u, v) \ {task.id} = {}
          /\ IF task.pc = "insertBlock" THEN block[k] = None ELSE k = task.id
    <3>1. friendReq[r].pc = task.pc /\ friendReq[r].user = u /\ friendReq[r].other = v
          /\ friendReq[r].id = task.id
      BY <1>1, <2>1
    <3>2. Friendships!Goto(r, "findPair") => friendReq' = [friendReq EXCEPT ![r] = next]
      BY <1>1, FriendFacts DEF Friendships!Goto
    <3> QED
      BY <1>4, <3>1, <3>2 DEF Friendships!WriteBlock, Friendships!StoreBlock, Friendships!At
  <2>3. /\ fresh \in Friendships!BlockRow /\ ~fresh.deleted /\ fresh # None
        /\ fresh.blocker = u /\ fresh.blocked = v
    <3>1. fresh \in Friendships!BlockRow
      BY <2>1 DEF Friendships!BlockRow
    <3>2. fresh # None
      BY <3>1, FriendshipsAssumption
    <3> QED
      BY <3>1, <3>2
  <2>4. /\ next \in Friendships!Slot /\ next.pc = "findPair" /\ next.user = u /\ next.other = v
    BY <1>1, <2>1 DEF Friendships!Slot, Friendships!Pcs
  <2> HIDE DEF fresh, next
  <2>5. /\ block \in [Blocks -> Friendships!BlockRow \cup {None}] /\ block'[k] = fresh
        /\ block' \in [Blocks -> Friendships!BlockRow \cup {None}]
        /\ \A j \in Blocks \ {k} : block'[j] = block[j]
    BY <2>2, <2>3, FriendFacts
  <2>6. /\ block[k] = None \/ (block[k].blocker = u /\ block[k].blocked = v)
        /\ \A j \in Blocks \ {k} :
             Friendships!Live(block, j) => ~(block[j].blocker = u /\ block[j].blocked = v)
    BY <1>1, <1>2, <2>1, <2>2 DEF AtHand, Friendships!BlocksOf, Friendships!Live
  <2>7. /\ Friendships!Live(block', k)
        /\ \A j \in Blocks \ {k} : Friendships!Live(block', j) <=> Friendships!Live(block, j)
    BY <2>3, <2>5 DEF Friendships!Live
  <2>8. ASSUME NEW m, NEW n
        PROVE  Friendships!BlockedBetween(m, n)' <=>
                 Friendships!BlockedBetween(m, n) \/ {m, n} = {u, v}
    <3>1. Friendships!BlockedBetween(m, n)' <=>
            \E j \in Blocks : Friendships!Live(block', j)
                              /\ {block'[j].blocker, block'[j].blocked} = {m, n}
      BY DEF Friendships!BlockedBetween, Friendships!Live
    <3>2. Friendships!Live(block, k) => {block[k].blocker, block[k].blocked} = {u, v}
      BY <2>6 DEF Friendships!Live
    <3> QED
      BY <2>3, <2>5, <2>7, <3>1, <3>2 DEF Friendships!BlockedBetween
  <2>9. Walls' = Walls \cup {<<u, v>>}
    <3>1. Walls' = {<<block'[j].blocker, block'[j].blocked>> :
                      j \in {h \in Blocks : Friendships!Live(block', h)}}
      BY DEF Walls, Friendships!Live
    <3>2. Friendships!Live(block, k) => <<block[k].blocker, block[k].blocked>> = <<u, v>>
      BY <2>6 DEF Friendships!Live
    <3> QED
      BY <2>3, <2>5, <2>7, <3>1, <3>2 DEF Walls
  <2>10. Friendships!Promise!Raise(u, v)
    BY <2>2, <2>8, <2>9, BlockHides
       DEF Friendships!Promise!Raise, Friendships!Promise!Both, Bonds, Walls
  <2>11. Kept
    BY <2>1, <2>10 DEF Kept, Friendships!Promise!FNext
  <2>12. FriendInv'
    <3>1. Requests = {r} /\ friendReq'[r] = next /\ friendReq = [q \in Requests |-> friendReq[q]]
      BY <2>2, FriendFacts
    <3>2. (friendReq = [q \in Requests |-> friendReq[q]])'
      BY <2>2, <3>1
    <3>3. Friendships!BlockedBetween(u, v)'
      BY <2>8
    <3>4. AtHand(friendReq[r])'
      BY <2>1, <2>4, <3>1, <3>3 DEF AtHand
    <3>5. \A f \in Rows : LiveRow(f)' <=> LiveRow(f)
      BY <2>2 DEF LiveRow, Friendships!Live
    <3>6. (\A f \in Rows : LiveRow(f) /\ Walled(row[f]) => BeingRemoved(friendReq[r], f))'
      <4> SUFFICES ASSUME NEW f \in Rows, LiveRow(f), Walled(row[f])'
                   PROVE  BeingRemoved(friendReq[r], f)'
        BY <3>5
      <4>1. {row[f].requester, row[f].addressee} = {u, v}
        BY <1>2, <2>2, <2>8 DEF Walled
      <4> QED
        BY <2>2, <2>4, <3>1, <4>1 DEF BeingRemoved, Pair
    <3>7. (\A j, h \in Blocks :
             /\ Friendships!Live(block, j) /\ Friendships!Live(block, h)
             /\ block[j].blocker = block[h].blocker /\ block[j].blocked = block[h].blocked
             => j = h)'
      <4>1. \A j \in Blocks : Friendships!Live(block, j)' <=> Friendships!Live(block', j)
        BY DEF Friendships!Live
      <4> QED
        BY <2>3, <2>5, <2>6, <2>7, <4>1 DEF FriendInv
    <3>8. (\A j \in Blocks : block[j] # None => block[j].blocker # block[j].blocked)'
      BY <2>1, <2>3, <2>5 DEF FriendInv
    <3>9. /\ (row \in [Rows -> Friendships!FriendshipRow \cup {None}])'
          /\ (\A f \in Rows : row[f] # None => row[f].requester # row[f].addressee)'
          /\ (\A f, g \in Rows : LiveRow(f) /\ LiveRow(g) /\ Pair(row[f]) = Pair(row[g]) => f = g)'
      BY <2>2, <3>5 DEF FriendInv
    <3> QED
      BY <2>5, <3>1, <3>2, <3>4, <3>6, <3>7, <3>8, <3>9 DEF FriendInv
  <2> QED
    BY <2>11, <2>12
<1> QED
  BY <1>3, <1>4

\* A block is lifted: nothing comes back, since its teardown is over.
LEMMA FriendUnblocks ==
  ASSUME FriendInv, NEW r \in Requests, Friendships!SoftRemoveBlock(r)
  PROVE  FriendInv' /\ Kept
<1>1. PICK task \in Friendships!Slot : task = friendReq[r] /\ AtHand(task)
  BY FriendFacts
<1>2. PICK k \in Blocks :
        /\ task.pc = "softRemoveBlock" /\ k = task.id /\ Friendships!Live(block, k)
        /\ \A f \in Rows : LiveRow(f) => ~Walled(row[f])
  BY <1>1, NoneAcross DEF AtHand, Friendships!SoftRemoveBlock, Friendships!At
<1>3. /\ block[k] \in Friendships!BlockRow /\ block[k].blocker # block[k].blocked
      /\ \A j \in Blocks \ {k} : Friendships!Live(block, j) =>
           ~(block[j].blocker = block[k].blocker /\ block[j].blocked = block[k].blocked)
  BY <1>2 DEF Friendships!Live, FriendInv
<1> DEFINE e == [block[k] EXCEPT !.deleted = TRUE]
<1>4. PICK m \in Members, n \in Members :
        /\ m # n /\ m = block[k].blocker /\ n = block[k].blocked
        /\ e \in Friendships!BlockRow /\ e.deleted /\ m = e.blocker /\ n = e.blocked
  BY <1>3 DEF Friendships!BlockRow
<1>5. /\ block' = [block EXCEPT ![k] = e] /\ row' = row /\ Friendships!Finish(r)
  BY <1>1, <1>2 DEF Friendships!SoftRemoveBlock
<1> HIDE DEF e
<1>6. /\ block \in [Blocks -> Friendships!BlockRow \cup {None}] /\ block'[k] = e /\ e # None
      /\ block' \in [Blocks -> Friendships!BlockRow \cup {None}]
      /\ \A j \in Blocks \ {k} : block'[j] = block[j]
  BY <1>4, <1>5, FriendFacts, FriendshipsAssumption
<1>7. /\ ~Friendships!Live(block', k)
      /\ \A j \in Blocks \ {k} : Friendships!Live(block', j) <=> Friendships!Live(block, j)
      /\ \A j \in Blocks : Friendships!Live(block, j)' <=> Friendships!Live(block', j)
  BY <1>4, <1>6 DEF Friendships!Live
<1>8. \A p, q : Friendships!BlockedBetween(p, q)' => Friendships!BlockedBetween(p, q)
  BY <1>6, <1>7 DEF Friendships!BlockedBetween
<1>9. /\ \A f \in Rows : LiveRow(f)' <=> LiveRow(f)
      /\ \A f \in Rows : LiveRow(f) => ~Walled(row[f])'
  BY <1>2, <1>5, <1>8 DEF LiveRow, Walled, Friendships!Live
<1>10. (\A status : Friendships!Arrows(status)' = Friendships!Arrows(status)) /\ Bonds' = Bonds
  <2>1. ASSUME NEW status, NEW f \in Rows
        PROVE  /\ f \in Friendships!Standing(status) <=> LiveRow(f) /\ row[f].status = status
               /\ f \in Friendships!Standing(status)' <=> LiveRow(f) /\ row[f].status = status
    <3>1. ~LiveRow(f) \/ (~Walled(row[f]) /\ ~Walled(row[f])')
      BY <1>2, <1>9
    <3> QED
      BY <1>5, <3>1 DEF Friendships!Standing, LiveRow, Walled, Friendships!Live
  <2>2. \A status : Friendships!Standing(status)' = Friendships!Standing(status)
    BY <2>1 DEF Friendships!Standing
  <2> QED
    BY <1>5, <2>2 DEF Friendships!Arrows, Bonds, Friendships!PairKey
<1>11. Walls' = Walls \ {<<m, n>>}
  <2>1. Walls' = {<<block'[j].blocker, block'[j].blocked>> :
                    j \in {h \in Blocks : Friendships!Live(block', h)}}
    BY <1>7 DEF Walls
  <2>2. \A j \in Blocks \ {k} : Friendships!Live(block, j) =>
          <<block[j].blocker, block[j].blocked>> # <<m, n>>
    BY <1>3, <1>4
  <2>3. {j \in Blocks : Friendships!Live(block', j)} = {j \in Blocks : Friendships!Live(block, j)} \ {k}
    BY <1>7
  <2>4. Walls = {<<block[j].blocker, block[j].blocked>> :
                   j \in {h \in Blocks : Friendships!Live(block, h)}}
    BY DEF Walls
  <2> DEFINE live == {j \in Blocks : Friendships!Live(block, j)}
  <2>5. {<<block'[j].blocker, block'[j].blocked>> : j \in live \ {k}} =
          {<<block[j].blocker, block[j].blocked>> : j \in live \ {k}}
    BY <1>6
  <2>6. /\ k \in live /\ <<block[k].blocker, block[k].blocked>> = <<m, n>>
        /\ \A j \in live \ {k} : <<block[j].blocker, block[j].blocked>> # <<m, n>>
    BY <1>2, <1>4, <2>2
  <2> HIDE DEF live
  <2>7. {<<block[j].blocker, block[j].blocked>> : j \in live \ {k}} = Walls \ {<<m, n>>}
    BY <2>4, <2>6 DEF live
  <2> QED
    BY <2>1, <2>3, <2>5, <2>7 DEF live
<1>12. Friendships!Promise!Lower(m, n)
  BY <1>10, <1>11 DEF Friendships!Promise!Lower, Bonds, Walls
<1>13. Kept
  BY <1>4, <1>12 DEF Kept, Friendships!Promise!FNext
<1>14. FriendInv'
  <2>1. /\ Requests = {r} /\ friendReq'[r] = Friendships!Idle
        /\ (friendReq = [q \in Requests |-> friendReq[q]])'
    BY <1>5, FriendFacts DEF Friendships!Finish, Friendships!Enter
  <2>2. AtHand(friendReq[r])'
    BY <2>1, EndsAtHand DEF AtHand, Friendships!Idle
  <2>3. (\A f \in Rows : LiveRow(f) /\ Walled(row[f]) => BeingRemoved(friendReq[r], f))'
    BY <1>5, <1>9
  <2>4. (\A j, h \in Blocks :
           /\ Friendships!Live(block, j) /\ Friendships!Live(block, h)
           /\ block[j].blocker = block[h].blocker /\ block[j].blocked = block[h].blocked
           => j = h)'
    BY <1>6, <1>7 DEF FriendInv
  <2>5. (\A j \in Blocks : block[j] # None => block[j].blocker # block[j].blocked)'
    BY <1>4, <1>6 DEF FriendInv
  <2>6. /\ (row \in [Rows -> Friendships!FriendshipRow \cup {None}])'
        /\ (\A f \in Rows : row[f] # None => row[f].requester # row[f].addressee)'
        /\ (\A f, g \in Rows : LiveRow(f) /\ LiveRow(g) /\ Pair(row[f]) = Pair(row[g]) => f = g)'
    BY <1>5, <1>9 DEF FriendInv
  <2> QED
    BY <1>6, <2>1, <2>2, <2>3, <2>4, <2>5, <2>6 DEF FriendInv
<1> QED
  BY <1>13, <1>14

LEMMA FriendStep ==
  ASSUME FriendInv, [Friendships!Next]_(Friendships!vars)
  PROVE  FriendInv' /\ [Friendships!Promise!FNext]_(Friendships!Promise!fvars)
<1>1. CASE UNCHANGED Friendships!vars
  <2>1. UNCHANGED <<row, block, friendReq>>
    BY <1>1 DEF Friendships!vars
  <2>2. PICK r \in Requests : TRUE
    BY SlotAssumption
  <2>3. friendReq' = [friendReq EXCEPT ![r] = friendReq'[r]]
    BY <2>1, FriendFacts
  <2> QED
    BY <2>1, <2>3, FriendFacts, FriendQuiet DEF Kept
<1>2. CASE Friendships!Next
  <2>1. PICK r \in Requests : Friendships!Step(r)
    BY <1>2 DEF Friendships!Next
  <2>2. FriendInv' /\ Kept
    BY <2>1, FriendStarts, FriendReads, FriendInserts, FriendSaves, FriendRemoves, FriendBlocks,
       FriendUnblocks DEF Friendships!Step
  <2> QED
    BY <2>2 DEF Kept
<1> QED
  BY <1>1, <1>2

LEMMA FriendKept == Friendships!Spec => []FriendInv
  BY FriendInit, FriendStep, PTL DEF Friendships!Spec

\* With one handler at a time Friendship implements FriendContract: only the member
\* who was asked makes a friendship, a block takes the pair's relation down as it
\* is raised, and lifting it restores nothing.
THEOREM FriendshipsKeepContract == Spec => FriendshipsImplementContract
<1>1. Friendships!Init => Friendships!Promise!FInit
  BY FriendInit
<1>2. Friendships!Spec => Friendships!Promise!Contract
  BY <1>1, FriendStep, FriendKept, PTL DEF Friendships!Spec, Friendships!Promise!Contract
<1> QED
  BY <1>2, FriendshipsSpec, PTL DEF FriendshipsImplementContract, Friendships!ImplementsContract
================================================================================
