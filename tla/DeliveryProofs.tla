----------------------------- MODULE DeliveryProofs ----------------------------
(***************************************************************************)
(* TLAPS proofs about what reaches the other side: a changed switch every  *)
(* instance, a notice of Amazon the suppression list, a publication the    *)
(* cached count.  For any number of instances, notices, Chapters and       *)
(* requests; the components are the ones TwoAtATime instantiates.          *)
(***************************************************************************)
EXTENDS TwoAtATime, TLAPS

USE NullAssumption, TimeAssumption

--------------------------------------------------------------------------------
(* The switches behave as SiteSettings says.                               *)

LEMMA SettingsSpec == SpecAll => Settings!Spec
<1>1. InitAll => Settings!Init
  BY DEF InitAll
<1>2. [NextOfPart]_everything => [Settings!Next]_(Settings!vars)
  BY DEF NextOfPart, everything, settings, Settings!vars
<1> QED
  BY <1>1, <1>2, PTL DEF SpecAll, Settings!Spec

\* The row had the value at t or later.
HeldSince(value, t) == value \in Values /\ lastHeld[value] >= t

\* Copies, and the values that are about to become copies, are not older than
\* their stamp says: the stamp is taken before the row is read.
SettingsInv ==
  /\ setting \in Values /\ clock \in 0..LastTick
  /\ cache = [i \in Instances |-> cache[i]]
  /\ calls = [r \in Requests |-> calls[r]]
  /\ lastHeld \in [Values -> Int]
  /\ \A v \in Values : lastHeld[v] <= clock
  /\ lastHeld[setting] = clock
  /\ \A i \in Instances : cache[i] # None =>
       cache[i].readAt \in Nat /\ HeldSince(cache[i].value, cache[i].readAt)
  /\ \A r \in Requests :
       /\ calls[r].op = "find" => calls[r].readAt \in 0..clock
       /\ calls[r].op = "store" =>
            calls[r].readAt \in Nat /\ HeldSince(calls[r].value, calls[r].readAt)

LEMMA SettingsInit == Settings!Init => SettingsInv
  BY DEF Settings!Init, SettingsInv, Settings!Free

\* A handler that moves to op, nothing else being changed.
LEMMA ThenKeeps ==
  ASSUME SettingsInv, NEW r \in Requests, NEW call, calls' = [calls EXCEPT ![r] = call],
         UNCHANGED <<setting, clock, lastHeld>>,
         call.op = "find" => call.readAt \in 0..clock,
         call.op = "store" => call.readAt \in Nat /\ HeldSince(call.value, call.readAt),
         cache' = [i \in Instances |-> cache'[i]],
         \A i \in Instances : cache'[i] # None =>
           cache'[i].readAt \in Nat /\ HeldSince(cache'[i].value, cache'[i].readAt)
  PROVE  SettingsInv'
<1>1. /\ calls' = [q \in Requests |-> calls'[q]]
      /\ \A q \in Requests : calls'[q] = IF q = r THEN call ELSE calls[q]
  BY DEF SettingsInv
<1>2. \A q \in Requests :
        /\ calls'[q].op = "find" => calls'[q].readAt \in 0..clock
        /\ calls'[q].op = "store" =>
             calls'[q].readAt \in Nat /\ HeldSince(calls'[q].value, calls'[q].readAt)
  BY <1>1 DEF SettingsInv
<1> QED
  BY <1>1, <1>2 DEF SettingsInv, HeldSince

LEMMA SettingsHandled ==
  ASSUME SettingsInv, NEW r \in Requests,
         \/ Settings!Find(r) \/ Settings!Store(r) \/ Settings!Drop(r)
         \/ \E i \in Instances : Settings!GetRaw(r, i)
  PROVE  SettingsInv'
<1> DEFINE Kept == UNCHANGED <<setting, clock, lastHeld>>
<1>1. CASE \E i \in Instances : Settings!GetRaw(r, i)
  <2>1. PICK i \in Instances : Settings!GetRaw(r, i)
    BY <1>1
  <2>2. PICK call : call = [op |-> "find", at |-> i, value |-> None, readAt |-> clock]
    OBVIOUS
  <2>3. call.op = "find" /\ call.readAt = clock
    BY <2>2
  <2>4. calls' = [calls EXCEPT ![r] = call] /\ Kept /\ cache' = cache
    BY <2>1, <2>2 DEF Settings!GetRaw, Settings!Then
  <2> QED
    BY <2>3, <2>4, ThenKeeps DEF SettingsInv
<1>2. CASE Settings!Find(r)
  <2> PICK call : call = [op |-> "store", at |-> calls[r].at, value |-> setting,
                          readAt |-> calls[r].readAt]
    OBVIOUS
  <2>1. /\ calls' = [calls EXCEPT ![r] = call]
        /\ call.op = "store" /\ call.readAt = calls[r].readAt /\ call.value = setting
    BY <1>2 DEF Settings!Find, Settings!Then
  <2>2. Kept /\ cache' = cache /\ calls[r].readAt \in 0..clock
    BY <1>2 DEF Settings!Find, SettingsInv
  <2>3. HeldSince(setting, calls[r].readAt)
    BY <2>2 DEF SettingsInv, HeldSince
  <2> QED
    BY <2>1, <2>2, <2>3, ThenKeeps DEF SettingsInv
<1>3. PICK free : free = Settings!Free
  OBVIOUS
<1>4. free.op = "free"
  BY <1>3 DEF Settings!Free
<1>5. CASE Settings!Store(r)
  <2> PICK e : e = [value |-> calls[r].value, readAt |-> calls[r].readAt]
    OBVIOUS
  <2>1. /\ cache' = [cache EXCEPT ![calls[r].at] = e]
        /\ e.value = calls[r].value /\ e.readAt = calls[r].readAt
    BY <1>5 DEF Settings!Store
  <2>2. /\ Kept /\ calls' = [calls EXCEPT ![r] = free]
        /\ calls[r].readAt \in Nat /\ HeldSince(calls[r].value, calls[r].readAt)
    BY <1>3, <1>5 DEF Settings!Store, SettingsInv
  <2>3. \A i \in Instances : cache'[i] # None =>
          cache'[i].readAt \in Nat /\ HeldSince(cache'[i].value, cache'[i].readAt)
    BY <2>1, <2>2 DEF SettingsInv
  <2>4. cache' = [i \in Instances |-> cache'[i]]
    BY <2>1 DEF SettingsInv
  <2> QED
    BY <1>4, <2>2, <2>3, <2>4, ThenKeeps
<1>6. CASE Settings!Drop(r)
  <2>1. cache' = [cache EXCEPT ![calls[r].at] = None]
    BY <1>6 DEF Settings!Drop
  <2>2. Kept /\ calls' = [calls EXCEPT ![r] = free]
    BY <1>3, <1>6 DEF Settings!Drop
  <2>3. \A i \in Instances : cache'[i] # None =>
          cache'[i].readAt \in Nat /\ HeldSince(cache'[i].value, cache'[i].readAt)
    BY <2>1 DEF SettingsInv
  <2>4. cache' = [i \in Instances |-> cache'[i]]
    BY <2>1 DEF SettingsInv
  <2> QED
    BY <1>4, <2>2, <2>3, <2>4, ThenKeeps
<1> QED
  BY <1>1, <1>2, <1>5, <1>6

\* Time passes, and a write: what a value was last held at only grows.
LEMMA LastHeldGrows ==
  ASSUME SettingsInv,
         \/ Settings!Tick
         \/ \E r \in Requests, i \in Instances, v \in Values : Settings!SetValue(r, i, v)
  PROVE  /\ lastHeld' \in [Values -> Int] /\ setting' \in Values
         /\ clock' \in 0..LastTick /\ clock' >= clock
         /\ \A v \in Values : lastHeld'[v] >= lastHeld[v] /\ lastHeld'[v] <= clock'
         /\ lastHeld'[setting'] = clock'
<1>1. CASE Settings!Tick
  BY <1>1 DEF Settings!Tick, SettingsInv
<1>2. ASSUME NEW r \in Requests, NEW i \in Instances, NEW v \in Values, Settings!SetValue(r, i, v)
      PROVE  /\ lastHeld' \in [Values -> Int] /\ setting' \in Values
             /\ clock' \in 0..LastTick /\ clock' >= clock
             /\ \A w \in Values : lastHeld'[w] >= lastHeld[w] /\ lastHeld'[w] <= clock'
             /\ lastHeld'[setting'] = clock'
  BY <1>2 DEF Settings!SetValue, SettingsInv
<1> QED
  BY <1>1, <1>2

LEMMA SettingsMoved ==
  ASSUME SettingsInv,
         \/ Settings!Tick
         \/ \E r \in Requests, i \in Instances, v \in Values : Settings!SetValue(r, i, v)
  PROVE  SettingsInv'
<1>1. \A v, t : t \in Nat /\ HeldSince(v, t) => v \in Values /\ lastHeld'[v] >= t
  BY LastHeldGrows DEF HeldSince, SettingsInv
<1>2. cache' = cache
  BY DEF Settings!Tick, Settings!SetValue
<1>3. /\ calls' = [q \in Requests |-> calls'[q]]
      /\ \A q \in Requests : calls'[q] = calls[q] \/ calls'[q].op = "drop"
  <2>1. CASE Settings!Tick
    BY <2>1 DEF Settings!Tick, SettingsInv
  <2>2. ASSUME NEW r \in Requests, NEW i \in Instances, NEW v \in Values, Settings!SetValue(r, i, v)
        PROVE  /\ calls' = [q \in Requests |-> calls'[q]]
               /\ \A q \in Requests : calls'[q] = calls[q] \/ calls'[q].op = "drop"
    BY <2>2 DEF Settings!SetValue, Settings!Then, SettingsInv
  <2> QED
    BY <2>1, <2>2
<1>4. \A q \in Requests :
        /\ calls'[q].op = "find" => calls'[q].readAt \in 0..clock'
        /\ calls'[q].op = "store" =>
             /\ calls'[q].readAt \in Nat /\ calls'[q].value \in Values
             /\ lastHeld'[calls'[q].value] >= calls'[q].readAt
  BY <1>1, <1>3, LastHeldGrows DEF SettingsInv
<1> QED
  BY <1>1, <1>2, <1>3, <1>4, LastHeldGrows DEF SettingsInv, HeldSince

LEMMA SettingsStep == SettingsInv /\ [Settings!Next]_(Settings!vars) => SettingsInv'
<1> SUFFICES ASSUME SettingsInv, [Settings!Next]_(Settings!vars) PROVE SettingsInv'
  OBVIOUS
<1>1. CASE UNCHANGED Settings!vars
  BY <1>1 DEF Settings!vars, SettingsInv, HeldSince
<1>2. CASE Settings!Next
  BY <1>2, SettingsHandled, SettingsMoved DEF Settings!Next
<1> QED
  BY <1>1, <1>2

\* A change reaches every instance within SETTING_CACHE_TTL_MS, however slow the
\* queries are and whatever else is written.
THEOREM SwitchReaches == SpecAll => []ReachesEveryInstance
<1>1. SettingsInv => ReachesEveryInstance
  BY DEF SettingsInv, HeldSince, ReachesEveryInstance, Settings!ReachesEveryInstance, Settings!Usable
<1> QED
  BY <1>1, SettingsInit, SettingsStep, SettingsSpec, PTL DEF Settings!Spec

--------------------------------------------------------------------------------
(* Notices: SNS repeats one until it has an answer.                         *)

LEMMA MailSpec == SpecAll => Mail!Spec
<1>1. InitAll => Mail!Init
  BY DEF InitAll
<1>2. [NextOfPart]_everything => [Mail!Next]_(Mail!vars)
  BY DEF NextOfPart, everything, mail, Mail!vars
<1> QED
  BY <1>1, <1>2, PTL DEF SpecAll, Mail!Spec

\* What is recorded of a notice is whom it is about, and what is answered is
\* recorded: there is no second row of a notice that could still be missing.
MailInv ==
  /\ event = [n \in Notices |-> event[n]]
  /\ post = [r \in Requests |-> post[r]]
  /\ \A n \in Notices : event[n] # None => event[n] = Addressee[n]
  /\ \A r \in Requests : post[r].notice # None => post[r].notice \in Notices /\ post[r].next = 1
  /\ answered \subseteq Notices
  /\ \A n \in answered : event[n] # None

LEMMA MailInit == Mail!Init => MailInv
  BY DEF Mail!Init, MailInv, Mail!Waiting

LEMMA MailStep == MailInv /\ [Mail!Next]_(Mail!vars) => MailInv'
<1> SUFFICES ASSUME MailInv, [Mail!Next]_(Mail!vars) PROVE MailInv'
  OBVIOUS
<1>1. CASE UNCHANGED Mail!vars
  BY <1>1 DEF Mail!vars, MailInv
<1> PICK waiting : waiting = Mail!Waiting
  OBVIOUS
<1>2. waiting.notice = None
  BY DEF Mail!Waiting
<1>3. ASSUME NEW r \in Requests, NEW n \in Notices, Mail!ProcessNotification(r, n)
      PROVE  MailInv'
  <2> PICK held : held = [notice |-> n, next |-> 1]
    OBVIOUS
  <2>1. held.notice = n /\ held.next = 1
    OBVIOUS
  <2>2. CASE event[n] # None
    BY <1>3, <2>2 DEF Mail!ProcessNotification, MailInv
  <2>3. CASE event[n] = None
    <3>1. post' = [post EXCEPT ![r] = held] /\ UNCHANGED <<event, answered>>
      BY <1>3, <2>3 DEF Mail!ProcessNotification
    <3> QED
      BY <2>1, <3>1 DEF MailInv
  <2> QED
    BY <2>2, <2>3
<1>4. ASSUME NEW r \in Requests, post[r].notice # None, Mail!Record(r)
      PROVE  MailInv'
  <2>1. PICK n \in Notices : n = post[r].notice /\ post[r].next = 1
    BY <1>4 DEF MailInv
  <2>2. post' = [post EXCEPT ![r] = waiting] /\ UNCHANGED <<event, answered>> => MailInv'
    BY <1>2 DEF MailInv
  <2>3. CASE event[n] # None
    BY <1>4, <2>1, <2>2, <2>3 DEF Mail!Record, Mail!Done
  <2>4. CASE event[n] = None
    <3> DEFINE recipients == [m \in Notices |-> <<Addressee[m]>>]
    <3>1. recipients[n] = <<Addressee[n]>> /\ Len(recipients[n]) = 1 /\ recipients[n][1] = Addressee[n]
      OBVIOUS
    <3>2. event' = [event EXCEPT ![n] = Addressee[n]]
      BY <1>4, <2>1, <2>4, <3>1 DEF Mail!Record
    <3>3. post' = [post EXCEPT ![r] = waiting] /\ answered' = answered \cup {n}
      BY <1>4, <2>1, <2>4, <3>1 DEF Mail!Record, Mail!Done
    <3>4. Addressee[n] # None
      OBVIOUS
    <3> QED
      BY <1>2, <3>2, <3>3, <3>4 DEF MailInv
  <2> QED
    BY <2>3, <2>4
<1>5. ASSUME NEW r \in Requests, Mail!Fail(r)
      PROVE  MailInv'
  BY <1>2, <1>5 DEF Mail!Fail, Mail!Done, MailInv
<1>6. ASSUME NEW ns \in SUBSET Notices, Mail!Cleanup(ns)
      PROVE  MailInv'
  BY <1>6 DEF Mail!Cleanup, MailInv
<1>7. CASE Mail!Next
  BY <1>3, <1>4, <1>5, <1>6, <1>7 DEF Mail!Next, Mail!Record
<1> QED
  BY <1>1, <1>7

\* However often a notice came and whatever failed on the way: once SNS has its
\* answer, whoever a hard bounce, a complaint or a reject is about is suppressed
\* until the audit's clean-up takes the record.
THEOREM AnsweredSuppresses == SpecAll => []AnsweredIsSuppressed
<1>1. MailInv => AnsweredIsSuppressed
  <2> SUFFICES ASSUME MailInv, NEW n \in answered \cap Suppressing,
                      NEW k \in 1..Len([m \in Notices |-> <<Addressee[m]>>][n])
               PROVE  Mail!IsSuppressed([m \in Notices |-> <<Addressee[m]>>][n][k])
    BY DEF AnsweredIsSuppressed, Mail!AnsweredIsSuppressed
  <2>1. n \in Notices /\ event[n] = Addressee[n]
    BY DEF MailInv
  <2>2. [m \in Notices |-> <<Addressee[m]>>][n][k] = Addressee[n]
    BY <2>1
  <2> QED
    BY <2>1, <2>2 DEF Mail!IsSuppressed
<1> QED
  BY <1>1, MailInit, MailStep, MailSpec, PTL DEF Mail!Spec

--------------------------------------------------------------------------------
(* The cached count of a Story's readable Chapters, and their schedule.  What    *)
(* StorytimeProofs says of StorytimePublication holds of its instance here.      *)

Count == INSTANCE StorytimeProofs WITH
  req <- storyReq, hist <- storyHist, MaxTime <- LastTime,
  Handlers <- {"CreateChapter", "DeleteChapter", "PublishChapter", "UnpublishChapter",
               "ScheduleChapter", "ModerateChapter", "SetCoverImage", "ModerateStory", "Fail",
               "ReopenFails", "FeedFails"}

LEMMA CountAssumed == Count!StoryAssumption
  BY PublicationAssumption DEF PublicationAssumption, Count!StoryAssumption,
     Count!IsFiniteSet, IsFiniteSet, Count!ChapterRow, Publication!ChapterRow, Count!StoryRow,
     Publication!StoryRow, Count!ChapterStatus, Publication!ChapterStatus, Count!StoryStatus,
     Publication!StoryStatus

\* The two instances of StorytimePublication are the same, action by action.

LEMMA SameCreations ==
  ASSUME NEW r
  PROVE  /\ (Count!CreateChapter(r) <=> Publication!CreateChapter(r))
         /\ (Count!UpdateChapter(r) <=> Publication!UpdateChapter(r))
         /\ (Count!SetCoverImage(r) <=> Publication!SetCoverImage(r))
         /\ (Count!ReorderChapters(r) <=> Publication!ReorderChapters(r))
         /\ (Count!DeleteChapter(r) <=> Publication!DeleteChapter(r))
  BY DEF Count!CreateChapter, Publication!CreateChapter, Count!UpdateChapter,
     Publication!UpdateChapter, Count!SetCoverImage, Publication!SetCoverImage,
     Count!ReorderChapters, Publication!ReorderChapters, Count!DeleteChapter,
     Publication!DeleteChapter, Count!Begins, Publication!Begins, Count!At, Publication!At,
     Count!Live, Publication!Live, Count!Enter, Publication!Enter, Count!Idle, Publication!Idle,
     Count!Nothing, Publication!Nothing, Count!Clean, Publication!Clean, Count!Unstored,
     Publication!Unstored, Count!Loads, Publication!Loads, Count!Only, Publication!Only, Count!Holds, Publication!Holds,
     Count!Cardinality, Publication!Cardinality

LEMMA SameDecisions ==
  ASSUME NEW r
  PROVE  /\ (Count!PublishChapter(r) <=> Publication!PublishChapter(r))
         /\ (Count!UnpublishChapter(r) <=> Publication!UnpublishChapter(r))
         /\ (Count!ScheduleChapter(r) <=> Publication!ScheduleChapter(r))
         /\ (Count!ModerateChapter(r) <=> Publication!ModerateChapter(r))
  BY DEF Count!PublishChapter, Publication!PublishChapter, Count!UnpublishChapter,
     Publication!UnpublishChapter, Count!ScheduleChapter, Publication!ScheduleChapter,
     Count!ModerateChapter, Publication!ModerateChapter, Count!Loads, Publication!Loads,
     Count!Begins, Publication!Begins, Count!At, Publication!At, Count!Live, Publication!Live,
     Count!Publishable, Publication!Publishable, Count!Holds, Publication!Holds, Count!Enter,
     Publication!Enter, Count!Idle, Publication!Idle, Count!Nothing, Publication!Nothing,
     Count!Clean, Publication!Clean, Count!Only, Publication!Only, Count!Published, Publication!Published, Count!Unstored,
     Publication!Unstored

LEMMA SameStory ==
  ASSUME NEW r
  PROVE  /\ (Count!ModerateStory(r) <=> Publication!ModerateStory(r))
         /\ (Count!EditStory(r) <=> Publication!EditStory(r))
         /\ (Count!PublishStory(r) <=> Publication!PublishStory(r))
         /\ (Count!WithdrawStory(r) <=> Publication!WithdrawStory(r))
         /\ (Count!DeleteStory(r) <=> Publication!DeleteStory(r))
  BY DEF Count!ModerateStory, Publication!ModerateStory, Count!EditStory, Publication!EditStory,
     Count!PublishStory, Publication!PublishStory, Count!WithdrawStory,
     Publication!WithdrawStory, Count!DeleteStory, Publication!DeleteStory, Count!Begins,
     Publication!Begins, Count!At, Publication!At, Count!HoldsStory, Publication!HoldsStory,
     Count!Enter, Publication!Enter, Count!Idle, Publication!Idle, Count!Nothing,
     Publication!Nothing, Count!Clean, Publication!Clean, Count!Unstored, Publication!Unstored,
     Count!StoryPublishable,
     Publication!StoryPublishable

\* What a save writes.
LEMMA SameSaves ==
  ASSUME NEW r, NEW c
  PROVE  /\ (Count!Saves(r, c) <=> Publication!Saves(r, c))
         /\ Count!Written(r, c) = Publication!Written(r, c)
         /\ Count!Columns = Publication!Columns /\ Count!StoryColumns = Publication!StoryColumns
         /\ \A e, s, f : Count!Differing(e, s, f) = Publication!Differing(e, s, f)
         /\ \A e, s, f : Count!Updated(e, s, f) = Publication!Updated(e, s, f)
         /\ (Count!Locked(c) <=> Publication!Locked(c))
  BY DEF Count!Saves, Publication!Saves, Count!Written, Publication!Written, Count!Columns,
     Publication!Columns, Count!StoryColumns, Publication!StoryColumns, Count!Differing,
     Publication!Differing, Count!Updated, Publication!Updated, Count!Locked, Publication!Locked,
     Count!Slots, Publication!Slots

LEMMA SameRows ==
  ASSUME NEW r
  PROVE  /\ (Count!InsertChapter(r) <=> Publication!InsertChapter(r))
         /\ (Count!SelectRows(r) <=> Publication!SelectRows(r))
         /\ (Count!UpdateRows(r) <=> Publication!UpdateRows(r))
         /\ (Count!SoftDelete(r) <=> Publication!SoftDelete(r))
<1>1. Count!InsertChapter(r) <=> Publication!InsertChapter(r)
  BY DEF Count!InsertChapter, Publication!InsertChapter, Count!At, Publication!At, Count!Finish,
     Publication!Finish, Count!Enter, Publication!Enter, Count!Idle, Publication!Idle,
     Count!Nothing, Publication!Nothing, Count!Clean, Publication!Clean
<1>2. Count!SelectRows(r) <=> Publication!SelectRows(r)
  BY SameSaves DEF Count!SelectRows, Publication!SelectRows, Count!At, Publication!At,
     Count!Unstored, Publication!Unstored
<1>3. Count!UpdateRows(r) <=> Publication!UpdateRows(r)
  BY SameSaves DEF Count!UpdateRows, Publication!UpdateRows, Count!At, Publication!At,
     Count!Finish, Publication!Finish, Count!Enter, Publication!Enter, Count!Idle,
     Publication!Idle, Count!Nothing, Publication!Nothing, Count!Clean, Publication!Clean,
     Count!GoOn, Publication!GoOn
<1>4. Count!SoftDelete(r) <=> Publication!SoftDelete(r)
  BY SameSaves DEF Count!SoftDelete, Publication!SoftDelete, Count!At, Publication!At,
     Count!Goto, Publication!Goto
<1> QED
  BY <1>1, <1>2, <1>3, <1>4

LEMMA SameCounting ==
  ASSUME NEW r
  PROVE  /\ (Count!Recount(r) <=> Publication!Recount(r))
         /\ (Count!WriteCount(r) <=> Publication!WriteCount(r))
         /\ (Count!TxUpdate(r) <=> Publication!TxUpdate(r))
         /\ (Count!TxCommit(r) <=> Publication!TxCommit(r))
<1>1. \A rows : Count!CountOf(rows) = Publication!CountOf(rows)
  BY DEF Count!CountOf, Publication!CountOf, Count!Counted, Publication!Counted,
     Count!Cardinality, Publication!Cardinality
<1>2. (Count!Recount(r) <=> Publication!Recount(r)) /\ (Count!WriteCount(r) <=> Publication!WriteCount(r))
  BY <1>1 DEF Count!Recount, Publication!Recount, Count!WriteCount, Publication!WriteCount,
     Count!At, Publication!At, Count!Finish, Publication!Finish, Count!Enter, Publication!Enter,
     Count!Idle, Publication!Idle, Count!Nothing, Publication!Nothing, Count!Clean,
     Publication!Clean, Count!Unstored, Publication!Unstored
<1>3. Count!TxUpdate(r) <=> Publication!TxUpdate(r)
  BY <1>1, SameSaves DEF Count!TxUpdate, Publication!TxUpdate, Count!At, Publication!At,
     Count!Unstored, Publication!Unstored
<1>4. Count!TxCommit(r) <=> Publication!TxCommit(r)
  BY SameSaves DEF Count!TxCommit, Publication!TxCommit, Count!At, Publication!At, Count!Finish,
     Publication!Finish, Count!Enter, Publication!Enter, Count!Idle, Publication!Idle,
     Count!Nothing, Publication!Nothing, Count!Clean, Publication!Clean, Count!GoOn,
     Publication!GoOn
<1> QED
  BY <1>2, <1>3, <1>4

LEMMA SameLater ==
  ASSUME NEW r
  PROVE  /\ (Count!Reopen(r) <=> Publication!Reopen(r))
         /\ (Count!Announce(r) <=> Publication!Announce(r))
         /\ (Count!SelectStory(r) <=> Publication!SelectStory(r))
         /\ (Count!UpdateStory(r) <=> Publication!UpdateStory(r))
         /\ (Count!SoftDeleteStory(r) <=> Publication!SoftDeleteStory(r))
         /\ (Count!Fail(r) <=> Publication!Fail(r))
  BY SameSaves DEF Count!Reopen, Publication!Reopen, Count!Announce, Publication!Announce,
     Count!SelectStory, Publication!SelectStory, Count!UpdateStory, Publication!UpdateStory,
     Count!SoftDeleteStory, Publication!SoftDeleteStory, Count!Fail, Publication!Fail, Count!At,
     Publication!At, Count!Unstored, Publication!Unstored, Count!Goto, Publication!Goto,
     Count!Finish, Publication!Finish, Count!Enter, Publication!Enter, Count!Idle,
     Publication!Idle, Count!Nothing, Publication!Nothing, Count!Clean, Publication!Clean

LEMMA SameWorld ==
  /\ (Count!RunScheduler <=> Publication!RunScheduler)
  /\ (Count!NextDue <=> Publication!NextDue)
  /\ (Count!Tick <=> Publication!Tick)
  /\ (Count!Crash <=> Publication!Crash)
  /\ (Count!Init <=> Publication!Init)
  /\ Count!Readable = Publication!Readable
  /\ Count!vars = Publication!vars
  /\ Count!Busy = Publication!Busy
  BY DEF Count!RunScheduler, Publication!RunScheduler, Count!NextDue, Publication!NextDue,
     Count!Tick, Publication!Tick, Count!Crash, Publication!Crash, Count!Init, Publication!Init,
     Count!Readable, Publication!Readable, Count!vars, Publication!vars, Count!Busy,
     Publication!Busy, Count!At, Publication!At, Count!Due, Publication!Due, Count!Enter,
     Publication!Enter, Count!Idle, Publication!Idle, Count!Nothing, Publication!Nothing,
     Count!Clean, Publication!Clean, Count!Unstored, Publication!Unstored, Count!Published,
     Publication!Published, Count!Slots,
     Publication!Slots, Count!InitHist, Publication!InitHist, Count!Live, Publication!Live,
     Count!Cardinality, Publication!Cardinality

LEMMA SameSerial == (Count!Serial <=> Publication!Serial) /\ Count!vars = Publication!vars
<1>1. \A r : Count!Handler(r) <=> Publication!Handler(r)
  BY SameCreations, SameDecisions, SameStory DEF Count!Handler, Publication!Handler
<1>2. \A r : Count!Step(r) <=> Publication!Step(r)
  BY SameRows, SameCounting, SameLater DEF Count!Step, Publication!Step
<1>3. Count!Next <=> Publication!Next
  BY <1>1, <1>2, SameLater, SameWorld
     DEF Count!Next, Publication!Next, Count!Slots, Publication!Slots
<1>4. Count!Busy' = Publication!Busy'
  BY DEF Count!Busy, Publication!Busy, Count!At, Publication!At, Count!Slots, Publication!Slots
<1>5. Cardinality(Count!Busy') = Count!Cardinality(Count!Busy')
  BY DEF Count!Cardinality, Cardinality
<1>6. Cardinality(Publication!Busy') = Publication!Cardinality(Publication!Busy')
  BY DEF Publication!Cardinality, Cardinality
<1> QED
  BY <1>3, <1>4, <1>5, <1>6, SameWorld DEF Count!Serial, Publication!Serial

LEMMA CountSpec == SpecAll => Count!Init /\ [][Count!Serial]_(Count!vars)
<1>1. InitAll => Count!Init
  BY SameWorld DEF InitAll
<1>2. [NextOfPart]_everything => [Count!Serial]_(Count!vars)
  <2>1. [NextOfPart]_everything => [Publication!Serial]_(Publication!vars)
    BY DEF NextOfPart, everything, publication, Publication!vars
  <2> QED
    BY <2>1, SameSerial DEF Count!vars, Publication!vars
<1> QED
  BY <1>1, <1>2, PTL DEF SpecAll

LEMMA CountAlways == SpecAll => [](Count!TypeOK /\ Count!CountInv /\ Count!ScheduleInv)
<1>1. Count!Init => Count!TypeOK /\ Count!CountInv /\ Count!ScheduleInv
  BY CountAssumed, Count!InitTyped, Count!InitCount, Count!InitSchedule
     DEF Count!InitTyped, Count!InitCount, Count!InitSchedule
<1>2. Count!TypeOK /\ [Count!Serial]_(Count!vars) => Count!TypeOK'
  <2>1. [Count!Serial]_(Count!vars) => [Count!Next]_(Count!vars)
    BY DEF Count!Serial
  <2> QED
    BY <2>1, CountAssumed, Count!StepTyped DEF Count!StepTyped
<1>3. Count!TypeOK /\ Count!CountInv /\ [Count!Serial]_(Count!vars) => Count!CountInv'
  BY CountAssumed, Count!CountStep DEF Count!CountStep
<1>4. Count!TypeOK /\ Count!CountInv /\ Count!ScheduleInv /\ [Count!Serial]_(Count!vars) =>
        Count!ScheduleInv'
  BY CountAssumed, Count!ScheduleStep DEF Count!ScheduleStep
<1> QED
  BY <1>1, <1>2, <1>3, <1>4, CountSpec, PTL

\* With one handler, or one run of the job, at a time the cached count of readable
\* Chapters never moves to a wrong value and is exact once a publication or a
\* withdrawal has committed, although failures and moderation leave it stale.
THEOREM CountExact == SpecAll => CountFollows
<1>1. Count!TypeOK /\ Count!CountInv /\ [Count!Serial]_(Count!vars) =>
        [/\ story'.count # story.count =>
              story'.count = Publication!Cardinality(Publication!Readable')
         /\ (\E r \in Publication!Slots :
                Publication!At(r, "txCommit") /\ storyReq'[r].pc # "txCommit" /\ chapter' # chapter) =>
              story'.count = Publication!Cardinality(Publication!Readable')]_(Publication!vars)
  <2> SUFFICES ASSUME Count!TypeOK, Count!CountInv, [Count!Serial]_(Count!vars)
               PROVE  /\ story'.count # story.count =>
                           story'.count = Publication!Cardinality(Publication!Readable')
                      /\ (\E r \in Publication!Slots :
                           Publication!At(r, "txCommit") /\ storyReq'[r].pc # "txCommit" /\ chapter' # chapter) =>
                           story'.count = Publication!Cardinality(Publication!Readable')
    OBVIOUS
  <2>1. Count!Readable' = Publication!Readable'
    BY DEF Count!Readable, Publication!Readable, Count!Live, Publication!Live
  <2>2. \A S : Count!Cardinality(S) = Publication!Cardinality(S)
    BY DEF Count!Cardinality, Publication!Cardinality
  <2>3. Count!Slots = Publication!Slots /\ \A r : Count!At(r, "txCommit") <=> Publication!At(r, "txCommit")
    BY DEF Count!Slots, Publication!Slots, Count!At, Publication!At
  <2>4. /\ story'.count # story.count => story'.count = Count!Cardinality(Count!Readable')
        /\ (\E r \in Count!Slots :
               Count!At(r, "txCommit") /\ storyReq'[r].pc # "txCommit" /\ chapter' # chapter) =>
             story'.count = Count!Cardinality(Count!Readable')
    BY CountAssumed, Count!CountMoves DEF Count!CountMoves
  <2> QED
    BY <2>1, <2>2, <2>3, <2>4
<1> QED
  BY <1>1, CountAlways, CountSpec, PTL DEF CountFollows, Publication!CountFollows

\* With one handler, or one run of the job, at a time a Chapter has a time to wait
\* for exactly while it waits for it: none is stranded SCHEDULED without one, and
\* none that went out or was withdrawn still has one.
THEOREM ScheduleKept == SpecAll => []ScheduleConsistent
<1>1. Count!ScheduleInv => ScheduleConsistent
  BY DEF Count!ScheduleInv, Count!Punctual, ScheduleConsistent, Publication!ScheduleConsistent
<1> QED
  BY <1>1, CountAlways, PTL
================================================================================
