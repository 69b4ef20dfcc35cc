----------------------------- MODULE PictureProofs ------------------------------
(***************************************************************************)
(* TLAPS proofs about pictures: they are kept by a service outside the     *)
(* database, so a row and the file it names change in separate steps, any  *)
(* of which may fail.  For any number of rows, pictures and requests at a  *)
(* time; the components are the ones TwoAtATime instantiates.              *)
(***************************************************************************)
EXTENDS TwoAtATime, FiniteSetTheorems, SequenceTheorems, TLAPS

LEMMA NoPicture == None \notin Uploads /\ None \notin Images
  BY NullAssumption

--------------------------------------------------------------------------------
(* Artwork, and the pictures of Captains and profiles.                      *)

LEMMA SlotsSpec == SpecAll => Slots!Spec
<1>1. InitAll => Slots!Init
  BY DEF InitAll
<1>2. [NextOfPart]_everything => [Slots!Next]_(Slots!vars)
  BY DEF NextOfPart, everything, pictures, Slots!vars
<1> QED
  BY <1>1, <1>2, PTL DEF SpecAll, Slots!Spec

SlotRow == [picture : Uploads \cup {None}, described : BOOLEAN]
ChangeAt == {"idle", "store", "save", "release", "done", "failed"}
Change  == [at : ChangeAt, found : SlotRow, asked : SlotRow]

\* Nobody else writes the row, so the request finds it as it loaded it; what it is
\* to become has a picture that is stored and is not the one to be deleted.
SlotsInv ==
  /\ slot \in SlotRow /\ change \in Change
  /\ slot.picture = None \/ slot.picture \in cloud
  /\ slot.described => slot.picture # None
  /\ change.at \in {"store", "save"} => change.found = slot
  /\ change.at = "save" =>
       \/ change.asked.picture = None /\ ~change.asked.described
       \/ change.asked.picture \in cloud \ {change.found.picture, None}
  /\ change.at = "release" =>
       /\ slot = change.asked
       /\ slot.picture = None \/ slot.picture # change.found.picture
  /\ change.at = "done" => slot = change.asked
  /\ change.at = "failed" /\ owner # "profile" => slot = change.found

LEMMA EmptySlot == Slots!Empty \in SlotRow /\ Slots!Empty.picture = None /\ ~Slots!Empty.described
  BY DEF Slots!Empty, SlotRow

LEMMA IdleChange ==
  /\ Slots!Idle \in Change
  /\ Slots!Idle.at = "idle"
  BY EmptySlot DEF Slots!Idle, Change, ChangeAt

LEMMA SlotsInit == Slots!Init => SlotsInv
  BY EmptySlot, IdleChange DEF Slots!Init, SlotsInv

\* What is left to show when the request moves to at with what it found and asked.
LEMMA ChangeIs ==
  ASSUME NEW at \in ChangeAt, NEW found \in SlotRow, NEW asked \in SlotRow,
         change' = [at |-> at, found |-> found, asked |-> asked]
  PROVE  change' \in Change /\ change'.at = at /\ change'.found = found /\ change'.asked = asked
  BY DEF Change

LEMMA ChangeMoves ==
  ASSUME change \in Change, NEW at \in ChangeAt, change' = [change EXCEPT !.at = at]
  PROVE  /\ change' \in Change /\ change'.at = at
         /\ change'.found = change.found /\ change'.asked = change.asked
  BY DEF Change

LEMMA SlotsBegin ==
  ASSUME SlotsInv, NEW at \in {"store", "save"}, Slots!Begin(at)
  PROVE  SlotsInv'
<1>1. /\ change' = [at |-> at, found |-> slot, asked |-> Slots!Empty]
      /\ UNCHANGED <<owner, slot, cloud>>
  BY DEF Slots!Begin
<1>2. change' \in Change /\ change'.at = at /\ change'.found = slot /\ change'.asked = Slots!Empty
  BY <1>1, EmptySlot, ChangeIs DEF SlotsInv, ChangeAt
<1> QED
  BY <1>1, <1>2, EmptySlot DEF SlotsInv

LEMMA SlotsStore ==
  ASSUME SlotsInv, Slots!Store
  PROVE  SlotsInv'
<1>1. CASE change' = [change EXCEPT !.at = "failed"] /\ UNCHANGED cloud
  BY <1>1, ChangeMoves DEF Slots!Store, SlotsInv, ChangeAt
<1>2. ASSUME NEW p \in Uploads \ (cloud \cup {slot.picture}), cloud' = cloud \cup {p},
             change' = [change EXCEPT !.at = "save",
                          !.asked = [picture |-> p, described |-> owner \in Slots!Artwork]]
      PROVE  SlotsInv'
  <2> DEFINE filled == [picture |-> p, described |-> owner \in Slots!Artwork]
  <2>1. filled \in SlotRow /\ filled.picture = p /\ p # None
    BY NoPicture DEF SlotRow
  <2> HIDE DEF filled
  <2>2. /\ change' \in Change /\ change'.at = "save"
        /\ change'.found = change.found /\ change'.asked = filled
    BY <1>2, <2>1 DEF SlotsInv, Change, ChangeAt, filled
  <2> QED
    BY <1>2, <2>1, <2>2 DEF Slots!Store, SlotsInv
<1> QED
  BY <1>1, <1>2 DEF Slots!Store

LEMMA SlotsEnd ==
  ASSUME SlotsInv, Slots!Save \/ Slots!Release \/ Slots!Stop
  PROVE  SlotsInv'
<1>1. CASE Slots!Save
  <2>1. CASE change' = [change EXCEPT !.at = "failed"] /\ UNCHANGED slot
    BY <1>1, <2>1, ChangeMoves DEF Slots!Save, SlotsInv, ChangeAt
  <2>2. CASE slot' = change.asked /\ change' = [change EXCEPT !.at = "release"]
    <3>1. change.asked \in SlotRow
      BY DEF SlotsInv, Change
    <3> QED
      BY <1>1, <2>2, <3>1, ChangeMoves DEF Slots!Save, SlotsInv, ChangeAt
  <2> QED
    BY <1>1, <2>1, <2>2 DEF Slots!Save
<1>2. CASE Slots!Release
  <2>1. CASE cloud' = cloud \ {change.found.picture} /\ change' = [change EXCEPT !.at = "done"]
    BY <1>2, <2>1, ChangeMoves DEF Slots!Release, SlotsInv, ChangeAt
  <2>2. ASSUME NEW at \in {"failed", "done"}, at = "failed" <=> owner = "profile",
               change' = [change EXCEPT !.at = at], UNCHANGED cloud
        PROVE  SlotsInv'
    BY <1>2, <2>2, ChangeMoves DEF Slots!Release, SlotsInv, ChangeAt
  <2> QED
    BY <1>2, <2>1, <2>2 DEF Slots!Release
<1>3. CASE Slots!Stop
  BY <1>3, IdleChange DEF Slots!Stop, SlotsInv
<1> QED
  BY <1>1, <1>2, <1>3

LEMMA SlotsStep == SlotsInv /\ [Slots!Next]_(Slots!vars) => SlotsInv'
<1> SUFFICES ASSUME SlotsInv, [Slots!Next]_(Slots!vars) PROVE SlotsInv'
  OBVIOUS
<1>1. CASE UNCHANGED Slots!vars
  BY <1>1 DEF Slots!vars, SlotsInv
<1>2. CASE Slots!Next
  BY <1>2, SlotsBegin, SlotsStore, SlotsEnd
  DEF Slots!Next, Slots!Operation,
      Slots!SetStoryImage, Slots!SetArcImage, Slots!SetCoverImage, Slots!SetPortraitImage,
      Slots!SetOverrideImage, Slots!UploadProfileImage, Slots!UploadProfilePicture,
      Slots!ClearStoryImage, Slots!ClearArcImage, Slots!ClearCoverImage,
      Slots!ClearPortraitImage, Slots!ClearOverrideImage
<1> QED
  BY <1>1, <1>2

LEMMA SlotsHold == SpecAll => []SlotsInv
  BY SlotsInit, SlotsStep, SlotsSpec, PTL DEF Slots!Spec

--------------------------------------------------------------------------------
(* Custom tracking: the pictures that answer Fields.                        *)

LEMMA TrackingSpec ==
  SpecAll => Tracking!Quiet /\ [][Tracking!Next]_(Tracking!vars)
<1>1. InitAll => Tracking!Quiet
  BY DEF InitAll
<1>2. [NextOfPart]_everything => [Tracking!Next]_(Tracking!vars)
  BY DEF NextOfPart, everything, tracking, Tracking!vars
<1> QED
  BY <1>1, <1>2, PTL DEF SpecAll

\* A picture that was uploaded and is not written yet, and one that was loaded to
\* be queued.
Uploading(sl) == sl.op \in {"read", "write"}
Replacing(sl) == sl.op \in {"write", "drop"} /\ sl.image.picture # None
IsSlot(sl) == sl = [op |-> sl.op, node |-> sl.node, kids |-> sl.kids, picture |-> sl.picture,
                    image |-> sl.image, options |-> sl.options, todo |-> sl.todo]

\* What a handler holds while the answers are im, the queue has Q and the image
\* store S: nobody knows its upload; a picture it loaded is shown, if at all, where
\* and in the row it was loaded from; what it is about to delete is queued as long
\* as it is there; what it takes off the queue is not there any more.
HoldsSafely(sl, im, Q, S) ==
  /\ sl.op \in {"read", "flush"} => IsSlot(sl)
  /\ sl.op \in {"read", "write", "drop"} => sl.node \in PictureFields
  /\ sl.op = "drop" => sl.image.picture # None
  /\ Uploading(sl) =>
       sl.picture \in S \ Q /\ \A g \in PictureFields : im[g].picture # sl.picture
  /\ Replacing(sl) =>
       /\ sl.image.picture \in Images
       /\ \A g \in PictureFields :
            im[g].picture = sl.image.picture => g = sl.node /\ im[g].row = sl.image.row
  /\ sl.todo \cap S \subseteq Q
  /\ sl.op = "unqueue" => sl.picture \notin S

\* No two handlers have the same upload, and nobody loaded one.
UploadsApart(sl, other) ==
  Uploading(sl) /\ Replacing(other) => sl.picture # other.image.picture
UploadsDiffer(sl, other) ==
  Uploading(sl) /\ Uploading(other) => sl.picture # other.picture

AnswersShown(im, Q, S) ==
  /\ im = [f \in PictureFields |-> im[f]]
  /\ \A f \in PictureFields :
       /\ im[f].picture # None => im[f].picture \in (S \ Q) \cap Images
       /\ im[f].picture = None => im[f] = Tracking!NoImage
  /\ \A f, g \in PictureFields : f # g /\ im[f].picture # None => im[f].picture # im[g].picture

SlotsSafe(sls, im, Q, S) ==
  /\ sls = [s \in Tracking!Slots |-> sls[s]]
  /\ \A s \in Tracking!Slots : HoldsSafely(sls[s], im, Q, S)
  /\ \A s, t \in Tracking!Slots :
       UploadsApart(sls[s], sls[t]) /\ (s # t => UploadsDiffer(sls[s], sls[t]))

TrackingInv ==
  /\ queue \in Seq(Images) /\ stored \subseteq Images
  /\ AnswersShown(image, Tracking!ToSet(queue), stored)
  /\ SlotsSafe(slots, image, Tracking!ToSet(queue), stored)

\* Queueing keeps what is queued and adds nothing but what it is given.
LEMMA QueueGrows ==
  ASSUME queue \in Seq(Images), NEW ps \in SUBSET Images, IsFiniteSet(ps)
  PROVE  /\ Tracking!Enqueued(ps) \in Seq(Images)
         /\ Tracking!ToSet(queue) \subseteq Tracking!ToSet(Tracking!Enqueued(ps))
         /\ Tracking!ToSet(Tracking!Enqueued(ps)) \subseteq Tracking!ToSet(queue) \cup ps
<1> DEFINE new == ps \ Tracking!ToSet(queue)
           n == Cardinality(new)
           tail == Tracking!SetToSeq(new)
<1>1. IsFiniteSet(new)
  BY FS_Subset
<1>2. n \in Nat /\ ExistsBijection(1..n, new)
  BY <1>1, FS_CardinalityType
<1>3. \E f \in [1..n -> new] : \A a, b \in DOMAIN f : f[a] = f[b] => a = b
  BY <1>2 DEF ExistsBijection, Bijection, Injection, IsInjective
<1>4. tail \in [1..n -> new]
  <2>1. \E f \in [1..n -> new] : Tracking!IsInjective(f)
    BY <1>3 DEF Tracking!IsInjective
  <2>2. Tracking!Cardinality(new) = n
    BY DEF Tracking!Cardinality, Cardinality
  <2> QED
    BY <2>1, <2>2 DEF Tracking!SetToSeq
<1> HIDE DEF tail, n
<1>5. tail \in Seq(new) /\ Len(tail) = n
  BY <1>2, <1>4
<1>6. tail \in Seq(Images)
  BY <1>5, SeqMonotonic
<1>7. /\ queue \o tail \in Seq(Images)
      /\ Len(queue \o tail) = Len(queue) + Len(tail)
      /\ \A i \in 1..(Len(queue) + Len(tail)) :
           (queue \o tail)[i] = IF i <= Len(queue) THEN queue[i] ELSE tail[i - Len(queue)]
  BY <1>6, ConcatProperties
<1>8. \A i \in 1..Len(tail) : tail[i] \in ps
  BY <1>4, <1>5, <1>2
<1>9. Tracking!ToSet(queue) \subseteq Tracking!ToSet(queue \o tail)
  BY <1>6, <1>7, LenProperties DEF Tracking!ToSet
<1>10. Tracking!ToSet(queue \o tail) \subseteq Tracking!ToSet(queue) \cup ps
  BY <1>6, <1>7, <1>8, LenProperties DEF Tracking!ToSet
<1> QED
  BY <1>7, <1>9, <1>10 DEF Tracking!Enqueued, tail

\* A row taken off the queue takes nothing else with it.
LEMMA QueueShrinks ==
  ASSUME queue \in Seq(Images), NEW i \in DOMAIN queue
  PROVE  /\ Tracking!RemoveAt(queue, i) \in Seq(Images)
         /\ Tracking!ToSet(Tracking!RemoveAt(queue, i)) \subseteq Tracking!ToSet(queue)
         /\ Tracking!ToSet(queue) \subseteq
              Tracking!ToSet(Tracking!RemoveAt(queue, i)) \cup {queue[i]}
<1> DEFINE before == SubSeq(queue, 1, i - 1)
           after == SubSeq(queue, i + 1, Len(queue))
           rest == before \o after
<1>1. /\ Len(queue) \in Nat /\ i \in 1..Len(queue) /\ DOMAIN queue = 1..Len(queue)
      /\ \A j \in 1..Len(queue) : queue[j] \in Images
  BY LenProperties, ElementOfSeq
<1>2. /\ before \in Seq(Images) /\ Len(before) = i - 1
      /\ \A j \in 1..(i - 1) : before[j] = queue[j]
  <2>1. \A j \in 1..(i - 1) : queue[j] \in Images
    BY <1>1
  <2>2. /\ before \in Seq(Images)
        /\ Len(before) = IF 1 <= i - 1 THEN (i - 1) - 1 + 1 ELSE 0
        /\ \A j \in 1..((i - 1) - 1 + 1) : before[j] = queue[1 + j - 1]
    BY <1>1, <2>1, SubSeqProperties
  <2> QED
    BY <1>1, <2>2
<1>3. /\ after \in Seq(Images) /\ Len(after) = Len(queue) - i
      /\ \A j \in 1..(Len(queue) - i) : after[j] = queue[i + j]
  <2>1. \A j \in (i + 1)..Len(queue) : queue[j] \in Images
    BY <1>1
  <2>2. /\ after \in Seq(Images)
        /\ Len(after) = IF i + 1 <= Len(queue) THEN Len(queue) - (i + 1) + 1 ELSE 0
        /\ \A j \in 1..(Len(queue) - (i + 1) + 1) : after[j] = queue[(i + 1) + j - 1]
    BY <1>1, <2>1, SubSeqProperties
  <2> HIDE DEF after
  <2>3. Len(after) = Len(queue) - i
    BY <1>1, <2>2
  <2>4. ASSUME NEW j \in 1..(Len(queue) - i) PROVE after[j] = queue[i + j]
    <3>1. j \in 1..(Len(queue) - (i + 1) + 1) /\ (i + 1) + j - 1 = i + j
      BY <1>1
    <3> QED
      BY <2>2, <3>1
  <2> QED
    BY <2>2, <2>3, <2>4
<1> HIDE DEF before, after
<1>4. /\ rest \in Seq(Images) /\ Len(rest) = Len(queue) - 1 /\ DOMAIN rest = 1..(Len(queue) - 1)
      /\ \A j \in 1..(Len(queue) - 1) : rest[j] = IF j < i THEN queue[j] ELSE queue[j + 1]
  <2>1. /\ rest \in Seq(Images) /\ Len(rest) = Len(before) + Len(after)
        /\ \A j \in 1..(Len(before) + Len(after)) :
             rest[j] = IF j <= Len(before) THEN before[j] ELSE after[j - Len(before)]
    BY <1>2, <1>3, ConcatProperties
  <2>2. DOMAIN rest = 1..Len(rest)
    BY <2>1, LenProperties
  <2>3. Len(rest) = Len(queue) - 1
    BY <1>1, <1>2, <1>3, <2>1
  <2>4. ASSUME NEW j \in 1..(Len(queue) - 1)
        PROVE  rest[j] = IF j < i THEN queue[j] ELSE queue[j + 1]
    <3>1. rest[j] = IF j <= i - 1 THEN before[j] ELSE after[j - (i - 1)]
      BY <1>1, <1>2, <1>3, <2>1
    <3>2. CASE j < i
      <4>1. j <= i - 1 /\ j \in 1..(i - 1)
        BY <1>1, <3>2
      <4> QED
        BY <1>2, <3>1, <3>2, <4>1
    <3>3. CASE ~(j < i)
      <4>1. ~(j <= i - 1) /\ j - (i - 1) \in 1..(Len(queue) - i) /\ i + (j - (i - 1)) = j + 1
        BY <1>1, <3>3
      <4> QED
        BY <1>3, <3>1, <3>3, <4>1
    <3> QED
      BY <3>2, <3>3
  <2> QED
    BY <2>1, <2>2, <2>3, <2>4
<1> HIDE DEF rest
<1>5. ASSUME NEW j \in DOMAIN rest PROVE \E k \in DOMAIN queue : rest[j] = queue[k]
  <2>1. j \in 1..(Len(queue) - 1) /\ j \in DOMAIN queue /\ j + 1 \in DOMAIN queue
    BY <1>1, <1>4
  <2>2. rest[j] = queue[j] \/ rest[j] = queue[j + 1]
    BY <1>4, <2>1
  <2> QED
    BY <2>1, <2>2
<1>6. \A k \in DOMAIN queue : k # i => \E j \in DOMAIN rest : rest[j] = queue[k]
  <2> SUFFICES ASSUME NEW k \in DOMAIN queue, k # i
               PROVE  \E j \in DOMAIN rest : rest[j] = queue[k]
    OBVIOUS
  <2>1. CASE k < i
    BY <1>1, <1>4, <2>1
  <2>2. CASE k > i
    <3>1. k - 1 \in DOMAIN rest /\ ~(k - 1 < i) /\ (k - 1) + 1 = k
      BY <1>1, <1>4, <2>2
    <3> QED
      BY <1>4, <3>1
  <2> QED
    BY <1>1, <2>1, <2>2
<1>7. Tracking!RemoveAt(queue, i) = rest
  BY DEF Tracking!RemoveAt, rest, before, after
<1> QED
  BY <1>4, <1>5, <1>6, <1>7 DEF Tracking!ToSet

LEMMA TrackingInit == Tracking!Quiet => TrackingInv
<1> SUFFICES ASSUME Tracking!Quiet PROVE TrackingInv
  OBVIOUS
<1>1. PICK idle : idle = Tracking!Idle
  OBVIOUS
<1>2. idle.op = "idle" /\ idle.todo = {}
  BY <1>1 DEF Tracking!Idle
<1>3. queue \in Seq(Images) /\ Tracking!ToSet(queue) = {} /\ stored = {}
  BY DEF Tracking!Quiet, Tracking!ToSet
<1>4. slots = [s \in Tracking!Slots |-> idle]
  BY <1>1 DEF Tracking!Quiet
<1>5. SlotsSafe(slots, image, Tracking!ToSet(queue), stored)
  BY <1>2, <1>3, <1>4 DEF SlotsSafe, HoldsSafely, UploadsApart, UploadsDiffer, Uploading, Replacing
<1>6. AnswersShown(image, Tracking!ToSet(queue), stored)
  BY <1>3 DEF AnswersShown, Tracking!Quiet, Tracking!NoImage
<1> QED
  BY <1>3, <1>5, <1>6 DEF TrackingInv

\* A handler that holds neither an upload nor a picture to replace.
Light(sl) == /\ sl.op \notin {"read", "write", "drop", "unqueue"}
             /\ sl.op = "flush" => IsSlot(sl)

\* What a handler that does nothing needs of those that do something.
LEMMA StaysSafe ==
  ASSUME NEW sl, NEW im, NEW Q, NEW S, NEW im2, NEW Q2, NEW S2,
         S \subseteq Images, HoldsSafely(sl, im, Q, S),
         sl.todo \cap S2 \subseteq Q2,
         sl.op = "unqueue" => sl.picture \notin S2,
         Uploading(sl) => sl.picture \in S2 \ Q2,
         \A g \in PictureFields :
           \/ im2[g] = im[g] \/ im2[g].picture = None
           \/ /\ Uploading(sl) => im2[g].picture # sl.picture
              /\ Replacing(sl) => im2[g].picture # sl.image.picture
  PROVE  HoldsSafely(sl, im2, Q2, S2)
  BY NoPicture DEF HoldsSafely, Replacing

\* One handler moves.
LEMMA HandlerMoves ==
  ASSUME TrackingInv, NEW im, NEW Q, NEW S, NEW s \in Tracking!Slots, NEW new,
         slots' = [slots EXCEPT ![s] = new],
         HoldsSafely(new, im, Q, S), UploadsApart(new, new),
         \A t \in Tracking!Slots \ {s} :
           /\ HoldsSafely(slots[t], im, Q, S)
           /\ UploadsApart(new, slots[t]) /\ UploadsApart(slots[t], new)
           /\ UploadsDiffer(new, slots[t])
  PROVE  SlotsSafe(slots', im, Q, S)
<1>1. SlotsSafe(slots, image, Tracking!ToSet(queue), stored)
  BY DEF TrackingInv
<1>2. /\ slots' = [t \in Tracking!Slots |-> slots'[t]]
      /\ \A t \in Tracking!Slots : slots'[t] = IF t = s THEN new ELSE slots[t]
  BY <1>1 DEF SlotsSafe
<1>3. \A t \in Tracking!Slots : HoldsSafely(slots'[t], im, Q, S)
  BY <1>2
<1>4. \A t, u \in Tracking!Slots : UploadsApart(slots'[t], slots'[u])
  BY <1>1, <1>2 DEF SlotsSafe
<1>5. \A t, u \in Tracking!Slots : t # u => UploadsDiffer(slots'[t], slots'[u])
  <2>1. \A t \in Tracking!Slots \ {s} : UploadsDiffer(slots[t], new)
    BY DEF UploadsDiffer
  <2> QED
    BY <1>1, <1>2, <2>1 DEF SlotsSafe
<1> QED
  BY <1>2, <1>3, <1>4, <1>5 DEF SlotsSafe

LEMMA HandlerLightens ==
  ASSUME TrackingInv, NEW im, NEW Q, NEW S, NEW s \in Tracking!Slots, NEW new,
         slots' = [slots EXCEPT ![s] = new],
         Light(new), new.todo \cap S \subseteq Q,
         \A t \in Tracking!Slots \ {s} : HoldsSafely(slots[t], im, Q, S)
  PROVE  SlotsSafe(slots', im, Q, S)
<1>1. HoldsSafely(new, im, Q, S)
  BY DEF HoldsSafely, Light, Uploading, Replacing
<1>2. ~Uploading(new) /\ ~Replacing(new)
  BY DEF Light, Uploading, Replacing
<1> QED
  BY <1>1, <1>2, HandlerMoves DEF UploadsApart, UploadsDiffer

\* Definitions, and steps that read.
LEMMA OnlyLightens ==
  ASSUME TrackingInv, NEW s \in Tracking!Slots, NEW new,
         slots' = [slots EXCEPT ![s] = new], UNCHANGED <<image, queue, stored>>,
         Light(new), new.todo \subseteq slots[s].todo
  PROVE  TrackingInv'
<1>1. SlotsSafe(slots, image, Tracking!ToSet(queue), stored)
  BY DEF TrackingInv
<1>2. new.todo \cap stored \subseteq Tracking!ToSet(queue)
  BY <1>1 DEF SlotsSafe, HoldsSafely
<1>3. SlotsSafe(slots', image, Tracking!ToSet(queue), stored)
  BY <1>1, <1>2, HandlerLightens DEF SlotsSafe
<1> QED
  BY <1>3 DEF TrackingInv

Reads(s) ==
  \/ Tracking!InsertNode(s) \/ Tracking!SaveNode(s) \/ Tracking!Stamp(s) \/ Tracking!Crash(s)
  \/ \E n, K : Tracking!Stamping(s, n, K)
  \/ \E n : Tracking!CreateNode(s, n) \/ Tracking!LoadNode(s, n)
  \/ \E f, O : Tracking!AnswerField(s, f, O)

LEMMA ReadsStep ==
  ASSUME TrackingInv, NEW s \in Tracking!Slots, Reads(s)
  PROVE  TrackingInv'
<1>1. UNCHANGED <<image, queue, stored>>
  BY DEF Reads, Tracking!InsertNode, Tracking!SaveNode, Tracking!Stamp, Tracking!Crash,
         Tracking!Stamping, Tracking!CreateNode, Tracking!LoadNode, Tracking!AnswerField,
         Tracking!Answers, Tracking!Store
<1>2. \E new : Tracking!Hold(s, new) /\ Light(new) /\ new.todo = {}
  <2> DEFINE Rests(new) == Light(new) /\ new.todo = {}
  <2>1. Rests(Tracking!Idle)
    BY DEF Tracking!Idle, Light
  <2>2. \A n : Rests([Tracking!Idle EXCEPT !.op = "insert", !.node = n])
    BY DEF Tracking!Idle, Light
  <2>3. \A n : Rests([Tracking!Idle EXCEPT !.op = "save", !.node = n])
    BY DEF Tracking!Idle, Light
  <2>4. \A n, K : Rests([Tracking!Idle EXCEPT !.op = "stamp", !.node = n, !.kids = K])
    BY DEF Tracking!Idle, Light
  <2>5. \A f, O : Rests([Tracking!Idle EXCEPT !.op = "answer", !.node = f, !.options = O])
    BY DEF Tracking!Idle, Light
  <2> HIDE DEF Rests
  <2>6. \E new : Tracking!Hold(s, new) /\ Rests(new)
    BY <2>1, <2>2, <2>3, <2>4, <2>5
    DEF Reads, Tracking!InsertNode, Tracking!SaveNode, Tracking!Stamp, Tracking!Crash,
        Tracking!Stamping, Tracking!CreateNode, Tracking!LoadNode, Tracking!AnswerField
  <2> QED
    BY <2>6 DEF Rests
<1> QED
  BY <1>1, <1>2, OnlyLightens DEF Tracking!Hold

\* What is known of every handler.
LEMMA SlotsKnown ==
  ASSUME TrackingInv
  PROVE  /\ \A t \in Tracking!Slots :
              HoldsSafely(slots[t], image, Tracking!ToSet(queue), stored)
         /\ \A t, u \in Tracking!Slots :
              /\ UploadsApart(slots[t], slots[u])
              /\ t # u => UploadsDiffer(slots[t], slots[u])
  BY DEF TrackingInv, SlotsSafe

\* The picture of an answer is loaded, to be replaced or removed.
LEMMA Loads ==
  ASSUME TrackingInv, NEW s \in Tracking!Slots, NEW new,
         slots' = [slots EXCEPT ![s] = new], UNCHANGED <<image, queue, stored>>,
         new.op \in {"write", "drop"}, new.todo \subseteq slots[s].todo,
         new.node \in PictureFields, new.image = image[new.node],
         new.op = "drop" => new.image.picture # None,
         new.op = "write" => slots[s].op = "read" /\ new.picture = slots[s].picture
  PROVE  TrackingInv'
<1> DEFINE Q == Tracking!ToSet(queue)
<1>1. \A f, g \in PictureFields :
        image[f].picture # None => /\ image[f].picture \in Images
                                   /\ image[g].picture = image[f].picture => g = f
  BY DEF TrackingInv, AnswersShown
<1>2. HoldsSafely(new, image, Q, stored)
  BY <1>1, SlotsKnown DEF HoldsSafely, Uploading, Replacing
<1>3. UploadsApart(new, new)
  BY SlotsKnown DEF HoldsSafely, Uploading, UploadsApart
<1>4. \A t \in Tracking!Slots \ {s} :
        UploadsApart(new, slots[t]) /\ UploadsApart(slots[t], new) /\ UploadsDiffer(new, slots[t])
  BY SlotsKnown DEF HoldsSafely, Uploading, UploadsApart, UploadsDiffer
<1>5. SlotsSafe(slots', image, Q, stored)
  BY <1>2, <1>3, <1>4, SlotsKnown, HandlerMoves
<1> QED
  BY <1>5 DEF TrackingInv

LEMMA LoadsStep ==
  ASSUME TrackingInv, NEW r \in Requests,
         Tracking!ReadPicture(r) \/ \E f \in PictureFields : Tracking!RemovePicture(r, f)
  PROVE  TrackingInv'
<1>1. r \in Tracking!Slots /\ UNCHANGED <<image, queue, stored>>
  BY DEF Tracking!ReadPicture, Tracking!RemovePicture, Tracking!Answers, Tracking!Store, Tracking!Slots
<1>2. CASE Tracking!ReadPicture(r)
  <2>1. PICK new : new = [slots[r] EXCEPT !.op = "write", !.image = image[slots[r].node]]
    OBVIOUS
  <2>2. slots' = [slots EXCEPT ![r] = new] /\ slots[r].op = "read"
    BY <1>2, <2>1 DEF Tracking!ReadPicture, Tracking!Hold
  <2>3. IsSlot(slots[r]) /\ slots[r].node \in PictureFields
    BY <1>1, <2>2, SlotsKnown DEF HoldsSafely
  <2>4. /\ new.op = "write" /\ new.todo = slots[r].todo /\ new.node = slots[r].node
        /\ new.image = image[slots[r].node] /\ new.picture = slots[r].picture
    BY <2>1, <2>3 DEF IsSlot
  <2> QED
    BY <1>1, <2>2, <2>3, <2>4, Loads
<1>3. ASSUME NEW f \in PictureFields, Tracking!RemovePicture(r, f)
      PROVE  TrackingInv'
  <2>1. PICK new : new = [Tracking!Idle EXCEPT !.op = "drop", !.node = f, !.image = image[f]]
    OBVIOUS
  <2>2. slots' = [slots EXCEPT ![r] = new]
    BY <1>3, <2>1 DEF Tracking!RemovePicture, Tracking!Hold
  <2>3. /\ new.op = "drop" /\ new.todo = {} /\ new.node = f /\ new.image = image[f]
    BY <2>1 DEF Tracking!Idle
  <2>4. image[f].picture # None
    BY <1>3 DEF Tracking!RemovePicture, TrackingInv, AnswersShown
  <2> QED
    BY <1>1, <2>2, <2>3, <2>4, Loads
<1> QED
  BY <1>2, <1>3

\* Only this handler knows the picture it uploaded.
LEMMA UploadStep ==
  ASSUME TrackingInv, NEW r \in Requests, NEW f \in PictureFields, Tracking!UploadPicture(r, f)
  PROVE  TrackingInv'
<1> DEFINE Q == Tracking!ToSet(queue)
<1>1. PICK p \in Tracking!Fresh :
        /\ stored' = stored \cup {p}
        /\ Tracking!Hold(r, [Tracking!Idle EXCEPT !.op = "read", !.node = f, !.picture = p])
  BY DEF Tracking!UploadPicture
<1>2. r \in Tracking!Slots /\ UNCHANGED <<image, queue>>
  BY DEF Tracking!UploadPicture, Tracking!Answers, Tracking!Slots
<1>3. p \in Images /\ p \notin Tracking!Known
  BY DEF Tracking!Fresh
<1>4. /\ p \notin Q /\ p \notin stored
      /\ \A g \in PictureFields : image[g].picture # p
      /\ \A t \in Tracking!Slots :
           p # slots[t].picture /\ p # slots[t].image.picture /\ p \notin slots[t].todo
  BY <1>3 DEF Tracking!Known
<1>5. PICK new : new = [Tracking!Idle EXCEPT !.op = "read", !.node = f, !.picture = p]
  OBVIOUS
<1>6. new.op = "read" /\ new.node = f /\ new.picture = p /\ new.todo = {} /\ IsSlot(new)
  BY <1>5 DEF Tracking!Idle, IsSlot
<1>7. slots' = [slots EXCEPT ![r] = new]
  BY <1>1, <1>5 DEF Tracking!Hold
<1>8. HoldsSafely(new, image, Q, stored')
  BY <1>1, <1>4, <1>6 DEF HoldsSafely, Uploading, Replacing
<1>9. /\ UploadsApart(new, new)
      /\ \A t \in Tracking!Slots \ {r} :
           UploadsApart(new, slots[t]) /\ UploadsApart(slots[t], new) /\ UploadsDiffer(new, slots[t])
  BY <1>4, <1>6 DEF UploadsApart, UploadsDiffer, Uploading, Replacing
<1>10. \A t \in Tracking!Slots : HoldsSafely(slots[t], image, Q, stored')
  BY <1>1, <1>4, SlotsKnown DEF HoldsSafely
<1>11. SlotsSafe(slots', image, Q, stored')
  BY <1>2, <1>7, <1>8, <1>9, <1>10, HandlerMoves
<1>12. AnswersShown(image, Q, stored')
  BY <1>1 DEF TrackingInv, AnswersShown
<1> QED
  BY <1>1, <1>2, <1>3, <1>11, <1>12 DEF TrackingInv

\* A handler moves that is left with neither an upload nor a picture to replace.
LEMMA HandlerQuiet ==
  ASSUME TrackingInv, NEW im, NEW Q, NEW S, NEW s \in Tracking!Slots, NEW new,
         slots' = [slots EXCEPT ![s] = new],
         ~Uploading(new), ~Replacing(new), HoldsSafely(new, im, Q, S),
         \A t \in Tracking!Slots \ {s} : HoldsSafely(slots[t], im, Q, S)
  PROVE  SlotsSafe(slots', im, Q, S)
  BY HandlerMoves DEF UploadsApart, UploadsDiffer

LEMMA FlushingIs ==
  ASSUME NEW ps, NEW q, NEW new, new = Tracking!Flushing(ps, q)
  PROVE  Light(new) /\ new.todo \subseteq Tracking!ToSet(q)
<1>1. new.op = "idle" \/ new.op = "flush"
  BY DEF Tracking!Flushing, Tracking!Idle
<1>2. IsSlot(new)
  BY DEF Tracking!Flushing, Tracking!Idle, IsSlot
<1>3. new.todo = ps \cap Tracking!ToSet(q)
  BY DEF Tracking!Flushing, Tracking!Idle
<1> QED
  BY <1>1, <1>2, <1>3 DEF Light

LEMMA AttemptedIs ==
  ASSUME NEW s, NEW p, Tracking!Attempted(s, p)
  PROVE  \E new : /\ slots' = [slots EXCEPT ![s] = new]
                  /\ Light(new) /\ new.todo = slots[s].todo \ {p}
<1> DEFINE left == slots[s].todo \ {p}
<1>1. PICK new : new = [Tracking!Idle EXCEPT !.op = IF left = {} THEN "idle" ELSE "flush",
                                             !.todo = left]
  OBVIOUS
<1>2. new.op \in {"idle", "flush"} /\ new.todo = left /\ IsSlot(new)
  BY <1>1 DEF Tracking!Idle, IsSlot
<1> QED
  BY <1>1, <1>2 DEF Tracking!Attempted, Tracking!Hold, Light

\* The image store is asked to delete what is queued.
LEMMA ReleaseStep ==
  ASSUME TrackingInv, NEW s \in Tracking!Slots, NEW p, Tracking!Release(s, p)
  PROVE  TrackingInv'
<1> DEFINE Q == Tracking!ToSet(queue)
<1>1. /\ slots[s].op = "flush" /\ p \in slots[s].todo /\ p \in stored /\ stored' = stored \ {p}
      /\ UNCHANGED <<image, queue>>
  BY DEF Tracking!Release, Tracking!Answers
<1>2. IsSlot(slots[s]) /\ slots[s].todo \cap stored \subseteq Q /\ p \in Q
  BY <1>1, SlotsKnown DEF HoldsSafely
<1>3. PICK new : new = [slots[s] EXCEPT !.op = "unqueue", !.picture = p]
  OBVIOUS
<1>4. new.op = "unqueue" /\ new.picture = p /\ new.todo = slots[s].todo
  BY <1>2, <1>3 DEF IsSlot
<1>5. slots' = [slots EXCEPT ![s] = new]
  BY <1>3 DEF Tracking!Release, Tracking!Hold
<1>6. ~Uploading(new) /\ ~Replacing(new) /\ HoldsSafely(new, image, Q, stored')
  BY <1>1, <1>2, <1>4 DEF Uploading, Replacing, HoldsSafely
<1>7. \A t \in Tracking!Slots : HoldsSafely(slots[t], image, Q, stored')
  BY <1>1, <1>2, SlotsKnown DEF HoldsSafely
<1>8. SlotsSafe(slots', image, Q, stored')
  BY <1>5, <1>6, <1>7, HandlerQuiet
<1>9. AnswersShown(image, Q, stored')
  BY <1>1, <1>2 DEF TrackingInv, AnswersShown
<1> QED
  BY <1>1, <1>8, <1>9 DEF TrackingInv

\* And the row that named it goes.
LEMMA UnqueueStep ==
  ASSUME TrackingInv, NEW s \in Tracking!Slots, Tracking!Unqueue(s)
  PROVE  TrackingInv'
<1> DEFINE Q == Tracking!ToSet(queue)
<1>1. slots[s].op = "unqueue" /\ UNCHANGED <<image, stored>>
  BY DEF Tracking!Unqueue, Tracking!Answers
<1>2. slots[s].picture \notin stored
  BY <1>1, SlotsKnown DEF HoldsSafely
<1>3. /\ queue' \in Seq(Images) /\ Tracking!ToSet(queue') \subseteq Q
      /\ Q \subseteq Tracking!ToSet(queue') \cup {slots[s].picture}
  <2>1. queue \in Seq(Images)
    BY DEF TrackingInv
  <2> QED
    BY <2>1, QueueShrinks DEF Tracking!Unqueue
<1>4. PICK new : /\ slots' = [slots EXCEPT ![s] = new]
                 /\ Light(new) /\ new.todo = slots[s].todo \ {slots[s].picture}
  BY AttemptedIs DEF Tracking!Unqueue
<1> DEFINE Q2 == Tracking!ToSet(queue')
<1>5. \A t \in Tracking!Slots : HoldsSafely(slots[t], image, Q2, stored)
  BY <1>2, <1>3, SlotsKnown DEF HoldsSafely
<1>6. new.todo \cap stored \subseteq Q2
  BY <1>4, <1>5 DEF HoldsSafely
<1>7. SlotsSafe(slots', image, Q2, stored)
  BY <1>4, <1>5, <1>6, HandlerLightens
<1>8. AnswersShown(image, Q2, stored)
  BY <1>3 DEF TrackingInv, AnswersShown
<1> QED
  BY <1>1, <1>3, <1>7, <1>8 DEF TrackingInv

LEMMA RefuseStep ==
  ASSUME TrackingInv, NEW s \in Tracking!Slots, NEW p, Tracking!Refuse(s, p)
  PROVE  TrackingInv'
<1>1. UNCHANGED <<image, queue, stored>>
  BY DEF Tracking!Refuse, Tracking!Answers
<1>2. PICK new : /\ slots' = [slots EXCEPT ![s] = new]
                 /\ Light(new) /\ new.todo = slots[s].todo \ {p}
  BY AttemptedIs DEF Tracking!Refuse
<1> QED
  BY <1>1, <1>2, OnlyLightens

\* Answers are cleared, and what they showed may be queued.
LEMMA ClearsShown ==
  ASSUME NEW im, NEW Q, NEW S, NEW im2, NEW Q2, AnswersShown(im, Q, S),
         im2 = [f \in PictureFields |-> im2[f]],
         \A f \in PictureFields : im2[f] = im[f] \/ im2[f] = Tracking!NoImage,
         \A f \in PictureFields : im2[f].picture # None /\ im2[f].picture \in Q2 => im2[f].picture \in Q
  PROVE  AnswersShown(im2, Q2, S)
<1>1. Tracking!NoImage.picture = None
  BY DEF Tracking!NoImage
<1> QED
  BY <1>1 DEF AnswersShown

LEMMA ClearedStays ==
  ASSUME NEW sl, NEW im2, NEW Q2,
         TrackingInv, HoldsSafely(sl, image, Tracking!ToSet(queue), stored),
         Tracking!ToSet(queue) \subseteq Q2,
         Uploading(sl) => sl.picture \notin Q2,
         \A f \in PictureFields : im2[f] = image[f] \/ im2[f] = Tracking!NoImage
  PROVE  HoldsSafely(sl, im2, Q2, stored)
<1>1. Tracking!NoImage.picture = None
  BY DEF Tracking!NoImage
<1>2. stored \subseteq Images
  BY DEF TrackingInv
<1>3. /\ sl.todo \cap stored \subseteq Q2
      /\ sl.op = "unqueue" => sl.picture \notin stored
      /\ Uploading(sl) => sl.picture \in stored \ Q2
  BY DEF HoldsSafely
<1> QED
  BY <1>1, <1>2, <1>3, StaysSafe

LEMMA WriteAnswerStep ==
  ASSUME TrackingInv, NEW r \in Requests, Tracking!WriteAnswer(r)
  PROVE  TrackingInv'
<1> DEFINE Q == Tracking!ToSet(queue)
<1>1. PICK new : new = Tracking!Idle
  OBVIOUS
<1>2. Light(new) /\ new.todo = {} /\ r \in Tracking!Slots
  BY <1>1 DEF Tracking!Idle, Light, Tracking!Slots
<1>3. slots' = [slots EXCEPT ![r] = new] /\ UNCHANGED <<queue, stored>>
  BY <1>1 DEF Tracking!WriteAnswer, Tracking!Hold, Tracking!Store
<1>4. /\ image' = [f \in PictureFields |-> image'[f]]
      /\ \A f \in PictureFields : image'[f] = image[f] \/ image'[f] = Tracking!NoImage
  <2>1. image = [f \in PictureFields |-> image[f]]
    BY DEF TrackingInv, AnswersShown
  <2> QED
    BY <2>1 DEF Tracking!WriteAnswer
<1>5. \A t \in Tracking!Slots : HoldsSafely(slots[t], image', Q, stored)
  <2> TAKE t \in Tracking!Slots
  <2>1. HoldsSafely(slots[t], image, Q, stored) /\ (Uploading(slots[t]) => slots[t].picture \notin Q)
    BY SlotsKnown DEF HoldsSafely
  <2> QED
    BY <1>4, <2>1, ClearedStays
<1>6. SlotsSafe(slots', image', Q, stored)
  BY <1>2, <1>3, <1>5, HandlerLightens
<1>7. AnswersShown(image', Q, stored)
  <2>1. AnswersShown(image, Q, stored)
    BY DEF TrackingInv
  <2> QED
    BY <1>4, <2>1, ClearsShown
<1> QED
  BY <1>3, <1>6, <1>7 DEF TrackingInv

\* Writing the picture that was uploaded: the one that was loaded is queued, and is
\* no longer shown.
LEMMA WritePictureStep ==
  ASSUME TrackingInv, NEW r \in Requests, Tracking!WritePicture(r)
  PROVE  TrackingInv'
<1> DEFINE Q == Tracking!ToSet(queue)
           replaced == {slots[r].image.picture} \ {None}
           Q2 == Tracking!ToSet(queue')
<1>1. /\ r \in Tracking!Slots /\ slots[r].op = "write" /\ stored' = stored
      /\ queue' = Tracking!Enqueued(replaced)
      /\ slots' = [slots EXCEPT ![r] = Tracking!Flushing(replaced, queue')]
  BY DEF Tracking!WritePicture, Tracking!Hold, Tracking!Slots
<1>2. PICK shown : /\ image' = [image EXCEPT ![slots[r].node] = shown]
                   /\ shown.picture = slots[r].picture
  <2>1. PICK shown : shown = [row |-> IF slots[r].image.row = None
                                      THEN slots[r].picture ELSE slots[r].image.row,
                              picture |-> slots[r].picture]
    OBVIOUS
  <2>2. shown.picture = slots[r].picture
    BY <2>1
  <2> QED
    BY <2>1, <2>2 DEF Tracking!WritePicture
<1>3. /\ Uploading(slots[r]) /\ slots[r].node \in PictureFields
      /\ slots[r].picture \in stored \ Q
      /\ \A g \in PictureFields : image[g].picture # slots[r].picture
      /\ \A p \in replaced : /\ p \in Images /\ Replacing(slots[r]) /\ p = slots[r].image.picture
                             /\ \A g \in PictureFields : image[g].picture = p => g = slots[r].node
  BY <1>1, SlotsKnown DEF HoldsSafely, Uploading, Replacing
<1>4. stored \subseteq Images /\ queue \in Seq(Images)
  BY DEF TrackingInv
<1>5. queue' \in Seq(Images) /\ Q \subseteq Q2 /\ Q2 \subseteq Q \cup replaced
  <2>1. IsFiniteSet(replaced)
    <3>1. IsFiniteSet({slots[r].image.picture})
      BY FS_Singleton
    <3> QED
      BY <3>1, FS_Subset
  <2>2. replaced \in SUBSET Images
    BY <1>3
  <2> QED
    BY <1>1, <1>4, <2>1, <2>2, QueueGrows
<1>6. /\ image' = [g \in PictureFields |-> image'[g]]
      /\ \A g \in PictureFields : image'[g] = IF g = slots[r].node THEN shown ELSE image[g]
  BY <1>2 DEF TrackingInv, AnswersShown
<1>7. slots[r].picture \notin Q2
  BY <1>3, <1>5, SlotsKnown, <1>1 DEF UploadsApart
<1> HIDE DEF replaced
<1>8. AnswersShown(image', Q2, stored)
  <2>1. AnswersShown(image, Q, stored)
    BY DEF TrackingInv
  <2>2. \A g \in PictureFields : image'[g].picture # None =>
          image'[g].picture \in (stored \ Q2) \cap Images
    BY <1>2, <1>3, <1>4, <1>5, <1>6, <1>7, <2>1 DEF AnswersShown
  <2>3. \A g \in PictureFields : image'[g].picture = None => image'[g] = Tracking!NoImage
    BY <1>2, <1>3, <1>4, <1>6, <2>1, NoPicture DEF AnswersShown
  <2>4. \A f, g \in PictureFields : f # g /\ image'[f].picture # None => image'[f].picture # image'[g].picture
    BY <1>2, <1>3, <1>6, <2>1 DEF AnswersShown
  <2> QED
    BY <1>6, <2>2, <2>3, <2>4 DEF AnswersShown
<1>9. \A t \in Tracking!Slots \ {r} : HoldsSafely(slots[t], image', Q2, stored)
  <2> TAKE t \in Tracking!Slots \ {r}
  <2>1. /\ HoldsSafely(slots[t], image, Q, stored)
        /\ UploadsApart(slots[r], slots[t]) /\ UploadsApart(slots[t], slots[r])
        /\ UploadsDiffer(slots[r], slots[t])
    BY <1>1, SlotsKnown
  <2>2. Uploading(slots[t]) => slots[t].picture \in stored \ Q2
    BY <1>3, <1>5, <2>1 DEF HoldsSafely, UploadsApart
  <2>3. \A g \in PictureFields :
          \/ image'[g] = image[g]
          \/ /\ Uploading(slots[t]) => image'[g].picture # slots[t].picture
             /\ Replacing(slots[t]) => image'[g].picture # slots[t].image.picture
    BY <1>2, <1>3, <1>6, <2>1 DEF UploadsApart, UploadsDiffer
  <2>4. /\ slots[t].todo \cap stored \subseteq Q2
        /\ slots[t].op = "unqueue" => slots[t].picture \notin stored
    BY <1>5, <2>1 DEF HoldsSafely
  <2> QED
    BY <1>4, <2>1, <2>2, <2>3, <2>4, StaysSafe
<1>10. PICK new : new = Tracking!Flushing(replaced, queue')
  OBVIOUS
<1>11. Light(new) /\ new.todo \subseteq Q2
  BY <1>10, FlushingIs
<1>12. SlotsSafe(slots', image', Q2, stored)
  BY <1>1, <1>9, <1>10, <1>11, HandlerLightens
<1> QED
  BY <1>1, <1>4, <1>5, <1>8, <1>12 DEF TrackingInv

\* What is queued is not an upload of anybody, nor shown once the answers are
\* cleared; the handler goes on to delete it.
LEMMA QueuesStep ==
  ASSUME TrackingInv, NEW s \in Tracking!Slots, NEW ps \in SUBSET Images, IsFiniteSet(ps),
         queue' = Tracking!Enqueued(ps), UNCHANGED stored,
         image' = [f \in PictureFields |-> image'[f]],
         \A f \in PictureFields : image'[f] = image[f] \/ image'[f] = Tracking!NoImage,
         \A f \in PictureFields : image'[f].picture \notin ps,
         \A t \in Tracking!Slots : slots'[t] = slots[t] /\ Uploading(slots[t]) => slots[t].picture \notin ps,
         \/ UNCHANGED slots
         \/ \E new : /\ slots' = [slots EXCEPT ![s] = new] /\ Light(new)
                     /\ new.todo \subseteq Tracking!ToSet(queue')
  PROVE  TrackingInv'
<1> DEFINE Q == Tracking!ToSet(queue)
           Q2 == Tracking!ToSet(queue')
<1>1. queue' \in Seq(Images) /\ Q \subseteq Q2 /\ Q2 \subseteq Q \cup ps
  BY QueueGrows DEF TrackingInv
<1>2. AnswersShown(image', Q2, stored)
  <2>1. AnswersShown(image, Q, stored)
    BY DEF TrackingInv
  <2> QED
    BY <1>1, <2>1, ClearsShown
<1>3. \A t \in Tracking!Slots : slots'[t] = slots[t] => HoldsSafely(slots[t], image', Q2, stored)
  <2> TAKE t \in Tracking!Slots
  <2> HAVE slots'[t] = slots[t]
  <2>1. HoldsSafely(slots[t], image, Q, stored) /\ (Uploading(slots[t]) => slots[t].picture \notin Q2)
    BY <1>1, SlotsKnown DEF HoldsSafely
  <2> QED
    BY <1>1, <2>1, ClearedStays
<1>4. SlotsSafe(slots', image', Q2, stored)
  <2>1. slots = [t \in Tracking!Slots |-> slots[t]]
    BY DEF TrackingInv, SlotsSafe
  <2>2. CASE UNCHANGED slots
    BY <1>3, <2>1, <2>2, SlotsKnown DEF SlotsSafe
  <2>3. ASSUME NEW new, slots' = [slots EXCEPT ![s] = new], Light(new), new.todo \subseteq Q2
        PROVE  SlotsSafe(slots', image', Q2, stored)
    <3>1. \A t \in Tracking!Slots \ {s} : slots'[t] = slots[t]
      BY <2>1, <2>3
    <3> QED
      BY <1>3, <2>3, <3>1, HandlerLightens
  <2> QED
    BY <2>2, <2>3
<1> QED
  BY <1>1, <1>2, <1>4 DEF TrackingInv

LEMMA FlushesQueue ==
  ASSUME NEW s, NEW ps, Tracking!Hold(s, Tracking!Flushing(ps, queue'))
  PROVE  \E new : /\ slots' = [slots EXCEPT ![s] = new] /\ Light(new)
                  /\ new.todo \subseteq Tracking!ToSet(queue')
<1>1. PICK new : new = Tracking!Flushing(ps, queue')
  OBVIOUS
<1> QED
  BY <1>1, FlushingIs DEF Tracking!Hold

\* The upload is given up.
LEMMA AbandonStep ==
  ASSUME TrackingInv, NEW r \in Requests, Tracking!AbandonUpload(r)
  PROVE  TrackingInv'
<1> DEFINE ps == {slots[r].picture}
<1>1. /\ r \in Tracking!Slots /\ Uploading(slots[r]) /\ queue' = Tracking!Enqueued(ps)
      /\ Tracking!Hold(r, Tracking!Flushing(ps, queue'))
      /\ UNCHANGED <<image, stored>>
  BY DEF Tracking!AbandonUpload, Tracking!Answers, Tracking!Slots, Uploading
<1>2. slots[r].picture \in stored /\ \A g \in PictureFields : image[g].picture # slots[r].picture
  BY <1>1, SlotsKnown DEF HoldsSafely
<1>3. ps \in SUBSET Images /\ IsFiniteSet(ps)
  BY <1>2, FS_Singleton DEF TrackingInv
<1>4. \E new : /\ slots' = [slots EXCEPT ![r] = new] /\ Light(new)
               /\ new.todo \subseteq Tracking!ToSet(queue')
  BY <1>1, FlushesQueue
<1>5. image = [f \in PictureFields |-> image[f]]
  BY DEF TrackingInv, AnswersShown
<1>6. \A t \in Tracking!Slots : slots'[t] = slots[t] /\ Uploading(slots[t]) => slots[t].picture \notin ps
  <2>1. slots = [t \in Tracking!Slots |-> slots[t]]
    BY DEF TrackingInv, SlotsSafe
  <2>2. ~Uploading(slots'[r])
    BY <1>1, <1>4, <2>1 DEF Light, Uploading
  <2>3. \A t \in Tracking!Slots \ {r} : Uploading(slots[t]) => slots[t].picture # slots[r].picture
    BY <1>1, SlotsKnown DEF UploadsDiffer
  <2> QED
    BY <1>1, <2>2, <2>3
<1> HIDE DEF ps
<1>7. \A f \in PictureFields : image[f].picture \notin ps
  BY <1>2 DEF ps
<1> QED
  BY <1>1, <1>3, <1>4, <1>5, <1>6, <1>7, QueuesStep

\* The answer is removed, if it is still in the row that was loaded.
LEMMA DropPictureStep ==
  ASSUME TrackingInv, NEW r \in Requests, Tracking!DropPicture(r)
  PROVE  TrackingInv'
<1> DEFINE ps == {slots[r].image.picture}
<1>1. /\ r \in Tracking!Slots /\ slots[r].op = "drop" /\ queue' = Tracking!Enqueued(ps)
      /\ Tracking!Hold(r, Tracking!Flushing(ps, queue'))
      /\ image' = IF image[slots[r].node].row = slots[r].image.row
                  THEN [image EXCEPT ![slots[r].node] = Tracking!NoImage] ELSE image
      /\ UNCHANGED stored
  BY DEF Tracking!DropPicture, Tracking!Slots
<1>2. /\ Replacing(slots[r]) /\ slots[r].node \in PictureFields /\ slots[r].image.picture \in Images
      /\ \A g \in PictureFields :
           image[g].picture = slots[r].image.picture =>
             g = slots[r].node /\ image[g].row = slots[r].image.row
  BY <1>1, SlotsKnown DEF HoldsSafely, Replacing
<1>3. ps \in SUBSET Images /\ IsFiniteSet(ps)
  BY <1>2, FS_Singleton
<1>4. \E new : /\ slots' = [slots EXCEPT ![r] = new] /\ Light(new)
               /\ new.todo \subseteq Tracking!ToSet(queue')
  BY <1>1, FlushesQueue
<1>5. image = [f \in PictureFields |-> image[f]]
  BY DEF TrackingInv, AnswersShown
<1>6. \A t \in Tracking!Slots : slots'[t] = slots[t] /\ Uploading(slots[t]) => slots[t].picture \notin ps
  BY <1>1, <1>2, SlotsKnown DEF UploadsApart
<1>7. /\ image' = [f \in PictureFields |-> image'[f]]
      /\ \A f \in PictureFields : image'[f] = image[f] \/ image'[f] = Tracking!NoImage
  BY <1>1, <1>5
<1>8. \A f \in PictureFields : image'[f].picture # slots[r].image.picture
  <2>1. Tracking!NoImage.picture = None /\ slots[r].image.picture # None
    BY <1>2, NoPicture DEF Tracking!NoImage
  <2> QED
    BY <1>1, <1>2, <1>5, <2>1
<1> HIDE DEF ps
<1>9. \A f \in PictureFields : image'[f].picture \notin ps
  BY <1>8 DEF ps
<1> QED
  BY <1>1, <1>3, <1>4, <1>6, <1>7, <1>9, QueuesStep

\* A purge queues the pictures of the Fields it names, and clears their answers.
LEMMA PurgeClears ==
  ASSUME TrackingInv, NEW fields, NEW others, Tracking!Purge(fields, others)
  PROVE  \E ps \in SUBSET Images :
           /\ IsFiniteSet(ps) /\ queue' = Tracking!Enqueued(ps)
           /\ image' = [f \in PictureFields |-> image'[f]]
           /\ \A f \in PictureFields : image'[f] = image[f] \/ image'[f] = Tracking!NoImage
           /\ \A f \in PictureFields : image'[f].picture \notin ps
           /\ \A t \in Tracking!Slots : Uploading(slots[t]) => slots[t].picture \notin ps
<1> DEFINE named == fields \cap PictureFields
           all == {image[f].picture : f \in named}
           ps == all \ {None}
<1>1. AnswersShown(image, Tracking!ToSet(queue), stored)
  BY DEF TrackingInv
<1>2. ps \in SUBSET Images
  BY <1>1 DEF AnswersShown
<1>3. IsFiniteSet(ps)
  <2>1. IsFiniteSet(named)
    BY FiniteAssumption, FS_Subset
  <2>2. [f \in named |-> image[f].picture] \in Surjection(named, all)
    BY DEF Surjection
  <2>3. IsFiniteSet(all)
    BY <2>1, <2>2, FS_Surjection
  <2> QED
    BY <2>3, FS_Subset
<1>4. queue' = Tracking!Enqueued(ps)
  BY DEF Tracking!Purge
<1> PICK gone : gone = fields \cup others \cup Tracking!Below(fields \cup others)
  OBVIOUS
<1>5. fields \subseteq gone
  OBVIOUS
<1>6. image' = [f \in PictureFields |-> IF f \in gone THEN Tracking!NoImage ELSE image[f]]
  BY DEF Tracking!Purge
<1>7. \A f \in PictureFields : image'[f].picture \notin ps
  <2> SUFFICES ASSUME NEW f \in PictureFields, NEW g \in named, image'[f].picture = image[g].picture,
                      image[g].picture # None
               PROVE  FALSE
    OBVIOUS
  <2>1. Tracking!NoImage.picture = None
    BY DEF Tracking!NoImage
  <2>2. f \notin gone /\ image'[f] = image[f]
    BY <1>6, <2>1
  <2>3. f = g
    BY <1>1, <2>2 DEF AnswersShown
  <2> QED
    BY <1>5, <2>2, <2>3
<1>8. \A t \in Tracking!Slots : Uploading(slots[t]) => slots[t].picture \notin ps
  BY SlotsKnown DEF HoldsSafely
<1>9. /\ image' = [f \in PictureFields |-> image'[f]]
      /\ \A f \in PictureFields : image'[f] = image[f] \/ image'[f] = Tracking!NoImage
  BY <1>6
<1> QED
  BY <1>2, <1>3, <1>4, <1>7, <1>8, <1>9

LEMMA PurgeStep ==
  ASSUME TrackingInv, Tracking!PurgeExpired \/ Tracking!PurgeUser
  PROVE  TrackingInv'
<1>1. Job \in Tracking!Slots /\ UNCHANGED stored
  BY DEF Tracking!PurgeExpired, Tracking!PurgeUser, Tracking!Slots
<1>2. \E fields, others : Tracking!Purge(fields, others)
  BY DEF Tracking!PurgeExpired, Tracking!PurgeUser
<1>3. \/ UNCHANGED slots
      \/ \E new : /\ slots' = [slots EXCEPT ![Job] = new] /\ Light(new)
                  /\ new.todo \subseteq Tracking!ToSet(queue')
  BY FlushesQueue DEF Tracking!PurgeExpired, Tracking!PurgeUser, Tracking!Reconcile
<1> QED
  BY <1>1, <1>2, <1>3, PurgeClears, QueuesStep

LEMMA TrackingStep == TrackingInv /\ [Tracking!Next]_(Tracking!vars) => TrackingInv'
<1> SUFFICES ASSUME TrackingInv, [Tracking!Next]_(Tracking!vars) PROVE TrackingInv'
  OBVIOUS
<1>1. CASE UNCHANGED <<image, queue, stored, slots>>
  BY <1>1 DEF TrackingInv
<1>2. ASSUME NEW r \in Requests, Tracking!Request(r)
      PROVE  TrackingInv'
  <2>1. r \in Tracking!Slots
    BY DEF Tracking!Slots
  <2>2. CASE \E f \in PictureFields : Tracking!UploadPicture(r, f) \/ Tracking!RemovePicture(r, f)
    BY <2>2, UploadStep, LoadsStep
  <2>3. CASE \E o \in Options : Tracking!RemoveOption(r, o)
    BY <1>1, <2>3 DEF Tracking!RemoveOption, Tracking!Answers, Tracking!Store
  <2>4. CASE Reads(r)
    BY <2>1, <2>4, ReadsStep
  <2> QED
    BY <1>2, <2>2, <2>3, <2>4
    DEF Tracking!Request, Reads, Tracking!CreateSection, Tracking!CreateTab, Tracking!CreateField,
        Tracking!CreateOption, Tracking!UpdateSection, Tracking!UpdateTab, Tracking!UpdateField,
        Tracking!UpdateOption, Tracking!RemoveSection, Tracking!RemoveTab, Tracking!RemoveField
<1>3. ASSUME NEW r \in Requests, Tracking!Statement(r)
      PROVE  TrackingInv'
  <2>1. r \in Tracking!Slots
    BY DEF Tracking!Slots
  <2> QED
    BY <1>3, <2>1, ReadsStep, LoadsStep, WriteAnswerStep, WritePictureStep, AbandonStep,
       DropPictureStep
    DEF Tracking!Statement, Reads
<1>4. ASSUME NEW s \in Tracking!Slots, Tracking!Attempt(s)
      PROVE  TrackingInv'
  BY <1>4, UnqueueStep, ReleaseStep, RefuseStep DEF Tracking!Attempt
<1>5. ASSUME NEW s \in Tracking!Slots, Tracking!Crash(s)
      PROVE  TrackingInv'
  BY <1>5, ReadsStep DEF Reads
<1>6. CASE Tracking!NextDay
  BY <1>1, <1>6 DEF Tracking!NextDay, Tracking!Answers, Tracking!Store
<1>7. CASE Tracking!Next
  BY <1>2, <1>3, <1>4, <1>5, <1>6, <1>7, PurgeStep DEF Tracking!Next, Tracking!Work
<1>8. CASE UNCHANGED Tracking!vars
  BY <1>1, <1>8 DEF Tracking!vars
<1> QED
  BY <1>7, <1>8

\* Nobody is shown a broken picture: what an answer points at is in the image store
\* and not waiting to be deleted, however the uploads, replacements, removals,
\* purges, clean-ups, failures and crashes of any number of handlers meet; and the
\* same of every other row with a picture while its requests come one at a time.
THEOREM PicturesShown == SpecAll => []NoBrokenPicture
<1>1. TrackingInv => Tracking!NoBrokenPicture
  BY DEF TrackingInv, AnswersShown, Tracking!NoBrokenPicture, Tracking!Referenced
<1>2. SlotsInv => Slots!PicturesStand
  BY DEF SlotsInv, Slots!PicturesStand
<1>3. TrackingInv /\ SlotsInv => NoBrokenPicture
  BY <1>1, <1>2 DEF NoBrokenPicture
<1> QED
  BY <1>3, TrackingInit, TrackingStep, TrackingSpec, SlotsHold, PTL

\* The image store is only asked to delete what the queue records as finished with,
\* and what no answer shows.
THEOREM DeletionsQueued == SpecAll => DeletesOnlyQueued
<1>1. TrackingInv /\ [Tracking!Next]_(Tracking!vars) =>
        [\A p \in stored \ stored' : p \in Tracking!ToSet(queue) \ Tracking!Referenced]_(Tracking!vars)
  <2> SUFFICES ASSUME TrackingInv, Tracking!Next, NEW p \in stored \ stored'
               PROVE  p \in Tracking!ToSet(queue) \ Tracking!Referenced
    OBVIOUS
  <2>1. PICK s \in Tracking!Slots : Tracking!Release(s, p)
    <3>1. PICK s \in Tracking!Slots : \E q : Tracking!Release(s, q)
      <4>1. stored' # stored
        OBVIOUS
      <4>2. ASSUME NEW r \in Requests, Tracking!Request(r) PROVE stored \subseteq stored'
        BY <4>2
        DEF Tracking!Request, Tracking!CreateSection, Tracking!CreateTab, Tracking!CreateField,
            Tracking!CreateOption, Tracking!UpdateSection, Tracking!UpdateTab, Tracking!UpdateField,
            Tracking!UpdateOption, Tracking!RemoveSection, Tracking!RemoveTab, Tracking!RemoveField,
            Tracking!CreateNode, Tracking!LoadNode, Tracking!Stamping, Tracking!RemoveOption,
            Tracking!AnswerField, Tracking!UploadPicture, Tracking!RemovePicture, Tracking!Store
      <4>3. ASSUME NEW r \in Requests, Tracking!Statement(r) PROVE stored' = stored
        BY <4>3
        DEF Tracking!Statement, Tracking!InsertNode, Tracking!SaveNode, Tracking!Stamp,
            Tracking!WriteAnswer, Tracking!ReadPicture, Tracking!WritePicture,
            Tracking!AbandonUpload, Tracking!DropPicture, Tracking!Store
      <4>4. Tracking!PurgeExpired \/ Tracking!PurgeUser \/ Tracking!NextDay => stored' = stored
        BY DEF Tracking!PurgeExpired, Tracking!PurgeUser, Tracking!NextDay, Tracking!Store
      <4>5. \A s \in Tracking!Slots : Tracking!Crash(s) => stored' = stored
        BY DEF Tracking!Crash, Tracking!Store
      <4>6. ASSUME NEW s \in Tracking!Slots, Tracking!Attempt(s)
            PROVE  stored' = stored \/ \E q : Tracking!Release(s, q)
        BY <4>6 DEF Tracking!Attempt, Tracking!Unqueue, Tracking!Refuse
      <4> QED
        BY <4>1, <4>2, <4>3, <4>4, <4>5, <4>6 DEF Tracking!Next, Tracking!Work
    <3>2. \A q : Tracking!Release(s, q) => p = q
      BY DEF Tracking!Release
    <3> QED
      BY <3>1, <3>2
  <2>2. p \in Tracking!ToSet(queue)
    BY <2>1, SlotsKnown DEF Tracking!Release, HoldsSafely
  <2>3. p \notin Tracking!Referenced
    BY <2>2 DEF TrackingInv, AnswersShown, Tracking!Referenced
  <2> QED
    BY <2>2, <2>3
<1> QED
  BY <1>1, TrackingInit, TrackingStep, TrackingSpec, PTL DEF DeletesOnlyQueued, Tracking!DeletesOnlyQueued
================================================================================
