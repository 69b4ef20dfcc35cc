--------------------------- MODULE CustomTracking ---------------------------
(***************************************************************************)
(* One member's Custom Tracking: the Sections, Tabs, Fields and Options    *)
(* the member defines, the answers one record gives them, the pictures     *)
(* some of those answers are, the queue of pictures nothing points at any  *)
(* more, and the nightly job that clears expired rows and drains it.       *)
(*                                                                         *)
(* A row is its deletedAt; ids, parents and pictures are keys. A night     *)
(* passes only while no request is under way (retention is 180 days).      *)
(***************************************************************************)
EXTENDS Naturals, FiniteSets, SequencesExt

CONSTANTS
  None,         \* null
  Absent,       \* there is no such row
  Requests,     \* concurrent handlers
  Job,          \* the nightly job, a slot of its own
  Sections, Tabs, Fields, Options,   \* row ids, used again once purged
  Parent,       \* the parent of every Tab, Field and Option
  PictureFields,\* the Fields of type IMAGE; the others choose Options
  Pictures,     \* ids of the image store, used again once nothing knows them
  MaxDay,       \* bound on the calendar
  Retention,    \* CUSTOM_TRACKING_RETENTION_DAYS
  PurgeBatch,   \* CUSTOM_TRACKING_PURGE_BATCH
  CleanupBatch, \* CUSTOM_TRACKING_IMAGE_CLEANUP_BATCH
  MaxRefusals,  \* bound on the deletions the image store refuses
  Clearable,    \* the Fields whose answer a save may clear
  Contended     \* bound: the rows requests work on

Nodes == Sections \cup Tabs \cup Fields \cup Options
ChoiceFields == Fields \ PictureFields
Days == 0..MaxDay
Slots == Requests \cup {Job}

VARIABLES
  deletedAt,  \* every definition's row: Absent, None (live) or a day
  image,      \* per picture Field: the picture row answering it
  chosen,     \* per choice Field: the Options its answer selects
  queue,      \* custom_tracking_image_cleanup, oldest first
  stored,     \* the pictures the image store holds
  slots,      \* what each handler and the job hold between two statements
  day, refusals,
  member      \* whether the member's own row is still there

vars == <<deletedAt, image, chosen, queue, stored, slots, day, refusals, member>>

ImageRow == [row : Pictures \cup {None}, picture : Pictures \cup {None}]
NoImage == [row |-> None, picture |-> None]

Slot == [op : {"idle", "insert", "save", "stamp", "read", "write", "drop",
               "answer", "flush", "unqueue"},
         node : Nodes \cup {None}, kids : SUBSET Nodes,
         picture : Pictures \cup {None}, image : ImageRow,
         options : SUBSET Options, todo : SUBSET Pictures]
Idle == [op |-> "idle", node |-> None, kids |-> {}, picture |-> None,
         image |-> NoImage, options |-> {}, todo |-> {}]

Live(n) == deletedAt[n] = None
Kids(S) == {n \in DOMAIN Parent : Parent[n] \in S}
Below(S) == Kids(S) \cup Kids(Kids(S)) \cup Kids(Kids(Kids(S)))

\* findOwned: a Tab asks for its Section, an Option for its Field, a Field
\* only for itself.
Owned(n) == Live(n) /\ (n \in Tabs \cup Options => Live(Parent[n]))

\* The tree an answer is checked against: live all the way up.
InTree(f) == Live(f) /\ Owned(Parent[f])

Busy == \E s \in Slots : slots[s] # Idle
Free(r, n) == slots[r] = Idle /\ member /\ n \in Contended
Hold(s, slot) == slots' = [slots EXCEPT ![s] = slot]

Known == {image[f].picture : f \in PictureFields} \cup {image[f].row : f \in PictureFields}
         \cup (UNION {{slots[s].picture, slots[s].image.row, slots[s].image.picture}
                      \cup slots[s].todo : s \in Slots})
         \cup ToSet(queue) \cup stored

\* A new id. Any unknown one serves, so a run may take the first.
Fresh == {p \in Pictures \ Known : \A q \in Pictures \ Known : p <= q}

Tree == <<deletedAt>>
Answers == <<image, chosen>>
Store == <<queue, stored, refusals>>
Clock == <<day, member>>

(***************************************************************************)
(* Definitions.                                                            *)
(***************************************************************************)
CreateNode(r, n) ==
  /\ Free(r, n) /\ deletedAt[n] = Absent
  /\ \A s \in Slots : slots[s].op = "insert" => slots[s].node # n
  /\ Hold(r, [Idle EXCEPT !.op = "insert", !.node = n])
  /\ UNCHANGED <<Tree, Answers, Store, Clock>>

\* The parent is looked for as Owned says: a live Tab of a deleted Section, or
\* a live Option of a deleted Field, takes no child.
CreateSection(r, s) == CreateNode(r, s)
CreateTab(r, t) == Owned(Parent[t]) /\ CreateNode(r, t)
CreateField(r, f) == Owned(Parent[f]) /\ CreateNode(r, f)
CreateOption(r, o) == Owned(Parent[o]) /\ CreateNode(r, o)

\* The insert; the foreign key refuses a parent that is not there.
InsertNode(r) ==
  LET n == slots[r].node IN
  /\ slots[r].op = "insert"
  /\ deletedAt' = IF n \in Sections \/ deletedAt[Parent[n]] # Absent
                  THEN [deletedAt EXCEPT ![n] = None] ELSE deletedAt
  /\ Hold(r, Idle)
  /\ UNCHANGED <<Answers, Store, Clock>>

\* update loads a row, changes other columns and saves it.
LoadNode(r, n) ==
  /\ Free(r, n) /\ Owned(n)
  /\ Hold(r, [Idle EXCEPT !.op = "save", !.node = n])
  /\ UNCHANGED <<Tree, Answers, Store, Clock>>

UpdateSection(r, s) == LoadNode(r, s)
UpdateTab(r, t) == LoadNode(r, t)
UpdateField(r, f) == LoadNode(r, f)
UpdateOption(r, o) == LoadNode(r, o)

\* save of the loaded entity: deletedAt, null when loaded, is written back.
SaveNode(r) ==
  /\ slots[r].op = "save"
  /\ deletedAt' = [deletedAt EXCEPT ![slots[r].node] = None]
  /\ Hold(r, Idle)
  /\ UNCHANGED <<Answers, Store, Clock>>

Stamping(r, n, kids) ==
  /\ Free(r, n) /\ Owned(n)
  /\ Hold(r, [Idle EXCEPT !.op = "stamp", !.node = n, !.kids = kids])
  /\ UNCHANGED <<Tree, Answers, Store, Clock>>

LiveTabs(s) == {t \in Tabs : Live(t) /\ Parent[t] = s}
LiveFields(S) == {f \in Fields : Live(f) /\ Parent[f] \in S}

\* Mutant of RemoveSection: the deletion stops at the Section's Tabs.
RemoveSectionShallow(r, s) == Stamping(r, s, LiveTabs(s))

\* remove reads the live children that its deletion will stamp.
RemoveSection(r, s) == Stamping(r, s, LiveTabs(s) \cup LiveFields(LiveTabs(s)))
RemoveTab(r, t) == Stamping(r, t, LiveFields({t}))
RemoveField(r, f) == Stamping(r, f, {})

\* Mutant of Stamp: the row alone, its children left live.
StampAlone(r) ==
  /\ slots[r].op = "stamp"
  /\ deletedAt' = [deletedAt EXCEPT ![slots[r].node] = day]
  /\ Hold(r, Idle)
  /\ UNCHANGED <<Answers, Store, Clock>>

Stamp(r) ==
  LET down == slots[r].kids \cup {slots[r].node}
      options == {o \in Options : Live(o) /\ Parent[o] \in down} IN
  /\ slots[r].op = "stamp"
  /\ deletedAt' = [n \in Nodes |-> IF n \in down \cup options THEN day ELSE deletedAt[n]]
  /\ Hold(r, Idle)
  /\ UNCHANGED <<Answers, Store, Clock>>

RemoveOption(r, o) ==
  /\ Free(r, o) /\ Owned(o)
  /\ deletedAt' = [deletedAt EXCEPT ![o] = day]
  /\ UNCHANGED <<Answers, Store, slots, Clock>>

(***************************************************************************)
(* Answers: a saved record, one Field of it at a time.                     *)
(***************************************************************************)
Choosable(f) == {o \in Options : Parent[o] = f /\ (Live(o) \/ (deletedAt[o] # Absent /\ o \in chosen[f]))}

\* saveRecord up to its transaction. An empty choice clears the answer, and
\* so does null, for a Field of any type.
AnswerField(r, f, O) ==
  /\ Free(r, f) /\ InTree(f)
  /\ IF f \in ChoiceFields THEN O \subseteq Choosable(f) ELSE O = {}
  /\ O = {} => f \in Clearable
  /\ Hold(r, [Idle EXCEPT !.op = "answer", !.node = f, !.options = O])
  /\ UNCHANGED <<Tree, Answers, Store, Clock>>

\* Clearing deletes the answer's row; the picture row goes by the cascade.
\* The foreign keys refuse an answer to a Field, or of an Option, that is gone.
WriteAnswer(r) ==
  LET f == slots[r].node
      O == slots[r].options
      refused == \E n \in O \cup {f} : deletedAt[n] = Absent IN
  /\ slots[r].op = "answer"
  /\ image' = IF f \in PictureFields THEN [image EXCEPT ![f] = NoImage] ELSE image
  /\ chosen' = IF f \in PictureFields \/ refused THEN chosen ELSE [chosen EXCEPT ![f] = O]
  /\ Hold(r, Idle)
  /\ UNCHANGED <<Tree, Store, Clock>>

(***************************************************************************)
(* Pictures and the clean-up queue.                                        *)
(***************************************************************************)
\* enqueue: insert or ignore.
Enqueued(ps) == queue \o SetToSeq(ps \ ToSet(queue))

\* flush: holds the rows the queue has of these pictures.
Flushing(ps, q) == [Idle EXCEPT !.op = IF ps \cap ToSet(q) = {} THEN "idle" ELSE "flush",
                                !.todo = ps \cap ToSet(q)]

\* store up to the upload: the picture is in the image store, and only this
\* handler knows.
UploadPicture(r, f) ==
  /\ Free(r, f) /\ Live(f)
  /\ \E p \in Fresh :
       /\ stored' = stored \cup {p}
       /\ Hold(r, [Idle EXCEPT !.op = "read", !.node = f, !.picture = p])
  /\ UNCHANGED <<Tree, Answers, queue, refusals, Clock>>

\* Mutant of ReadPicture: the old picture is queued before the transaction.
ReadPictureQueueing(r) ==
  /\ slots[r].op = "read"
  /\ Hold(r, [slots[r] EXCEPT !.op = "write", !.image = image[slots[r].node]])
  /\ queue' = Enqueued({image[slots[r].node].picture} \ {None})
  /\ UNCHANGED <<Tree, Answers, stored, refusals, Clock>>

ReadPicture(r) ==
  /\ slots[r].op = "read"
  /\ Hold(r, [slots[r] EXCEPT !.op = "write", !.image = image[slots[r].node]])
  /\ UNCHANGED <<Tree, Answers, Store, Clock>>

\* The row loaded is still there, or there was none and there still is none;
\* otherwise a unique or a foreign key refuses the write.
Admitted(s) == deletedAt[s.node] # Absent /\ image[s.node].row = s.image.row

\* write and commit: the new picture is referenced, the one that was loaded
\* is queued.
WritePicture(r) ==
  LET s == slots[r]
      replaced == {s.image.picture} \ {None}
      row == IF s.image.row = None THEN s.picture ELSE s.image.row IN
  /\ s.op = "write" /\ Admitted(s)
  /\ image' = [image EXCEPT ![s.node] = [row |-> row, picture |-> s.picture]]
  /\ queue' = Enqueued(replaced)
  /\ Hold(r, Flushing(replaced, queue'))
  /\ UNCHANGED <<Tree, chosen, stored, refusals, Clock>>

\* The transaction failed: the upload is queued as abandoned.
AbandonUpload(r) ==
  /\ slots[r].op \in {"read", "write"}
  /\ queue' = Enqueued({slots[r].picture})
  /\ Hold(r, Flushing({slots[r].picture}, queue'))
  /\ UNCHANGED <<Tree, Answers, stored, refusals, Clock>>

RemovePicture(r, f) ==
  /\ Free(r, f) /\ Live(f) /\ image[f] # NoImage
  /\ Hold(r, [Idle EXCEPT !.op = "drop", !.node = f, !.image = image[f]])
  /\ UNCHANGED <<Tree, Answers, Store, Clock>>

\* Deletes the rows by id and queues the picture that was loaded.
DropPicture(r) ==
  LET s == slots[r] IN
  /\ s.op = "drop"
  /\ image' = IF image[s.node].row = s.image.row THEN [image EXCEPT ![s.node] = NoImage]
              ELSE image
  /\ queue' = Enqueued({s.image.picture})
  /\ Hold(r, Flushing({s.image.picture}, queue'))
  /\ UNCHANGED <<Tree, chosen, stored, refusals, Clock>>

\* tryRelease, granted. A picture that is no longer there cannot be deleted.
Release(s, p) ==
  /\ slots[s].op = "flush" /\ p \in slots[s].todo /\ p \in stored
  /\ stored' = stored \ {p}
  /\ Hold(s, [slots[s] EXCEPT !.op = "unqueue", !.picture = p])
  /\ UNCHANGED <<Tree, Answers, queue, refusals, Clock>>

Attempted(s, p) ==
  LET left == slots[s].todo \ {p} IN
  Hold(s, [Idle EXCEPT !.op = IF left = {} THEN "idle" ELSE "flush", !.todo = left])

\* The row that names the released picture goes; another run may have been first.
Unqueue(s) ==
  /\ slots[s].op = "unqueue"
  /\ IF slots[s].picture \in ToSet(queue)
     THEN \E i \in DOMAIN queue :
            queue[i] = slots[s].picture /\ queue' = RemoveAt(queue, i)
     ELSE UNCHANGED queue
  /\ Attempted(s, slots[s].picture)
  /\ UNCHANGED <<Tree, Answers, stored, refusals, Clock>>

\* tryRelease, refused: the row stays.
Refuse(s, p) ==
  /\ slots[s].op = "flush" /\ p \in slots[s].todo
  /\ p \in stored => refusals < MaxRefusals
  /\ refusals' = IF p \in stored THEN refusals + 1 ELSE refusals
  /\ Attempted(s, p)
  /\ UNCHANGED <<Tree, Answers, queue, stored, Clock>>

(***************************************************************************)
(* Retention.                                                              *)
(***************************************************************************)
Expired(T) == {n \in T : deletedAt[n] \notin {None, Absent} /\ deletedAt[n] + Retention < day}

\* The batches a table's query may return: oldest first.
Batches(T) ==
  {B \in SUBSET Expired(T) :
     /\ Cardinality(B) <= PurgeBatch
     /\ Cardinality(B) < PurgeBatch => B = Expired(T)
     /\ \A n \in B, m \in Expired(T) \ B : deletedAt[n] <= deletedAt[m]}

\* remove: the answers of the Fields named, their pictures queued, then the
\* rows named; the foreign keys take everything below them.
Purge(fields, others) ==
  LET gone == fields \cup others \cup Below(fields \cup others) IN
  /\ queue' = Enqueued({image[f].picture : f \in fields \cap PictureFields} \ {None})
  /\ deletedAt' = [n \in Nodes |-> IF n \in gone THEN Absent ELSE deletedAt[n]]
  /\ image' = [f \in PictureFields |-> IF f \in gone THEN NoImage ELSE image[f]]
  /\ chosen' = [f \in ChoiceFields |-> IF f \in gone THEN {} ELSE chosen[f]]

\* An answer that only the cascade deletes still selects an Option: whether
\* the database objects depends on the branch it takes first.
Restricted(fields, others) ==
  \E f \in (ChoiceFields \cap Below(others)) \ fields : chosen[f] # {}

\* unreferencedOptions: what a surviving answer selects is retained.
Unreferenced(os, fields) == {o \in os : \A f \in ChoiceFields \ fields : o \notin chosen[f]}

\* Mutant of Reconcile: a sweep of what nothing references.
ReconcileSweeping(q) ==
  LET todo == stored \ {image[f].picture : f \in PictureFields} IN
  [Idle EXCEPT !.op = IF todo = {} THEN "idle" ELSE "flush", !.todo = todo]

\* Mutant of Reconcile: off by one.
ReconcileOneShort(q) == Flushing({q[i] : i \in {j \in DOMAIN q : j < CleanupBatch}}, q)

\* reconcile: the head of the queue.
Reconcile(q) == Flushing({q[i] : i \in {j \in DOMAIN q : j <= CleanupBatch}}, q)

PurgeExpired ==
  /\ slots[Job] = Idle
  /\ \E ss \in Batches(Sections), ts \in Batches(Tabs), fs \in Batches(Fields), os \in Batches(Options) :
       Purge(fs, ss \cup ts \cup Unreferenced(os, fs))
  /\ Hold(Job, Reconcile(queue'))
  /\ UNCHANGED <<stored, refusals, Clock>>

\* purgeUsers, of a member whose closure is past its retention.
PurgeUser ==
  /\ ~Busy /\ member /\ day = MaxDay
  /\ member' = FALSE
  /\ Purge({f \in Fields : deletedAt[f] # Absent}, {n \in Nodes : deletedAt[n] # Absent})
  /\ UNCHANGED <<stored, refusals, slots, day>>

NextDay ==
  /\ ~Busy /\ day < MaxDay
  /\ day' = day + 1
  /\ UNCHANGED <<Tree, Answers, Store, slots, member>>

\* The process dies.
Crash(s) ==
  /\ slots[s] # Idle
  /\ Hold(s, Idle)
  /\ UNCHANGED <<Tree, Answers, Store, Clock>>

(***************************************************************************)
(* Specification.                                                          *)
(***************************************************************************)
Quiet ==
  /\ image = [f \in PictureFields |-> NoImage]
  /\ chosen = [f \in ChoiceFields |-> {}]
  /\ queue = <<>> /\ stored = {} /\ refusals = 0 /\ day = 0
  /\ slots = [s \in Slots |-> Idle]
  /\ member = TRUE

Init == Quiet /\ deletedAt = [n \in Nodes |-> Absent]

Statement(r) ==
  \/ InsertNode(r) \/ SaveNode(r) \/ Stamp(r) \/ WriteAnswer(r)
  \/ ReadPicture(r) \/ WritePicture(r) \/ AbandonUpload(r) \/ DropPicture(r)

Attempt(s) ==
  \/ Unqueue(s)
  \/ \E p \in Pictures : Release(s, p) \/ Refuse(s, p)

Request(r) ==
  \/ \E s \in Sections : CreateSection(r, s) \/ UpdateSection(r, s) \/ RemoveSection(r, s)
  \/ \E t \in Tabs : CreateTab(r, t) \/ UpdateTab(r, t) \/ RemoveTab(r, t)
  \/ \E f \in Fields : CreateField(r, f) \/ UpdateField(r, f) \/ RemoveField(r, f)
  \/ \E o \in Options : CreateOption(r, o) \/ UpdateOption(r, o) \/ RemoveOption(r, o)
  \/ \E f \in Fields, O \in SUBSET Options : AnswerField(r, f, O)
  \/ \E f \in PictureFields : UploadPicture(r, f) \/ RemovePicture(r, f)

Work ==
  \/ \E r \in Requests : Request(r) \/ Statement(r)
  \/ \E s \in Slots : Attempt(s)
  \/ PurgeExpired \/ PurgeUser \/ NextDay

Next == Work \/ \E s \in Slots : Crash(s)

Spec == Init /\ [][Next]_vars

(***************************************************************************)
(* Properties.                                                             *)
(***************************************************************************)
TypeOK ==
  /\ deletedAt \in [Nodes -> Days \cup {None, Absent}]
  /\ image \in [PictureFields -> ImageRow]
  /\ chosen \in [ChoiceFields -> SUBSET Options]
  /\ queue \in Seq(Pictures) /\ stored \subseteq Pictures
  /\ slots \in [Slots -> Slot]
  /\ day \in Days /\ refusals \in 0..MaxRefusals
  /\ member \in BOOLEAN

Referenced == {image[f].picture : f \in PictureFields} \ {None}

\* Nobody is shown a broken picture: what an answer points at is in the image
\* store and is not waiting to be deleted, however uploads, replacements,
\* removals, saves, purges, flushes and crashes interleave.
NoBrokenPicture == Referenced \subseteq stored \ ToSet(queue)

\* The site only ever deletes what it recorded as finished with.
DeletesOnlyQueued == [][\A p \in stored \ stored' : p \in ToSet(queue) \ Referenced]_vars
=============================================================================
