---------------------------- MODULE CaptainTrackers ----------------------------
(***************************************************************************)
(* What one Captain has achieved: reputations, R&D schools, admiralty      *)
(* campaigns, commendations and specializations, each a row per entry of a *)
(* catalogue, written when first recorded, with a list, a summary and, for *)
(* specializations, two slots.  One handler at a time.                     *)
(***************************************************************************)
EXTENDS Integers, FiniteSets, FiniteSetsExt

CONSTANTS
  None,
  Catalogue,   \* the entries: [tracker, name, most, faction, type]
  Allegiances, \* general factions that commendations are restricted to
  MaxRows      \* bound on the rows stored

VARIABLES
  allegiance,  \* the Captain's general faction, or None
  score,       \* what a row records (tier, level, rank or points), or None
  slot,        \* of a specialization's row
  recorded,    \* history: the number last recorded of each entry
  slotted      \* history: the specialization last chosen for each slot

vars == <<allegiance, score, slot, recorded, slotted>>

Trackers == {"reputation", "rd", "admiralty", "commendation", "specialization"}
Slots == {"primary", "secondary"}
Of(tracker) == {e \in Catalogue : e.tracker = tracker}
Specializations == Of("specialization")

Stored == {e \in Catalogue : score[e] # None}

\* Each handler loads the row or makes one, sets the number and saves; the
\* request's type bounds the number by the tracker's maximum.
Update(e, n) ==
  /\ n \in 0..e.most
  /\ Cardinality(Stored \cup {e}) <= MaxRows
  /\ score' = [score EXCEPT ![e] = n]
  /\ recorded' = [recorded EXCEPT ![e] = n]
  /\ UNCHANGED <<allegiance, slot, slotted>>

UpdateReputation(e, n) == e.tracker = "reputation" /\ Update(e, n)
UpdateSchool(e, n) == e.tracker = "rd" /\ Update(e, n)
UpdateCampaign(e, n) == e.tracker = "admiralty" /\ Update(e, n)

\* Whatever the Captain's faction: a commendation need not apply to be recorded.
UpdateCommendation(e, n) == e.tracker = "commendation" /\ Update(e, n)

\* A specialization's own maximum is checked by the handler.
UpdateSpecialization(e, n) == e.tracker = "specialization" /\ Update(e, n)

\* updateSlot releases the slot first...
Released(s, e) ==
  IF s = None THEN slot
  ELSE [x \in Specializations |-> IF x # e /\ slot[x] = s THEN None ELSE slot[x]]

\* The partial unique index on the slot.
Admits(holders) ==
  \A x, y \in Specializations : x # y /\ holders[x] # None => holders[x] # holders[y]

\* ...then claims it, in one transaction: an index that refuses undoes both.
Claimed(s, e) == [Released(s, e) EXCEPT ![e] = s]

UpdateSlot(e, s) ==
  /\ e.tracker = "specialization"
  /\ s = "primary" => e.type = "primary"
  /\ Cardinality(Stored \cup {e}) <= MaxRows
  /\ IF Admits(Claimed(s, e))
     THEN /\ slot' = Claimed(s, e)
          /\ score' = [score EXCEPT ![e] = IF @ = None THEN 0 ELSE @]
     ELSE UNCHANGED <<slot, score>>
  /\ slotted' = [x \in Slots |-> IF x = s THEN e ELSE IF slotted[x] = e THEN None ELSE slotted[x]]
  /\ UNCHANGED <<allegiance, recorded>>

\* CharacterService.updateForUser.
Change(f) == allegiance' = f /\ UNCHANGED <<score, slot, recorded, slotted>>

--------------------------------------------------------------------------------

\* getCommendationsForFaction, and every entry of the other catalogues.
Applies(e) == e.faction \in {None, allegiance}
Listed(tracker) == {e \in Of(tracker) : Applies(e)}

\* getProgress: an entry never recorded counts as zero.
Progress(tracker) == [e \in Listed(tracker) |-> IF score[e] = None THEN 0 ELSE score[e]]

\* getSummary.
Summary(tracker) ==
  LET of(e) == IF score[e] = None THEN 0 ELSE score[e]
      rows == IF tracker = "admiralty" THEN Of(tracker) \cap Stored ELSE Listed(tracker)
  IN [total |-> MapThenSumSet(of, rows),
      most |-> MapThenSumSet(LAMBDA e : e.most, Listed(tracker)),
      completed |-> Cardinality({e \in rows : of(e) >= e.most}),
      entries |-> Cardinality(Listed(tracker))]

\* The specialization a summary names for a slot.
Named(s) == {e \in Specializations : slot[e] = s}

Init ==
  /\ allegiance = None
  /\ score = [e \in Catalogue |-> None] /\ recorded = score
  /\ slot = [e \in Specializations |-> None]
  /\ slotted = [s \in Slots |-> None]

Next ==
  \/ \E e \in Catalogue :
       \/ \E n \in 0..e.most :
            \/ UpdateReputation(e, n) \/ UpdateSchool(e, n) \/ UpdateCampaign(e, n)
            \/ UpdateCommendation(e, n) \/ UpdateSpecialization(e, n)
       \/ \E s \in Slots \cup {None} : UpdateSlot(e, s)
  \/ \E f \in Allegiances \cup {None} : Change(f)

Spec == Init /\ [][Next]_vars

\* A slot holds the specialization last chosen for it, unless that was then put in
\* the other or taken out; an entry keeps the number last recorded, also while a change
\* of faction hides it.
TrackedAsChosen ==
  /\ \A s \in Slots : Named(s) = IF slotted[s] = None THEN {} ELSE {slotted[s]}
  /\ \A t \in Trackers :
       Progress(t) = [e \in Listed(t) |-> IF recorded[e] = None THEN 0 ELSE recorded[e]]

\* A summary, the list it sums up and what is complete in it tell the same.
SummariesAgree ==
  \A t \in Trackers :
    LET list == Progress(t)
        summary == Summary(t)
    IN /\ summary.total = MapThenSumSet(LAMBDA e : list[e], Listed(t))
       /\ summary.total <= summary.most
       /\ summary.total = summary.most <=> summary.completed = summary.entries
================================================================================
