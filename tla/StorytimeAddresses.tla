-------------------------- MODULE StorytimeAddresses --------------------------
(***************************************************************************)
(* The slugs of one scope (the Stories, the Arcs or the spotlights of the  *)
(* site, the Chapters or the Characters of a Story) and the history of     *)
(* those that were given up (StorytimeSlugService).  A slug is the words   *)
(* it is made of: <<"x">>, and <<"x", 2>> for x-2, however that came about. *)
(***************************************************************************)
EXTENDS Naturals, Sequences

CONSTANTS
  None,
  Items,       \* the Stories, Chapters, ...
  Stems,       \* what titles and typed slugs normalise to
  MaxAttempts  \* MAX_SLUG_ATTEMPTS

VARIABLES
  targetType,  \* of whatever the scope holds
  slug,        \* the slug of every live row
  retired,     \* storytime_slug_history: whose each retired slug was
  known        \* history: the addresses an item has been reached at

vars == <<targetType, slug, retired, known>>

TargetTypes == {"STORY", "CHAPTER", "CHARACTER", "ARC", "SPOTLIGHT"}

Slugs == Stems \cup {Append(s, n) : s \in Stems, n \in 2..MaxAttempts}

\* buildCandidate.
Candidate(stem, attempt) == IF attempt = 1 THEN stem ELSE Append(stem, attempt)

\* isSlugTaken: by another row that is not deleted.
TakenLive(i, s) == \E j \in Items \ {i} : slug[j] = s

\* Mutant of Taken: the history is not asked.
TakenNow(i, s) == TakenLive(i, s)

\* isTaken: now, or by anything in the past, the item itself included.
Taken(i, s) == TakenLive(i, s) \/ retired[s] # None

FreeAttempts(i, stem) == {n \in 1..MaxAttempts : ~Taken(i, Candidate(stem, n))}

\* generateUniqueSlug: the first free candidate.
Generated(i, stem) ==
  Candidate(stem, CHOOSE n \in FreeAttempts(i, stem) : \A m \in FreeAttempts(i, stem) : n <= m)

Create(i, stem) ==
  /\ slug[i] = None /\ known[i] = {}
  /\ FreeAttempts(i, stem) # {}
  /\ slug' = [slug EXCEPT ![i] = Generated(i, stem)]
  /\ known' = [known EXCEPT ![i] = {slug'[i]}]
  /\ UNCHANGED <<targetType, retired>>

\* recordRetiredSlug, which leaves a slug that is recorded already alone.
Recorded(i, previous, current) ==
  IF previous = current \/ retired[previous] # None THEN retired
  ELSE [retired EXCEPT ![previous] = i]

\* The slug is generated again, and what it was before is recorded.
Resolved(i, stem) ==
  /\ slug[i] # None
  /\ FreeAttempts(i, stem) # {}
  /\ slug' = [slug EXCEPT ![i] = Generated(i, stem)]
  /\ retired' = Recorded(i, slug[i], slug'[i])
  /\ known' = [known EXCEPT ![i] = @ \cup {slug'[i]}]
  /\ UNCHANGED targetType

\* update of a Story, a Chapter or an Arc with a title or a slug in it.
Rename(i, stem) == targetType \in {"STORY", "CHAPTER", "ARC"} /\ Resolved(i, stem)

\* update of a Character or a spotlight: only a slug that was typed, and differs.
Retype(i, stem) ==
  targetType \in {"CHARACTER", "SPOTLIGHT"} /\ stem # slug[i] /\ Resolved(i, stem)

\* A deleted row is out of the index; its history stays.
Delete(i) ==
  /\ slug[i] # None
  /\ slug' = [slug EXCEPT ![i] = None]
  /\ UNCHANGED <<targetType, retired, known>>

Init ==
  /\ targetType \in TargetTypes
  /\ slug = [i \in Items |-> None]
  /\ retired = [s \in Slugs |-> None]
  /\ known = [i \in Items |-> {}]

Next == \E i \in Items :
  \/ \E stem \in Stems : Create(i, stem) \/ Rename(i, stem) \/ Retype(i, stem)
  \/ Delete(i)

Spec == Init /\ [][Next]_vars

--------------------------------------------------------------------------------
(* Properties.                                                              *)

\* Where an address leads: findPublicBySlug of each, and behind it, for a Story
\* alone, findPublicByRetiredSlug, which looks for its row.
LeadsTo(s) ==
  IF \E i \in Items : slug[i] = s THEN CHOOSE i \in Items : slug[i] = s
  ELSE IF targetType = "STORY" /\ retired[s] # None /\ slug[retired[s]] # None THEN retired[s]
  ELSE None

\* A link that was shared never leads to somebody else's while its own is there,
\* through any number of renames, deletions of other items, and titles that come
\* to the same slug: a Story's leads to the Story, and of anything else at least
\* the address it has now.  An address given up in a rename goes to no other item
\* even once its own is deleted; the one an item was deleted under may.
LinksKeepLeading ==
  \A i \in Items : \A s \in known[i] :
    /\ slug[i] # None => LeadsTo(s) = IF targetType = "STORY" \/ s = slug[i] THEN i ELSE None
    /\ retired[s] = i => LeadsTo(s) \in {i, None}
================================================================================
