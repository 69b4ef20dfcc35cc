-------------------------- MODULE StorytimeSpotlight ---------------------------
(***************************************************************************)
(* The Storytime Spotlight (StorytimeSpotlightService): editors feature a  *)
(* work for a period, readers see the entries that are showing and those   *)
(* that have finished, and open either by its address.  The schedule is     *)
(* judged when a page is read; the work may be taken down in the meantime. *)
(***************************************************************************)
EXTENDS Naturals

CONSTANTS
  None,
  Entries, Works,
  MaxDate      \* bound on the clock and on the dates of a period

VARIABLES
  entry,       \* None, or [work, startsAt, endsAt, isPublished]; a deleted one is None
  work,        \* "listed", "unlisted" (readable by its link) or "gone"
  date         \* the clock

vars == <<entry, work, date>>

Dates == 0..MaxDate
Ends  == Dates \cup {None}
SpotlightRow == [work : Works, startsAt : Dates, endsAt : Ends, isPublished : BOOLEAN]

AssertPeriod(startsAt, endsAt) == endsAt # None => endsAt > startsAt

\* findPublicByIds, then firstListed or listedById: unlisted is not featured.
Listed(w) == work[w] = "listed"

Featurable(w) == Listed(w)

\* Drafted whatever else it says.
Create(e, w, startsAt, endsAt) ==
  /\ entry[e] = None
  /\ AssertPeriod(startsAt, endsAt) /\ Featurable(w)
  /\ entry' = [entry EXCEPT ![e] = [work |-> w, startsAt |-> startsAt, endsAt |-> endsAt,
                                    isPublished |-> FALSE]]
  /\ UNCHANGED <<work, date>>

\* Mutant of Update: the period is judged by what the request gives of it.
UpdateGiven(e, w, startsAt, endsAt, isPublished) ==
  /\ entry[e] # None
  /\ startsAt # entry[e].startsAt /\ endsAt # entry[e].endsAt => AssertPeriod(startsAt, endsAt)
  /\ Featurable(w)
  /\ entry' = [entry EXCEPT ![e] = [work |-> w, startsAt |-> startsAt, endsAt |-> endsAt,
                                    isPublished |-> isPublished]]
  /\ UNCHANGED <<work, date>>

\* What the request leaves out stays as it is; the period is judged as a whole.
Update(e, w, startsAt, endsAt, isPublished) ==
  /\ entry[e] # None
  /\ AssertPeriod(startsAt, endsAt) /\ Featurable(w)
  /\ entry' = [entry EXCEPT ![e] = [work |-> w, startsAt |-> startsAt, endsAt |-> endsAt,
                                    isPublished |-> isPublished]]
  /\ UNCHANGED <<work, date>>

\* The notice to the author, which goes out the first time, is not modelled.
Publish(e) ==
  /\ entry[e] # None /\ Featurable(entry[e].work)
  /\ entry' = [entry EXCEPT ![e].isPublished = TRUE]
  /\ UNCHANGED <<work, date>>

Unpublish(e) ==
  /\ entry[e] # None
  /\ entry' = [entry EXCEPT ![e].isPublished = FALSE]
  /\ UNCHANGED <<work, date>>

Remove(e) ==
  /\ entry[e] # None
  /\ entry' = [entry EXCEPT ![e] = None]
  /\ UNCHANGED <<work, date>>

\* Publication, visibility and moderation of the works themselves.
WorkChanges(w, to) ==
  /\ work' = [work EXCEPT ![w] = to]
  /\ UNCHANGED <<entry, date>>

Pass == date < MaxDate /\ date' = date + 1 /\ UNCHANGED <<entry, work>>

--------------------------------------------------------------------------------
(* What is read.                                                            *)

Published == {e \in Entries : entry[e] # None /\ entry[e].isPublished}

\* withTargets: an entry whose work cannot be shown is left out.
WithTargets(es) == {e \in es : Listed(entry[e].work)}

FindShowing == WithTargets({e \in Published : /\ entry[e].startsAt <= date
                                              /\ \/ entry[e].endsAt = None
                                                 \/ entry[e].endsAt > date})

FindArchive == WithTargets({e \in Published : entry[e].endsAt # None /\ entry[e].endsAt <= date})

FindBySlug(e) == WithTargets({e} \cap {p \in Published : entry[p].startsAt <= date})

--------------------------------------------------------------------------------

Init ==
  /\ entry = [e \in Entries |-> None]
  /\ work = [w \in Works |-> "listed"]
  /\ date = 0

Next ==
  \/ \E e \in Entries, w \in Works, starts \in Dates, ends \in Ends :
       \/ Create(e, w, starts, ends)
       \/ \E b \in BOOLEAN : Update(e, w, starts, ends, b)
  \/ \E e \in Entries : Publish(e) \/ Unpublish(e) \/ Remove(e)
  \/ \E w \in Works, to \in {"listed", "unlisted", "gone"} : WorkChanges(w, to)
  \/ Pass

Spec == Init /\ [][Next]_vars

--------------------------------------------------------------------------------
(* Properties.                                                              *)

\* The panel and the archive part the entries between them, whatever an editor
\* rescheduled, republished or pointed at another work: every entry whose time has
\* come is on exactly one of the two, and the entries that open by their address
\* are exactly those on either.
EveryEntryInOnePlace ==
  /\ FindShowing \cap FindArchive = {}
  /\ \A e \in Entries : FindBySlug(e) = {e} \cap (FindShowing \cup FindArchive)
================================================================================
