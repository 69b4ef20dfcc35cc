---------------------------- MODULE StorytimeOrder ----------------------------
(***************************************************************************)
(* The order of one collection: a member's Stories, the Chapters of a      *)
(* Story, the videos of a Chapter, the Stories of an Arc, the Characters   *)
(* of a Story, or the children of a custom tracking definition.  A place   *)
(* counts in steps of ORDER_INDEX_GAP, and 0 is before the first.  Some    *)
(* tables have a unique index over the places of their live rows, checked  *)
(* by PostgreSQL as each row is updated.                                   *)
(***************************************************************************)
EXTENDS Naturals, FiniteSets, SequencesExt

CONSTANTS
  None,
  Items,     \* the members of the collection
  Kinds,     \* the collections exercised
  MaxPlace   \* bound on the places

VARIABLES
  kind,      \* which collection this is
  place,     \* the place of every row that is there
  joined,    \* the items in the collection: an Arc keeps the row of one that left
  asked      \* history: the order last asked for, until the collection changes

vars == <<kind, place, joined, asked>>

\* UQ_storytime_story_owner_order, UQ_storytime_chapter_order,
\* UQ_storytime_chapter_media_order and UQ_storytime_arc_story_order.
Indexed == {"stories", "chapters", "videos", "memberships"}

\* Reordered by saving the rows as they were loaded; elsewhere as they are asked for.
SavedAsLoaded == {"stories", "chapters"}

There == {i \in Items : place[i] # None}
Places == {place[i] : i \in There}

\* Mutant of NextPlace: a collection of n rows continues with n + 1.
NextByCount(S) == Cardinality(S) + 1

\* nextIndex: after the highest place in use.
NextPlace(S) == IF S = {} THEN 1 ELSE Max(S) + 1

\* create, add, open: a new row at the end.
Add(i) ==
  LET next == NextPlace(Places) IN
  /\ place[i] = None /\ next <= MaxPlace
  /\ place' = [place EXCEPT ![i] = next]
  /\ joined' = joined \cup {i}
  /\ asked' = <<>>
  /\ UNCHANGED kind

\* Deleted rows are out of the queries and out of the index.
Delete(i) ==
  /\ kind # "memberships" /\ i \in joined
  /\ place' = [place EXCEPT ![i] = None]
  /\ joined' = joined \ {i}
  /\ asked' = <<>>
  /\ UNCHANGED kind

\* A Story that leaves an Arc keeps its row and its place, and returns to it.
Leave(i) ==
  /\ kind = "memberships" /\ i \in joined
  /\ joined' = joined \ {i}
  /\ asked' = <<>>
  /\ UNCHANGED <<kind, place>>

Reopen(i) ==
  /\ kind = "memberships" /\ i \in There \ joined
  /\ joined' = joined \cup {i}
  /\ asked' = <<>>
  /\ UNCHANGED <<kind, place>>

InOrder(S) == SetToSortSeq(S, LAMBDA i, j : place[i] < place[j])

\* renumber: an item's place is its position in the order.
Renumbered(order, i) == CHOOSE p \in DOMAIN order : order[p] = i

\* The items whose rows the transaction has updated when it comes to an item's.
Updated(order, i) ==
  {j \in joined : IF kind \in SavedAsLoaded THEN place[j] < place[i]
                  ELSE Renumbered(order, j) < Renumbered(order, i)}

\* The index refuses an item's row: its place is still one of a row that waits, or
\* of one that stays as it is.
Refuses(order, i) ==
  /\ kind \in Indexed
  /\ \E j \in Items \ (Updated(order, i) \cup {i}) : place[j] = Renumbered(order, i)

\* reorder: the list names every item of the collection exactly once.
Reorder(order) ==
  /\ place' = IF \E i \in joined : Refuses(order, i) THEN place
              ELSE [i \in Items |-> IF i \in joined THEN Renumbered(order, i) ELSE place[i]]
  /\ asked' = order
  /\ UNCHANGED <<kind, joined>>

Init ==
  /\ kind \in Kinds
  /\ place = [i \in Items |-> None] /\ joined = {} /\ asked = <<>>

Next ==
  \/ \E i \in Items : Add(i) \/ Delete(i) \/ Leave(i) \/ Reopen(i)
  \/ joined # {} /\ \E order \in SetToSeqs(joined) : Reorder(order)

Spec == Init /\ [][Next]_vars

--------------------------------------------------------------------------------
(* Properties.                                                              *)

\* No two rows share a place and the next one is free, so that a collection has
\* one order and is always extended: also where no index says so, after any
\* reordering, and with the places of Stories that left an Arc still taken.
PlacesApart ==
  /\ Cardinality(Places) = Cardinality(There)
  /\ NextPlace(Places) \notin Places

\* What the comments on reorder promise: the collection ends up in the order
\* its owner asked for.
OrderAsAsked == asked # <<>> => InOrder(joined) = asked
================================================================================
