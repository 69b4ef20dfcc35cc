------------------------ MODULE StorytimeReadingLists ------------------------
(***************************************************************************)
(* One reading list of a member (StorytimeReadingListService): the Stories *)
(* and Arcs on it, their order, and the count kept on the list.  A work    *)
(* may be withdrawn and come back, and is gone for good, with the items    *)
(* that name it, when the account of its owner is purged.                  *)
(***************************************************************************)
EXTENDS Naturals, FiniteSets, SequencesExt

CONSTANTS
  None,
  Works,      \* Stories and Arcs
  MaxItems,   \* MAX_LIST_ITEMS
  MaxIndex    \* bound on the order indexes

VARIABLES
  list,       \* the list's row, or None
  index,      \* orderIndex of the item of every work, or None
  shelf,      \* how every work stands: "readable", "withdrawn" or "gone"
  lost        \* history: the items purged since the list was last counted

vars == <<list, index, shelf, lost>>

ListRow == [isPublic : BOOLEAN, itemCount : Nat, deleted : BOOLEAN]

Held == {w \in Works : index[w] # None}
Indexes == {index[w] : w \in Held}
Open == list # None /\ ~list.deleted

\* nextIndex: from 0.
NextIndex == IF Held = {} THEN 0 ELSE Max(Indexes) + 1

\* recount: the items there are now, saved on the list.
Recount(rows) ==
  /\ list' = [list EXCEPT !.itemCount = Cardinality({w \in Works : rows[w] # None})]
  /\ lost' = 0

CreateList(public) ==
  /\ list = None
  /\ list' = [isPublic |-> public, itemCount |-> 0, deleted |-> FALSE]
  /\ UNCHANGED <<index, shelf, lost>>

UpdateList(public) ==
  /\ Open
  /\ list' = [list EXCEPT !.isPublic = public]
  /\ UNCHANGED <<index, shelf, lost>>

\* The items keep naming their works.
RemoveList ==
  /\ Open
  /\ list' = [list EXCEPT !.deleted = TRUE]
  /\ UNCHANGED <<index, shelf, lost>>

\* A work that is on the list already only gets a new note.
AddItem(w) ==
  /\ Open /\ shelf[w] = "readable"
  /\ index[w] = None /\ list.itemCount < MaxItems /\ NextIndex <= MaxIndex
  /\ index' = [index EXCEPT ![w] = NextIndex]
  /\ Recount(index')
  /\ UNCHANGED shelf

\* Whether or not it can still be read.
RemoveItem(w) ==
  /\ Open /\ w \in Held
  /\ index' = [index EXCEPT ![w] = None]
  /\ Recount(index')
  /\ UNCHANGED shelf

\* The list of every item exactly once.
ReorderItems(order) ==
  /\ Open
  /\ index' = [w \in Works |-> IF w \in Held THEN (CHOOSE p \in DOMAIN order : order[p] = w) - 1
                               ELSE None]
  /\ UNCHANGED <<list, shelf, lost>>

Withdraw(w) ==
  /\ shelf[w] = "readable" /\ shelf' = [shelf EXCEPT ![w] = "withdrawn"]
  /\ UNCHANGED <<list, index, lost>>

Return(w) ==
  /\ shelf[w] = "withdrawn" /\ shelf' = [shelf EXCEPT ![w] = "readable"]
  /\ UNCHANGED <<list, index, lost>>

\* ON DELETE CASCADE: nobody recounts.
PurgeWork(w) ==
  /\ shelf[w] # "gone" /\ shelf' = [shelf EXCEPT ![w] = "gone"]
  /\ index' = [index EXCEPT ![w] = None]
  /\ lost' = lost + Cardinality({w} \cap Held)
  /\ UNCHANGED list

Init ==
  /\ list = None /\ index = [w \in Works |-> None]
  /\ shelf = [w \in Works |-> "readable"] /\ lost = 0

Next ==
  \/ \E public \in BOOLEAN : CreateList(public) \/ UpdateList(public)
  \/ RemoveList
  \/ \E w \in Works : AddItem(w) \/ RemoveItem(w) \/ Withdraw(w) \/ Return(w) \/ PurgeWork(w)
  \/ Held # {} /\ \E order \in SetToSeqs(Held) : ReorderItems(order)

Spec == Init /\ [][Next]_vars

--------------------------------------------------------------------------------
(* Properties.                                                              *)

\* The count a list shows, and is limited by, is the number of its items, but for
\* those whose works were purged since it was last changed: a list never holds
\* more than it may, and every change makes up for the purges before it.  Its
\* items keep distinct places, whatever was reordered, removed or purged between.
ListCounted ==
  list # None =>
    /\ list.itemCount = Cardinality(Held) + lost
    /\ Cardinality(Held) <= MaxItems
    /\ Cardinality(Indexes) = Cardinality(Held)
================================================================================
