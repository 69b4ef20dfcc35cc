------------------------------ MODULE Friendship -------------------------------
(***************************************************************************)
(* Friend requests and blocks between members (FriendshipService and       *)
(* BlockService): the friendship rows, the user_block rows, and the        *)
(* handlers that read a row, await another query, and write the row back.  *)
(* No handler holds a lock or a transaction; the two partial unique        *)
(* indexes are all the database adds.                                      *)
(***************************************************************************)
EXTENDS FiniteSets

CONSTANTS
  Members,
  Rows,      \* friendship primary keys
  Blocks,    \* user_block primary keys
  Requests,  \* request slots: how many handlers can run at once
  None

Statuses == {"PENDING", "ACCEPTED", "DECLINED"}

FriendshipRow == [requester: Members, addressee: Members, status: Statuses, deleted: BOOLEAN]
BlockRow == [blocker: Members, blocked: Members, deleted: BOOLEAN]

ASSUME FriendAssumption ==
  None \notin Members \cup Rows \cup Blocks \cup FriendshipRow \cup BlockRow

VARIABLES
  row,    \* friendship table
  block,  \* user_block table
  req,    \* the running handlers
  hist    \* history, read by no handler: see InitHist

vars == <<row, block, req, hist>>

\* Where a handler stands: the statement it will execute next.
Pcs == {"idle", "sendFind", "insert", "checkBlock", "save", "softRemove",
        "insertBlock", "saveBlock", "findPair", "softRemoveBlock"}

\* user, other: the pair the handler works on; id: the row it loaded; snap: the
\* entity it will save.
Slot == [pc: Pcs, user: Members \cup {None}, other: Members \cup {None},
         id: Rows \cup Blocks \cup {None}, snap: FriendshipRow \cup {None}]

\* What each statement needs to have been loaded before it.
Filled(slot) ==
  /\ slot.pc \in {"sendFind", "insert", "checkBlock", "insertBlock", "saveBlock", "findPair"} =>
       slot.user \in Members /\ slot.other \in Members
  /\ slot.pc \in {"checkBlock", "save"} => slot.id \in Rows /\ slot.snap \in FriendshipRow
  /\ slot.pc = "softRemove" => slot.id \in Rows /\ row[slot.id] # None
  /\ slot.pc = "saveBlock" => slot.id \in Blocks
  /\ slot.pc = "softRemoveBlock" => slot.id \in Blocks /\ block[slot.id] # None

History == [asked: SUBSET (Members \X Members), late: SUBSET Requests, overtaken: BOOLEAN]

Idle == [pc |-> "idle", user |-> None, other |-> None, id |-> None, snap |-> None]

\* asked: <<m, n>> when m asked n or accepted n's request; late: the handlers
\* that were running when a block's teardown read the pair's row; overtaken:
\* such a handler has written a row since.
InitHist == [asked |-> {}, late |-> {}, overtaken |-> FALSE]

Init ==
  /\ row = [f \in Rows |-> None]
  /\ block = [k \in Blocks |-> None]
  /\ req = [r \in Requests |-> Idle]
  /\ hist = InitHist

TypeOK ==
  /\ row \in [Rows -> FriendshipRow \cup {None}]
  /\ block \in [Blocks -> BlockRow \cup {None}]
  /\ req \in [Requests -> Slot]
  /\ \A r \in Requests : Filled(req[r])
  /\ hist \in History

--------------------------------------------------------------------------------
(* Queries.                                                                *)

Live(table, id) == table[id] # None /\ ~table[id].deleted

\* The key of UQ_friendship_pair: LEAST and GREATEST of the two ids, that is,
\* the unordered pair.
\* Mutant of PairKey: the index is on (requesterId, addresseeId).
PairKeyDirected(entity) == <<entity.requester, entity.addressee>>

PairKey(entity) == {entity.requester, entity.addressee}

LiveBetween(m, n) == {f \in Rows : Live(row, f) /\ {row[f].requester, row[f].addressee} = {m, n}}

\* BlockService.isBlockedBetween: a live block in either direction.
BlockedBetween(m, n) ==
  \E k \in Blocks : Live(block, k) /\ {block[k].blocker, block[k].blocked} = {m, n}

\* A live entity can be written under id f unless the unique index holds its pair.
Admits(f, entity) ==
  \A g \in Rows \ {f} : Live(row, g) => PairKey(row[g]) # PairKey(entity)

\* Live blocks of m against n.
BlocksOf(m, n) ==
  {k \in Blocks : Live(block, k) /\ block[k].blocker = m /\ block[k].blocked = n}

--------------------------------------------------------------------------------
(* Steps of a handler.                                                     *)

At(r, pc) == req[r].pc = pc
Enter(r, slot) == req' = [req EXCEPT ![r] = slot]
Goto(r, pc) == req' = [req EXCEPT ![r].pc = pc]
Finish(r) == Enter(r, Idle)
Settled(r) == [hist EXCEPT !.late = @ \ {r}]

\* A write by a handler that a block's teardown has not seen.
Written(r) == [Settled(r) EXCEPT !.overtaken = @ \/ r \in hist.late]

\* The handler ends without writing: a refusal, or a query that failed.
Refuse(r) == Finish(r) /\ hist' = Settled(r) /\ UNCHANGED <<row, block>>

Says(h, m, n) == [h EXCEPT !.asked = @ \cup {<<m, n>>}]

--------------------------------------------------------------------------------
(* FriendshipService.sendRequest                                           *)

\* The target exists, is visible and is another member; assertNotBlocked.
SendRequest(r) ==
  /\ At(r, "idle")
  /\ \E u \in Members : \E v \in Members \ {u} :
       /\ ~BlockedBetween(u, v)
       /\ Enter(r, [Idle EXCEPT !.pc = "sendFind", !.user = u, !.other = v])
       /\ hist' = Says(hist, u, v)
  /\ UNCHANGED <<row, block>>

\* Mutant of ResolveExisting: a repeat request by the same member completes the pair.
ResolveAnyPending(r, f) ==
  LET me == req[r].user
      them == req[r].other
      Save(entity) == Enter(r, [req[r] EXCEPT !.pc = "save", !.id = f, !.snap = entity])
                      /\ UNCHANGED <<row, block, hist>>
  IN  \/ row[f].status = "ACCEPTED" /\ Refuse(r)
      \/ row[f].status = "PENDING" /\ Save([row[f] EXCEPT !.status = "ACCEPTED"])
      \/ row[f].status = "DECLINED"
         /\ Save([requester |-> me, addressee |-> them, status |-> "PENDING", deleted |-> FALSE])

\* resolveExistingOnRequest: friends and a repeated request are refused, their
\* own request is accepted, a declined row is revived in the caller's direction.
ResolveExisting(r, f) ==
  LET me == req[r].user
      them == req[r].other
      Save(entity) == Enter(r, [req[r] EXCEPT !.pc = "save", !.id = f, !.snap = entity])
                      /\ UNCHANGED <<row, block, hist>>
  IN  \/ row[f].status = "ACCEPTED" /\ Refuse(r)
      \/ row[f].status = "PENDING" /\ row[f].requester = me /\ Refuse(r)
      \/ row[f].status = "PENDING" /\ row[f].requester # me
         /\ Save([row[f] EXCEPT !.status = "ACCEPTED"])
      \/ row[f].status = "DECLINED"
         /\ Save([requester |-> me, addressee |-> them, status |-> "PENDING", deleted |-> FALSE])

\* findFriendshipBetween.
SendFind(r) ==
  /\ At(r, "sendFind")
  /\ LET found == LiveBetween(req[r].user, req[r].other)
     IN  \/ found = {} /\ Goto(r, "insert") /\ UNCHANGED <<row, block, hist>>
         \/ \E f \in found : ResolveExisting(r, f)

InsertRequest(r) ==
  LET fresh == [requester |-> req[r].user, addressee |-> req[r].other,
                status |-> "PENDING", deleted |-> FALSE]
  IN  /\ At(r, "insert")
      /\ \/ \E f \in Rows :
              /\ row[f] = None /\ Admits(f, fresh)
              /\ row' = [row EXCEPT ![f] = fresh]
              /\ Finish(r) /\ hist' = Written(r)
              /\ UNCHANGED block
         \/ /\ LiveBetween(req[r].user, req[r].other) # {}   \* unique violation
            /\ Refuse(r)

--------------------------------------------------------------------------------
(* acceptRequest, declineRequest, cancelRequest, removeFriend              *)

\* requireIncomingRequest loads a pending request addressed to the caller.
Respond(r) ==
  /\ At(r, "idle")
  /\ \E f \in Rows, answer \in {"ACCEPTED", "DECLINED"} :
       /\ Live(row, f) /\ row[f].status = "PENDING"
       /\ Enter(r, [pc |-> "checkBlock", user |-> row[f].addressee, other |-> row[f].requester,
                    id |-> f, snap |-> [row[f] EXCEPT !.status = answer]])
       /\ hist' = IF answer = "ACCEPTED"
                    THEN Says(hist, row[f].addressee, row[f].requester) ELSE hist
  /\ UNCHANGED <<row, block>>

\* Mutant of CheckBlock: the answer is saved without looking for a block.
CheckNothing(r) ==
  /\ At(r, "checkBlock") /\ Goto(r, "save")
  /\ UNCHANGED <<row, block, hist>>

\* ... and refuses it if a block stands between the two.
CheckBlock(r) ==
  /\ At(r, "checkBlock")
  /\ \/ ~BlockedBetween(req[r].user, req[r].other) /\ Goto(r, "save")
        /\ UNCHANGED <<row, block, hist>>
     \/ BlockedBetween(req[r].user, req[r].other) /\ Refuse(r)

\* save(entity) writes the snapshot back, deletedAt = NULL included, unless the
\* unique index refuses the row.
SaveRow(r) ==
  /\ At(r, "save")
  /\ \/ /\ Admits(req[r].id, req[r].snap)
        /\ row' = [row EXCEPT ![req[r].id] = req[r].snap]
        /\ Finish(r) /\ hist' = Written(r)
        /\ UNCHANGED block
     \/ ~Admits(req[r].id, req[r].snap) /\ Refuse(r)

\* cancelRequest (the requester's pending request) and removeFriend (either
\* side of an accepted friendship) load the row they will remove.
Withdraw(r) ==
  /\ At(r, "idle")
  /\ \E f \in Rows :
       /\ Live(row, f) /\ row[f].status \in {"PENDING", "ACCEPTED"}
       /\ \E u \in IF row[f].status = "PENDING" THEN {row[f].requester} ELSE PairKey(row[f]) :
            Enter(r, [Idle EXCEPT !.pc = "softRemove", !.user = u, !.id = f])
  /\ UNCHANGED <<row, block, hist>>

\* Mutant of SoftRemove: the row is deleted, not marked.
RemoveForGood(r) ==
  /\ At(r, "softRemove")
  /\ row' = [row EXCEPT ![req[r].id] = None]
  /\ Finish(r) /\ hist' = Settled(r)
  /\ UNCHANGED block

\* softRemove sets deletedAt by primary key, whatever the row says by now.
SoftRemove(r) ==
  /\ At(r, "softRemove")
  /\ row' = [row EXCEPT ![req[r].id].deleted = TRUE]
  /\ Finish(r) /\ hist' = Settled(r)
  /\ UNCHANGED block

--------------------------------------------------------------------------------
(* BlockService.blockMember and unblockMember                              *)

\* upsertBlock looks for the caller's block, lifted ones included.
BlockMember(r) ==
  /\ At(r, "idle")
  /\ \E u \in Members : \E v \in Members \ {u} :
       LET mine == {k \in Blocks : block[k] # None /\ block[k].blocker = u /\ block[k].blocked = v}
           At0 == [Idle EXCEPT !.user = u, !.other = v]
       IN  \/ mine = {} /\ Enter(r, [At0 EXCEPT !.pc = "insertBlock"])
           \/ \E k \in mine : Enter(r, [At0 EXCEPT !.pc = "saveBlock", !.id = k])
  /\ UNCHANGED <<row, block, hist>>

\* The block row a handler writes: a new one, or the lifted one it loaded.
StoreBlock(r, k) ==
  /\ IF At(r, "insertBlock") THEN block[k] = None ELSE k = req[r].id
  /\ block' = [block EXCEPT
                 ![k] = [blocker |-> req[r].user, blocked |-> req[r].other, deleted |-> FALSE]]

\* Mutant of WriteBlock: the handler ends once the block is stored.
WriteBlockOnly(r) ==
  /\ At(r, "insertBlock") \/ At(r, "saveBlock")
  /\ BlocksOf(req[r].user, req[r].other) \subseteq {req[r].id}
  /\ \E k \in Blocks : StoreBlock(r, k)
  /\ Finish(r) /\ hist' = Settled(r)
  /\ UNCHANGED row

\* The insert, or the save that revives a lifted block; another live block of
\* the same member against the same member makes either fail.
WriteBlock(r) ==
  /\ At(r, "insertBlock") \/ At(r, "saveBlock")
  /\ LET others == BlocksOf(req[r].user, req[r].other) \ {req[r].id}
     IN  \/ others # {} /\ Refuse(r)
         \/ /\ others = {}
            /\ \E k \in Blocks : StoreBlock(r, k)
            /\ Goto(r, "findPair")
            /\ UNCHANGED <<row, hist>>

\* removeFriendshipBetween reads the pair's live row (one at most) and removes it.
FindPair(r) ==
  /\ At(r, "findPair")
  /\ LET found == LiveBetween(req[r].user, req[r].other)
     IN  \/ found = {} /\ Finish(r)
         \/ \E f \in found : Enter(r, [req[r] EXCEPT !.pc = "softRemove", !.id = f])
  /\ hist' = [hist EXCEPT !.late = (@ \cup {q \in Requests : ~At(q, "idle")}) \ {r}]
  /\ UNCHANGED <<row, block>>

UnblockMember(r) ==
  /\ At(r, "idle")
  /\ \E k \in Blocks :
       /\ Live(block, k)
       /\ Enter(r, [Idle EXCEPT !.pc = "softRemoveBlock", !.user = block[k].blocker, !.id = k])
  /\ UNCHANGED <<row, block, hist>>

SoftRemoveBlock(r) ==
  /\ At(r, "softRemoveBlock")
  /\ block' = [block EXCEPT ![req[r].id].deleted = TRUE]
  /\ Finish(r) /\ hist' = Settled(r)
  /\ UNCHANGED row

--------------------------------------------------------------------------------
Step(r) ==
  \/ SendRequest(r) \/ SendFind(r) \/ InsertRequest(r)
  \/ Respond(r) \/ CheckBlock(r) \/ SaveRow(r)
  \/ Withdraw(r) \/ SoftRemove(r)
  \/ BlockMember(r) \/ WriteBlock(r) \/ FindPair(r)
  \/ UnblockMember(r) \/ SoftRemoveBlock(r)

Next == \E r \in Requests : Step(r)

Spec == Init /\ [][Next]_vars

--------------------------------------------------------------------------------
(* Properties.                                                             *)

\* One live row per pair, whoever asked (UQ_friendship_pair): two requests
\* crossing each other never leave two relations behind.
OneRowPerPair ==
  \A f, g \in Rows :
    (Live(row, f) /\ Live(row, g)
      /\ {row[f].requester, row[f].addressee} = {row[g].requester, row[g].addressee}) => f = g

\* Nobody becomes a friend without having asked for it or accepted it.
FriendsConsented ==
  \A f \in Rows :
    (Live(row, f) /\ row[f].status = "ACCEPTED") =>
      {<<row[f].requester, row[f].addressee>>, <<row[f].addressee, row[f].requester>>}
        \subseteq hist.asked

Quiescent == \A r \in Requests : At(r, "idle")

Apart ==
  \A f \in Rows : Live(row, f) => ~BlockedBetween(row[f].requester, row[f].addressee)

\* Once every handler has ended, no friendship or request stands across a block,
\* unless a handler that was already running when the block's teardown read the
\* pair has written a row since: a handler that begins later never does.
BlockHoldsAgainstLaterRequests == (Quiescent /\ ~hist.overtaken) => Apart

\* The same without the exception, as BlockService promises it: "once the block
\* is lifted, the pair starts from a clean slate instead of silently resuming a
\* friendship neither party re-confirmed".
BlockTearsDown == Quiescent => Apart
================================================================================
