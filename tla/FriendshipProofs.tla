--------------------------- MODULE FriendshipProofs ----------------------------
(***************************************************************************)
(* TLAPS proofs about Friendship, for any number of members, rows, blocks  *)
(* and concurrent handlers.                                                *)
(***************************************************************************)
EXTENDS Friendship, TLAPS

USE FriendAssumption

--------------------------------------------------------------------------------
(* Slots.                                                                  *)

\* The facts about a state that the steps read.
LEMMA StateFacts ==
  ASSUME TypeOK
  PROVE  /\ req \in [Requests -> Slot] /\ \A q \in Requests : req[q] \in Slot /\ Filled(req[q])
         /\ row \in [Rows -> FriendshipRow \cup {None}]
         /\ block \in [Blocks -> BlockRow \cup {None}]
         /\ hist \in History
         /\ \A f \in Rows : Live(row, f) => row[f] \in FriendshipRow
         /\ \A k \in Blocks : Live(block, k) => block[k] \in BlockRow
  BY DEF TypeOK, Live

\* The history a step leaves is well formed.
LEMMA HistoryTyped ==
  ASSUME TypeOK, NEW r \in Requests
  PROVE  /\ Settled(r) \in History
         /\ Written(r) \in History
         /\ \A m, n \in Members : Says(hist, m, n) \in History
<1>1. hist \in History
  BY DEF TypeOK
<1>2. Settled(r) \in History
  BY <1>1 DEF Settled, History
<1>3. Written(r) \in History
  <2>1. (hist.overtaken \/ r \in hist.late) \in BOOLEAN
    BY <1>1 DEF History
  <2>2. Settled(r).overtaken = hist.overtaken
    BY <1>1 DEF Settled, History
  <2> QED
    BY <1>2, <2>1, <2>2 DEF Written, History
<1>4. \A m, n \in Members : Says(hist, m, n) \in History
  BY <1>1 DEF Says, History
<1> QED
  BY <1>2, <1>3, <1>4

\* A slot entering a statement is well formed, the other slots stay filled: no
\* row or block key that is in use becomes free.
LEMMA EnterTyped ==
  ASSUME TypeOK, NEW r \in Requests, NEW slot \in Slot, Enter(r, slot), Filled(slot)',
         \A f \in Rows : row[f] # None => row'[f] # None,
         \A k \in Blocks : block[k] # None => block'[k] # None
  PROVE  req' \in [Requests -> Slot] /\ (\A q \in Requests : Filled(req[q]))'
<1>1. req' \in [Requests -> Slot]
  BY StateFacts DEF Enter
<1>2. \A q \in Requests : req'[q] = IF q = r THEN slot ELSE req[q]
  BY StateFacts DEF Enter
<1>3. \A s \in Slot : Filled(s) => Filled(s)'
  BY DEF Filled
<1>4. ASSUME NEW q \in Requests PROVE Filled(req[q])'
  <2>1. CASE q = r
    <3>1. req'[q] = slot
      BY <1>2, <2>1
    <3> QED
      BY <3>1 DEF Filled
  <2>2. CASE q # r
    <3>1. req'[q] = req[q] /\ Filled(req[q])
      BY <1>2, <2>2, StateFacts
    <3> QED
      BY <3>1 DEF Filled
  <2> QED
    BY <2>1, <2>2
<1> QED
  BY <1>1, <1>4

LEMMA IdleTyped == Idle \in Slot /\ Filled(Idle)
<1>1. Idle \in Slot
  BY DEF Idle, Slot, Pcs
<1>2. Filled(Idle)
  BY DEF Idle, Filled
<1> QED
  BY <1>1, <1>2

\* The tables may change, but no key in use becomes free.
Kept ==
  /\ row' \in [Rows -> FriendshipRow \cup {None}]
  /\ block' \in [Blocks -> BlockRow \cup {None}]
  /\ hist' \in History
  /\ \A f \in Rows : row[f] # None => row'[f] # None
  /\ \A k \in Blocks : block[k] # None => block'[k] # None

\* How every step is shown to keep the types.
LEMMA TypedBy ==
  ASSUME TypeOK, NEW r \in Requests, NEW slot \in Slot, Enter(r, slot), Filled(slot)', Kept
  PROVE  TypeOK'
<1>1. req' \in [Requests -> Slot] /\ (\A q \in Requests : Filled(req[q]))'
  BY EnterTyped DEF Kept
<1> QED
  BY <1>1 DEF TypeOK, Kept

\* A handler that ends.
LEMMA FinishKeeps ==
  ASSUME TypeOK, NEW r \in Requests, Finish(r), Kept
  PROVE  TypeOK'
<1>1. Idle \in Slot
  BY IdleTyped
<1>2. PICK slot \in Slot : slot = Idle
  BY <1>1
<1>3. Filled(slot)'
  BY <1>2 DEF Idle, Filled
<1>4. Enter(r, slot)
  BY <1>2 DEF Finish
<1> QED
  BY <1>3, <1>4, TypedBy

\* A handler that is refused.
LEMMA RefuseKeeps ==
  ASSUME TypeOK, NEW r \in Requests, Refuse(r)
  PROVE  TypeOK'
<1>1. Kept
  BY StateFacts, HistoryTyped DEF Kept, Refuse
<1> QED
  BY <1>1, FinishKeeps DEF Refuse

\* A handler that moves to its next statement with the same slot.
LEMMA GotoKeeps ==
  ASSUME TypeOK, NEW r \in Requests, NEW pc \in Pcs, Goto(r, pc), Kept,
         \/ pc = "insert" /\ At(r, "sendFind")
         \/ pc = "save" /\ At(r, "checkBlock")
         \/ pc = "findPair" /\ (At(r, "insertBlock") \/ At(r, "saveBlock"))
  PROVE  TypeOK'
<1>1. [req[r] EXCEPT !.pc = pc] \in Slot
  BY StateFacts DEF Slot
<1>2. PICK slot \in Slot : slot = [req[r] EXCEPT !.pc = pc]
  BY <1>1
<1>3. /\ slot.pc = pc /\ slot.user = req[r].user /\ slot.other = req[r].other
      /\ slot.id = req[r].id /\ slot.snap = req[r].snap
  BY <1>2, StateFacts DEF Slot
<1>4. Filled(slot)'
  BY <1>3, StateFacts DEF Filled, At
<1>5. Enter(r, slot)
  BY <1>2 DEF Goto, Enter
<1> QED
  BY <1>4, <1>5, TypedBy

LEMMA InitTyped == Init => TypeOK
  BY IdleTyped DEF Init, TypeOK, InitHist, History, Filled, Idle

--------------------------------------------------------------------------------
(* Typing, action by action.                                               *)

\* Steps that write no table leave the keys as they are.
LEMMA QuietKept ==
  ASSUME TypeOK, UNCHANGED <<row, block>>, hist' \in History
  PROVE  Kept
  BY StateFacts DEF Kept

LEMMA SendRequestTyped ==
  ASSUME TypeOK, NEW r \in Requests, SendRequest(r)
  PROVE  TypeOK'
<1>1. PICK u \in Members, v \in Members :
        /\ Enter(r, [Idle EXCEPT !.pc = "sendFind", !.user = u, !.other = v])
        /\ hist' = Says(hist, u, v)
        /\ UNCHANGED <<row, block>>
  BY DEF SendRequest
<1>2. [Idle EXCEPT !.pc = "sendFind", !.user = u, !.other = v] \in Slot
  BY IdleTyped DEF Slot, Pcs
<1>3. PICK slot \in Slot : slot = [Idle EXCEPT !.pc = "sendFind", !.user = u, !.other = v]
  BY <1>2
<1>4. Filled(slot)'
  BY <1>3 DEF Filled, Idle
<1> QED
  BY <1>1, <1>3, <1>4, HistoryTyped, QuietKept, TypedBy

LEMMA SendFindTyped ==
  ASSUME TypeOK, NEW r \in Requests, SendFind(r)
  PROVE  TypeOK'
<1>1. /\ At(r, "sendFind") /\ req[r].user \in Members /\ req[r].other \in Members
  BY StateFacts DEF SendFind, At, Filled
<1>2. CASE Goto(r, "insert") /\ UNCHANGED <<row, block, hist>>
  BY <1>1, <1>2, StateFacts, QuietKept, GotoKeeps DEF Pcs
<1>3. CASE Refuse(r)
  BY <1>3, RefuseKeeps
<1>4. ASSUME NEW f \in Rows, NEW entity \in FriendshipRow,
             Enter(r, [req[r] EXCEPT !.pc = "save", !.id = f, !.snap = entity]),
             UNCHANGED <<row, block, hist>>
      PROVE  TypeOK'
  <2>1. [req[r] EXCEPT !.pc = "save", !.id = f, !.snap = entity] \in Slot
    BY StateFacts DEF Slot, Pcs
  <2>2. PICK slot \in Slot : slot = [req[r] EXCEPT !.pc = "save", !.id = f, !.snap = entity]
    BY <2>1
  <2>3. slot.pc = "save" /\ slot.id = f /\ slot.snap = entity
    BY <2>2, StateFacts DEF Slot
  <2>4. Filled(slot)'
    BY <2>3 DEF Filled
  <2> QED
    BY <1>4, <2>2, <2>4, StateFacts, QuietKept, TypedBy
<1>5. ASSUME NEW f \in LiveBetween(req[r].user, req[r].other), ResolveExisting(r, f)
      PROVE  TypeOK'
  <2>1. f \in Rows /\ row[f] \in FriendshipRow
    BY <1>5, StateFacts DEF LiveBetween
  <2>2. [row[f] EXCEPT !.status = "ACCEPTED"] \in FriendshipRow
    BY <2>1 DEF FriendshipRow, Statuses
  <2>3. [requester |-> req[r].user, addressee |-> req[r].other, status |-> "PENDING",
         deleted |-> FALSE] \in FriendshipRow
    BY <1>1 DEF FriendshipRow, Statuses
  <2> QED
    BY <1>3, <1>4, <1>5, <2>1, <2>2, <2>3 DEF ResolveExisting
<1> QED
  BY <1>2, <1>5 DEF SendFind

LEMMA InsertTyped ==
  ASSUME TypeOK, NEW r \in Requests, InsertRequest(r)
  PROVE  TypeOK'
<1> DEFINE fresh == [requester |-> req[r].user, addressee |-> req[r].other,
                     status |-> "PENDING", deleted |-> FALSE]
<1>1. fresh \in FriendshipRow
  BY StateFacts DEF InsertRequest, At, Filled, FriendshipRow, Statuses
<1>2. CASE Refuse(r)
  BY <1>2, RefuseKeeps
<1>3. ASSUME NEW f \in Rows, row' = [row EXCEPT ![f] = fresh], Finish(r),
             hist' = Written(r), UNCHANGED block
      PROVE  TypeOK'
  <2>1. Kept
    BY <1>1, <1>3, StateFacts, HistoryTyped DEF Kept
  <2> QED
    BY <1>3, <2>1, FinishKeeps
<1> QED
  BY <1>2, <1>3 DEF InsertRequest

LEMMA RespondTyped ==
  ASSUME TypeOK, NEW r \in Requests, Respond(r)
  PROVE  TypeOK'
<1>1. PICK f \in Rows, answer \in {"ACCEPTED", "DECLINED"} :
        /\ Live(row, f)
        /\ Enter(r, [pc |-> "checkBlock", user |-> row[f].addressee, other |-> row[f].requester,
                     id |-> f, snap |-> [row[f] EXCEPT !.status = answer]])
        /\ hist' = IF answer = "ACCEPTED"
                     THEN Says(hist, row[f].addressee, row[f].requester) ELSE hist
        /\ UNCHANGED <<row, block>>
  BY DEF Respond
<1>2. row[f] \in FriendshipRow
  BY <1>1, StateFacts
<1>3. row[f].addressee \in Members /\ row[f].requester \in Members
  BY <1>2 DEF FriendshipRow
<1>4. [row[f] EXCEPT !.status = answer] \in FriendshipRow
  BY <1>2 DEF FriendshipRow, Statuses
<1>5. [pc |-> "checkBlock", user |-> row[f].addressee, other |-> row[f].requester,
       id |-> f, snap |-> [row[f] EXCEPT !.status = answer]] \in Slot
  BY <1>3, <1>4 DEF Slot, Pcs
<1>6. PICK slot \in Slot :
        slot = [pc |-> "checkBlock", user |-> row[f].addressee, other |-> row[f].requester,
                id |-> f, snap |-> [row[f] EXCEPT !.status = answer]]
  BY <1>5
<1>7. Filled(slot)'
  BY <1>3, <1>4, <1>6 DEF Filled
<1>8. hist' \in History
  BY <1>1, <1>3, HistoryTyped, StateFacts
<1> QED
  BY <1>1, <1>6, <1>7, <1>8, QuietKept, TypedBy

LEMMA CheckBlockTyped ==
  ASSUME TypeOK, NEW r \in Requests, CheckBlock(r)
  PROVE  TypeOK'
<1>1. CASE Refuse(r)
  BY <1>1, RefuseKeeps
<1>2. CASE At(r, "checkBlock") /\ Goto(r, "save") /\ UNCHANGED <<row, block, hist>>
  BY <1>2, StateFacts, QuietKept, GotoKeeps DEF Pcs
<1> QED
  BY <1>1, <1>2 DEF CheckBlock

LEMMA SaveRowTyped ==
  ASSUME TypeOK, NEW r \in Requests, SaveRow(r)
  PROVE  TypeOK'
<1>1. req[r].id \in Rows /\ req[r].snap \in FriendshipRow
  BY StateFacts DEF SaveRow, At, Filled
<1>2. CASE Refuse(r)
  BY <1>2, RefuseKeeps
<1>3. CASE /\ row' = [row EXCEPT ![req[r].id] = req[r].snap]
           /\ Finish(r) /\ hist' = Written(r) /\ UNCHANGED block
  <2>1. Kept
    BY <1>1, <1>3, StateFacts, HistoryTyped DEF Kept
  <2> QED
    BY <1>3, <2>1, FinishKeeps
<1> QED
  BY <1>2, <1>3 DEF SaveRow

LEMMA WithdrawTyped ==
  ASSUME TypeOK, NEW r \in Requests, Withdraw(r)
  PROVE  TypeOK'
<1>1. PICK f \in Rows : /\ Live(row, f)
                        /\ \E u \in IF row[f].status = "PENDING" THEN {row[f].requester}
                                                               ELSE PairKey(row[f]) :
                             Enter(r, [Idle EXCEPT !.pc = "softRemove", !.user = u, !.id = f])
  BY DEF Withdraw
<1>2. row[f] \in FriendshipRow /\ row[f] # None
  BY <1>1, StateFacts DEF Live
<1>3. PICK u \in Members :
        Enter(r, [Idle EXCEPT !.pc = "softRemove", !.user = u, !.id = f])
  BY <1>1, <1>2 DEF PairKey, FriendshipRow
<1>4. [Idle EXCEPT !.pc = "softRemove", !.user = u, !.id = f] \in Slot
  BY IdleTyped DEF Slot, Pcs
<1>5. PICK slot \in Slot : slot = [Idle EXCEPT !.pc = "softRemove", !.user = u, !.id = f]
  BY <1>4
<1>6. Filled(slot)'
  BY <1>2, <1>5 DEF Filled, Idle, Withdraw
<1> QED
  BY <1>3, <1>5, <1>6, StateFacts, QuietKept, TypedBy DEF Withdraw

LEMMA SoftRemoveTyped ==
  ASSUME TypeOK, NEW r \in Requests, SoftRemove(r)
  PROVE  TypeOK'
<1>1. req[r].id \in Rows /\ row[req[r].id] \in FriendshipRow
  BY StateFacts DEF SoftRemove, At, Filled
<1>2. [row[req[r].id] EXCEPT !.deleted = TRUE] \in FriendshipRow
  BY <1>1 DEF FriendshipRow
<1>3. row' = [row EXCEPT ![req[r].id] = [row[req[r].id] EXCEPT !.deleted = TRUE]]
  BY DEF SoftRemove
<1>4. Kept
  BY <1>1, <1>2, <1>3, StateFacts, HistoryTyped DEF Kept, SoftRemove
<1> QED
  BY <1>4, FinishKeeps DEF SoftRemove

LEMMA BlockMemberTyped ==
  ASSUME TypeOK, NEW r \in Requests, BlockMember(r)
  PROVE  TypeOK'
<1>1. UNCHANGED <<row, block, hist>>
  BY DEF BlockMember
<1>2. Kept
  BY <1>1, StateFacts, QuietKept
<1>3. ASSUME NEW u \in Members, NEW v \in Members,
             Enter(r, [[Idle EXCEPT !.user = u, !.other = v] EXCEPT !.pc = "insertBlock"])
      PROVE  TypeOK'
  <2>1. [[Idle EXCEPT !.user = u, !.other = v] EXCEPT !.pc = "insertBlock"] \in Slot
    BY IdleTyped DEF Slot, Pcs
  <2>2. PICK slot \in Slot :
          slot = [[Idle EXCEPT !.user = u, !.other = v] EXCEPT !.pc = "insertBlock"]
    BY <2>1
  <2>3. Filled(slot)'
    BY <2>2 DEF Filled, Idle
  <2> QED
    BY <1>2, <1>3, <2>2, <2>3, TypedBy
<1>4. ASSUME NEW u \in Members, NEW v \in Members, NEW k \in Blocks,
             Enter(r, [[Idle EXCEPT !.user = u, !.other = v] EXCEPT !.pc = "saveBlock", !.id = k])
      PROVE  TypeOK'
  <2>1. [[Idle EXCEPT !.user = u, !.other = v] EXCEPT !.pc = "saveBlock", !.id = k] \in Slot
    BY IdleTyped DEF Slot, Pcs
  <2>2. PICK slot \in Slot :
          slot = [[Idle EXCEPT !.user = u, !.other = v] EXCEPT !.pc = "saveBlock", !.id = k]
    BY <2>1
  <2>3. Filled(slot)'
    BY <2>2 DEF Filled, Idle
  <2> QED
    BY <1>2, <1>4, <2>2, <2>3, TypedBy
<1> QED
  BY <1>3, <1>4 DEF BlockMember

LEMMA WriteBlockTyped ==
  ASSUME TypeOK, NEW r \in Requests, WriteBlock(r)
  PROVE  TypeOK'
<1>1. /\ At(r, "insertBlock") \/ At(r, "saveBlock")
      /\ req[r].user \in Members /\ req[r].other \in Members
  BY StateFacts DEF WriteBlock, At, Filled
<1>2. CASE Refuse(r)
  BY <1>2, RefuseKeeps
<1>3. ASSUME NEW k \in Blocks, StoreBlock(r, k), Goto(r, "findPair"), UNCHANGED <<row, hist>>
      PROVE  TypeOK'
  <2>1. [blocker |-> req[r].user, blocked |-> req[r].other, deleted |-> FALSE] \in BlockRow
    BY <1>1 DEF BlockRow
  <2>2. Kept
    BY <1>3, <2>1, StateFacts DEF Kept, StoreBlock
  <2> QED
    BY <1>1, <1>3, <2>2, GotoKeeps DEF Pcs
<1> QED
  BY <1>2, <1>3 DEF WriteBlock

LEMMA FindPairTyped ==
  ASSUME TypeOK, NEW r \in Requests, FindPair(r)
  PROVE  TypeOK'
<1>1. hist' \in History
  BY StateFacts DEF FindPair, History
<1>2. Kept
  BY <1>1, QuietKept DEF FindPair
<1>3. CASE Finish(r)
  BY <1>2, <1>3, FinishKeeps
<1>4. ASSUME NEW f \in LiveBetween(req[r].user, req[r].other),
             Enter(r, [req[r] EXCEPT !.pc = "softRemove", !.id = f])
      PROVE  TypeOK'
  <2>1. f \in Rows /\ row'[f] # None
    BY <1>2, <1>4 DEF LiveBetween, Live, Kept
  <2>2. [req[r] EXCEPT !.pc = "softRemove", !.id = f] \in Slot
    BY <2>1, StateFacts DEF Slot, Pcs
  <2>3. PICK slot \in Slot : slot = [req[r] EXCEPT !.pc = "softRemove", !.id = f]
    BY <2>2
  <2>4. slot.pc = "softRemove" /\ slot.id = f
    BY <2>3, StateFacts DEF Slot
  <2>5. Filled(slot)'
    BY <2>1, <2>4 DEF Filled
  <2> QED
    BY <1>2, <1>4, <2>3, <2>5, TypedBy
<1> QED
  BY <1>3, <1>4 DEF FindPair

LEMMA UnblockTyped ==
  ASSUME TypeOK, NEW r \in Requests, UnblockMember(r)
  PROVE  TypeOK'
<1>1. PICK k \in Blocks :
        /\ Live(block, k)
        /\ Enter(r, [Idle EXCEPT !.pc = "softRemoveBlock", !.user = block[k].blocker, !.id = k])
  BY DEF UnblockMember
<1>2. UNCHANGED <<row, block, hist>>
  BY DEF UnblockMember
<1>3. Kept
  BY <1>2, StateFacts, QuietKept
<1>4. block'[k] # None /\ block[k].blocker \in Members
  BY <1>1, <1>2, StateFacts DEF Live, BlockRow
<1>5. [Idle EXCEPT !.pc = "softRemoveBlock", !.user = block[k].blocker, !.id = k] \in Slot
  BY <1>4, IdleTyped DEF Slot, Pcs
<1>6. PICK slot \in Slot :
        slot = [Idle EXCEPT !.pc = "softRemoveBlock", !.user = block[k].blocker, !.id = k]
  BY <1>5
<1>7. Filled(slot)'
  BY <1>4, <1>6 DEF Filled, Idle
<1> QED
  BY <1>1, <1>3, <1>6, <1>7, TypedBy

LEMMA SoftRemoveBlockTyped ==
  ASSUME TypeOK, NEW r \in Requests, SoftRemoveBlock(r)
  PROVE  TypeOK'
<1>1. req[r].id \in Blocks /\ block[req[r].id] \in BlockRow
  BY StateFacts DEF SoftRemoveBlock, At, Filled
<1>2. [block[req[r].id] EXCEPT !.deleted = TRUE] \in BlockRow
  BY <1>1 DEF BlockRow
<1>3. block' = [block EXCEPT ![req[r].id] = [block[req[r].id] EXCEPT !.deleted = TRUE]]
  BY DEF SoftRemoveBlock
<1>4. Kept
  BY <1>1, <1>2, <1>3, StateFacts, HistoryTyped DEF Kept, SoftRemoveBlock
<1> QED
  BY <1>4, FinishKeeps DEF SoftRemoveBlock

LEMMA StepTyped == TypeOK /\ [Next]_vars => TypeOK'
<1> SUFFICES ASSUME TypeOK, [Next]_vars PROVE TypeOK'
  OBVIOUS
<1>1. CASE UNCHANGED vars
  <2>1. \A s \in Slot : Filled(s) => Filled(s)'
    BY <1>1 DEF vars, Filled
  <2> QED
    BY <1>1, <2>1, StateFacts DEF vars, TypeOK, Filled
<1>2. ASSUME NEW r \in Requests, Step(r) PROVE TypeOK'
  BY <1>2, SendRequestTyped, SendFindTyped, InsertTyped, RespondTyped, CheckBlockTyped,
     SaveRowTyped, WithdrawTyped, SoftRemoveTyped, BlockMemberTyped, WriteBlockTyped,
     FindPairTyped, UnblockTyped, SoftRemoveBlockTyped DEF Step
<1> QED
  BY <1>1, <1>2 DEF Next

\* Friendship's tables and slots keep their shape, and a handler always knows
\* the row it is about to write: the type invariant of Friendship.
THEOREM Typing == Spec => []TypeOK
  BY InitTyped, StepTyped, PTL DEF Spec

--------------------------------------------------------------------------------
(* What a step writes to the friendship table.                             *)

\* Nothing, a live entity the unique index admits, or a removal mark.
Writes(r) ==
  \/ row' = row
  \/ \E f \in Rows, entity \in FriendshipRow :
       /\ row' = [row EXCEPT ![f] = entity] /\ Admits(f, entity)
       /\ \/ At(r, "insert") /\ entity = [requester |-> req[r].user, addressee |-> req[r].other,
                                          status |-> "PENDING", deleted |-> FALSE]
          \/ At(r, "save") /\ entity = req[r].snap
  \/ \E f \in Rows : /\ row[f] \in FriendshipRow
                     /\ row' = [row EXCEPT ![f] = [row[f] EXCEPT !.deleted = TRUE]]

LEMMA StepWrites ==
  ASSUME TypeOK, NEW r \in Requests, Step(r)
  PROVE  Writes(r)
<1>1. CASE InsertRequest(r)
  <2> DEFINE fresh == [requester |-> req[r].user, addressee |-> req[r].other,
                       status |-> "PENDING", deleted |-> FALSE]
  <2>1. At(r, "insert") /\ fresh \in FriendshipRow
    BY <1>1, StateFacts DEF InsertRequest, At, Filled, FriendshipRow, Statuses
  <2>2. CASE Refuse(r)
    BY <2>2 DEF Refuse, Writes
  <2>3. ASSUME NEW f \in Rows, Admits(f, fresh), row' = [row EXCEPT ![f] = fresh]
        PROVE  Writes(r)
    BY <2>1, <2>3 DEF Writes
  <2> QED
    BY <1>1, <2>2, <2>3 DEF InsertRequest
<1>2. CASE SaveRow(r)
  <2>1. At(r, "save") /\ req[r].id \in Rows /\ req[r].snap \in FriendshipRow
    BY <1>2, StateFacts DEF SaveRow, At, Filled
  <2> QED
    BY <1>2, <2>1 DEF SaveRow, Refuse, Writes
<1>3. CASE SoftRemove(r)
  <2>1. req[r].id \in Rows /\ row[req[r].id] \in FriendshipRow
    BY <1>3, StateFacts DEF SoftRemove, At, Filled
  <2>2. row' = [row EXCEPT ![req[r].id] = [row[req[r].id] EXCEPT !.deleted = TRUE]]
    BY <1>3 DEF SoftRemove
  <2> QED
    BY <2>1, <2>2 DEF Writes
<1>4. ASSUME ~InsertRequest(r), ~SaveRow(r), ~SoftRemove(r) PROVE row' = row
  BY <1>4 DEF Step, SendRequest, SendFind, ResolveExisting, Refuse, Respond, CheckBlock,
     Withdraw, BlockMember, WriteBlock, FindPair, UnblockMember, SoftRemoveBlock
<1> QED
  BY <1>1, <1>2, <1>3, <1>4 DEF Writes

--------------------------------------------------------------------------------
(* One live row per pair.                                                  *)

LEMMA PairStep ==
  ASSUME TypeOK, OneRowPerPair, NEW r \in Requests, Writes(r)
  PROVE  OneRowPerPair'
<1>1. CASE row' = row
  BY <1>1 DEF OneRowPerPair, Live
<1>2. ASSUME NEW f \in Rows, NEW entity \in FriendshipRow,
             row' = [row EXCEPT ![f] = entity], Admits(f, entity)
      PROVE  OneRowPerPair'
  BY <1>2, StateFacts DEF OneRowPerPair, Live, Admits, PairKey
<1>3. ASSUME NEW f \in Rows, row[f] \in FriendshipRow,
             row' = [row EXCEPT ![f] = [row[f] EXCEPT !.deleted = TRUE]]
      PROVE  OneRowPerPair'
  <2>1. \A g \in Rows : Live(row', g) => Live(row, g) /\ row'[g] = row[g]
    BY <1>3, StateFacts DEF Live, FriendshipRow
  <2> QED
    BY <2>1 DEF OneRowPerPair, Live
<1> QED
  BY <1>1, <1>2, <1>3 DEF Writes

\* Two members never have two live relations, whoever asked whom and however
\* their requests, answers and blocks interleave.
THEOREM OnePerPair == Spec => []OneRowPerPair
<1>1. Init => OneRowPerPair
  BY DEF Init, OneRowPerPair, Live
<1>2. TypeOK /\ OneRowPerPair /\ [Next]_vars => OneRowPerPair'
  <2> SUFFICES ASSUME TypeOK, OneRowPerPair, [Next]_vars PROVE OneRowPerPair'
    OBVIOUS
  <2>1. CASE UNCHANGED vars
    BY <2>1 DEF vars, OneRowPerPair, Live
  <2>2. CASE Next
    BY <2>2, StepWrites, PairStep DEF Next
  <2> QED
    BY <2>1, <2>2
<1> QED
  BY <1>1, <1>2, Typing, PTL DEF Spec

--------------------------------------------------------------------------------
(* Consent.                                                                *)

\* An entity stands on what its members have said.
Vouched(entity) ==
  /\ <<entity.requester, entity.addressee>> \in hist.asked
  /\ entity.status = "ACCEPTED" => <<entity.addressee, entity.requester>> \in hist.asked

\* Every stored row, and every entity about to be stored, is vouched for.
ConsentInv ==
  /\ \A f \in Rows : row[f] # None => Vouched(row[f])
  /\ \A r \in Requests :
       /\ At(r, "save") \/ At(r, "checkBlock") => Vouched(req[r].snap)
       /\ At(r, "sendFind") \/ At(r, "insert") => <<req[r].user, req[r].other>> \in hist.asked

\* Nothing said is forgotten.
LEMMA AskedGrows ==
  ASSUME TypeOK, NEW r \in Requests, Step(r)
  PROVE  hist.asked \subseteq hist'.asked
<1>1. /\ Settled(r).asked = hist.asked /\ Written(r).asked = hist.asked
      /\ \A m, n : hist.asked \subseteq Says(hist, m, n).asked
  BY StateFacts DEF Settled, Written, Says, History
<1>2. FindPair(r) => hist'.asked = hist.asked
  BY StateFacts DEF FindPair, History
<1> QED
  BY <1>1, <1>2 DEF Step, SendRequest, SendFind, ResolveExisting, InsertRequest, Refuse, Respond,
     CheckBlock, SaveRow, Withdraw, SoftRemove, BlockMember, WriteBlock, UnblockMember,
     SoftRemoveBlock

\* The slot a step leaves is vouched for, and the other slots are untouched.
SlotVouched(r) ==
  /\ \A q \in Requests \ {r} : req'[q] = req[q]
  /\ (At(r, "save") \/ At(r, "checkBlock"))' => Vouched(req[r].snap)'
  /\ (At(r, "sendFind") \/ At(r, "insert"))' =>
       (<<req[r].user, req[r].other>> \in hist.asked)'

\* Steps that end, or move on to a statement that stores no entity.
LEMMA OtherSlots ==
  ASSUME TypeOK, NEW r \in Requests
  PROVE  /\ Finish(r) => SlotVouched(r)
         /\ Goto(r, "findPair") => SlotVouched(r)
         /\ \A slot : (Enter(r, slot) /\ slot.pc \in {"softRemove", "softRemoveBlock",
                                                    "insertBlock", "saveBlock"}) => SlotVouched(r)
  BY StateFacts, IdleTyped DEF Finish, Goto, Enter, SlotVouched, At, Idle, Slot

\* Steps that end, or go on to remove a row or to write or lift a block.
LEMMA LeavesForOther ==
  ASSUME TypeOK, NEW r \in Requests,
         Withdraw(r) \/ BlockMember(r) \/ FindPair(r) \/ UnblockMember(r)
  PROVE  \/ Finish(r)
         \/ \E slot : Enter(r, slot) /\ slot.pc \in {"softRemove", "softRemoveBlock",
                                                     "insertBlock", "saveBlock"}
<1>1. CASE Withdraw(r)
  <2>1. PICK f \in Rows : \E u \in IF row[f].status = "PENDING" THEN {row[f].requester}
                                                                 ELSE PairKey(row[f]) :
          Enter(r, [Idle EXCEPT !.pc = "softRemove", !.user = u, !.id = f])
    BY <1>1 DEF Withdraw
  <2>2. PICK u : Enter(r, [Idle EXCEPT !.pc = "softRemove", !.user = u, !.id = f])
    BY <2>1
  <2>3. [Idle EXCEPT !.pc = "softRemove", !.user = u, !.id = f].pc = "softRemove"
    BY DEF Idle
  <2> QED
    BY <2>2, <2>3
<1>2. CASE BlockMember(r)
  <2>1. PICK u, v, k :
          \/ Enter(r, [[Idle EXCEPT !.user = u, !.other = v] EXCEPT !.pc = "insertBlock"])
          \/ Enter(r, [[Idle EXCEPT !.user = u, !.other = v]
                         EXCEPT !.pc = "saveBlock", !.id = k])
    BY <1>2 DEF BlockMember
  <2>2. /\ [[Idle EXCEPT !.user = u, !.other = v] EXCEPT !.pc = "insertBlock"].pc
             = "insertBlock"
        /\ [[Idle EXCEPT !.user = u, !.other = v] EXCEPT !.pc = "saveBlock", !.id = k].pc
             = "saveBlock"
    BY DEF Idle
  <2> QED
    BY <2>1, <2>2
<1>3. CASE FindPair(r)
  <2>1. ASSUME NEW f
        PROVE  [req[r] EXCEPT !.pc = "softRemove", !.id = f].pc = "softRemove"
    BY StateFacts DEF Slot
  <2> QED
    BY <1>3, <2>1 DEF FindPair
<1>4. CASE UnblockMember(r)
  <2>1. PICK k \in Blocks : Enter(r, [Idle EXCEPT !.pc = "softRemoveBlock",
                                            !.user = block[k].blocker, !.id = k])
    BY <1>4 DEF UnblockMember
  <2>2. [Idle EXCEPT !.pc = "softRemoveBlock", !.user = block[k].blocker, !.id = k].pc
          = "softRemoveBlock"
    BY DEF Idle
  <2> QED
    BY <2>1, <2>2
<1> QED
  BY <1>1, <1>2, <1>3, <1>4

LEMMA SendRequestVouched ==
  ASSUME TypeOK, NEW r \in Requests, SendRequest(r)
  PROVE  SlotVouched(r)
<1>1. PICK u \in Members, v \in Members :
        /\ Enter(r, [Idle EXCEPT !.pc = "sendFind", !.user = u, !.other = v])
        /\ hist' = Says(hist, u, v)
  BY DEF SendRequest
<1>2. <<u, v>> \in hist'.asked
  BY <1>1, StateFacts DEF Says, History
<1> QED
  BY <1>1, <1>2, StateFacts DEF SlotVouched, Enter, At, Idle

LEMMA SendFindVouched ==
  ASSUME TypeOK, ConsentInv, NEW r \in Requests, SendFind(r)
  PROVE  SlotVouched(r)
<1>1. /\ <<req[r].user, req[r].other>> \in hist.asked
      /\ req[r].user \in Members /\ req[r].other \in Members
  BY StateFacts DEF SendFind, ConsentInv, At, Filled
<1>2. CASE Goto(r, "insert") /\ UNCHANGED <<row, block, hist>>
  BY <1>1, <1>2, StateFacts DEF Goto, SlotVouched, At, Slot
<1>3. ASSUME NEW f \in LiveBetween(req[r].user, req[r].other), ResolveExisting(r, f)
      PROVE  SlotVouched(r)
  <2>1. /\ f \in Rows /\ row[f] \in FriendshipRow /\ Vouched(row[f])
        /\ {row[f].requester, row[f].addressee} = {req[r].user, req[r].other}
    BY <1>3, StateFacts DEF LiveBetween, Live, ConsentInv
  <2>2. CASE Refuse(r)
    BY <2>2, OtherSlots DEF Refuse
  <2> DEFINE Saved(entity) ==
        /\ Enter(r, [req[r] EXCEPT !.pc = "save", !.id = f, !.snap = entity])
        /\ UNCHANGED <<row, block, hist>>
  <2>3. ASSUME NEW entity \in FriendshipRow, Saved(entity), Vouched(entity)
        PROVE  SlotVouched(r)
    <3>1. req'[r].pc = "save" /\ req'[r].snap = entity /\ hist' = hist
      BY <2>3, StateFacts DEF Enter, Slot
    <3>2. \A q \in Requests \ {r} : req'[q] = req[q]
      BY <2>3, StateFacts DEF Enter
    <3> QED
      BY <2>3, <3>1, <3>2 DEF SlotVouched, At, Vouched
  <2>4. CASE /\ row[f].status = "PENDING" /\ row[f].requester # req[r].user
             /\ Saved([row[f] EXCEPT !.status = "ACCEPTED"])
    <3> DEFINE entity == [row[f] EXCEPT !.status = "ACCEPTED"]
    <3>1. entity \in FriendshipRow /\ entity.requester = row[f].requester
            /\ entity.addressee = row[f].addressee
      BY <2>1 DEF FriendshipRow, Statuses
    <3>2. entity.requester = req[r].other /\ entity.addressee = req[r].user
      BY <2>1, <2>4, <3>1
    <3>3. Vouched(entity)
      BY <1>1, <2>1, <3>1, <3>2 DEF Vouched
    <3> HIDE DEF entity
    <3> QED
      BY <2>3, <2>4, <3>1, <3>3 DEF entity
  <2>5. CASE Saved([requester |-> req[r].user, addressee |-> req[r].other,
                    status |-> "PENDING", deleted |-> FALSE])
    <3> DEFINE entity == [requester |-> req[r].user, addressee |-> req[r].other,
                          status |-> "PENDING", deleted |-> FALSE]
    <3>1. entity \in FriendshipRow /\ Vouched(entity)
      BY <1>1 DEF FriendshipRow, Statuses, Vouched
    <3> HIDE DEF entity
    <3> QED
      BY <2>3, <2>5, <3>1 DEF entity
  <2> QED
    BY <1>3, <2>2, <2>4, <2>5 DEF ResolveExisting
<1> QED
  BY <1>2, <1>3 DEF SendFind

LEMMA RespondVouched ==
  ASSUME TypeOK, ConsentInv, NEW r \in Requests, Respond(r)
  PROVE  SlotVouched(r)
<1>1. PICK f \in Rows, answer \in {"ACCEPTED", "DECLINED"} :
        /\ Live(row, f) /\ row[f].status = "PENDING"
        /\ Enter(r, [pc |-> "checkBlock", user |-> row[f].addressee, other |-> row[f].requester,
                     id |-> f, snap |-> [row[f] EXCEPT !.status = answer]])
        /\ hist' = IF answer = "ACCEPTED"
                     THEN Says(hist, row[f].addressee, row[f].requester) ELSE hist
  BY DEF Respond
<1>2. row[f] \in FriendshipRow /\ Vouched(row[f])
  BY <1>1, StateFacts DEF Live, ConsentInv
<1> DEFINE entity == [row[f] EXCEPT !.status = answer]
<1>3. /\ entity.requester = row[f].requester /\ entity.addressee = row[f].addressee
      /\ entity.status = answer
  BY <1>2 DEF FriendshipRow
<1>4. /\ hist.asked \subseteq hist'.asked
      /\ answer = "ACCEPTED" => <<row[f].addressee, row[f].requester>> \in hist'.asked
  BY <1>1, StateFacts DEF Says, History
<1>5. Vouched(entity)'
  <2>1. <<row[f].requester, row[f].addressee>> \in hist'.asked
    BY <1>2, <1>4 DEF Vouched
  <2>2. row' = row
    BY DEF Respond
  <2> QED
    BY <1>3, <1>4, <2>1, <2>2 DEF Vouched
<1>6. /\ req'[r].pc = "checkBlock" /\ req'[r].snap = entity
      /\ \A q \in Requests \ {r} : req'[q] = req[q]
  BY <1>1, StateFacts DEF Enter
<1> QED
  BY <1>5, <1>6 DEF SlotVouched, At, Vouched, Respond

LEMMA CheckBlockVouched ==
  ASSUME TypeOK, ConsentInv, NEW r \in Requests, CheckBlock(r)
  PROVE  SlotVouched(r)
<1>1. CASE Refuse(r)
  BY <1>1, OtherSlots DEF Refuse
<1>2. CASE Goto(r, "save") /\ UNCHANGED <<row, block, hist>>
  <2>1. Vouched(req[r].snap)
    BY DEF CheckBlock, ConsentInv
  <2> QED
    BY <1>2, <2>1, StateFacts DEF Goto, SlotVouched, At, Vouched, Slot
<1> QED
  BY <1>1, <1>2 DEF CheckBlock

LEMMA StepVouched ==
  ASSUME TypeOK, ConsentInv, NEW r \in Requests, Step(r)
  PROVE  SlotVouched(r)
<1>1. CASE InsertRequest(r) \/ SaveRow(r) \/ SoftRemove(r) \/ SoftRemoveBlock(r)
  BY <1>1, OtherSlots DEF InsertRequest, SaveRow, SoftRemove, SoftRemoveBlock, Refuse
<1>2. CASE WriteBlock(r)
  BY <1>2, OtherSlots DEF WriteBlock, Refuse
<1>3. CASE Withdraw(r) \/ BlockMember(r) \/ FindPair(r) \/ UnblockMember(r)
  BY <1>3, LeavesForOther, OtherSlots
<1> QED
  BY <1>1, <1>2, <1>3, SendRequestVouched, SendFindVouched, RespondVouched, CheckBlockVouched
     DEF Step

LEMMA ConsentStep ==
  ASSUME TypeOK, ConsentInv, NEW r \in Requests, Step(r)
  PROVE  ConsentInv'
<1>1. hist.asked \subseteq hist'.asked
  BY AskedGrows
<1>2. \A entity : Vouched(entity) =>
        /\ <<entity.requester, entity.addressee>> \in hist'.asked
        /\ entity.status = "ACCEPTED" => <<entity.addressee, entity.requester>> \in hist'.asked
  BY <1>1 DEF Vouched
<1>3. \A f \in Rows : row'[f] # None =>
        /\ <<row'[f].requester, row'[f].addressee>> \in hist'.asked
        /\ row'[f].status = "ACCEPTED" => <<row'[f].addressee, row'[f].requester>> \in hist'.asked
  <2>1. CASE row' = row
    BY <1>2, <2>1 DEF ConsentInv
  <2>2. ASSUME NEW f \in Rows, NEW entity \in FriendshipRow, Vouched(entity),
               row' = [row EXCEPT ![f] = entity], NEW g \in Rows, row'[g] # None
        PROVE  /\ <<row'[g].requester, row'[g].addressee>> \in hist'.asked
               /\ row'[g].status = "ACCEPTED" =>
                    <<row'[g].addressee, row'[g].requester>> \in hist'.asked
    <3>1. Vouched(row'[g])
      BY <2>2, StateFacts DEF ConsentInv
    <3> QED
      BY <1>2, <3>1
  <2>3. ASSUME NEW f \in Rows, NEW entity \in FriendshipRow, row' = [row EXCEPT ![f] = entity],
               \/ At(r, "insert") /\ entity = [requester |-> req[r].user,
                                               addressee |-> req[r].other,
                                               status |-> "PENDING", deleted |-> FALSE]
               \/ At(r, "save") /\ entity = req[r].snap
        PROVE  Vouched(entity)
    <3>1. CASE At(r, "save") /\ entity = req[r].snap
      BY <3>1 DEF ConsentInv
    <3>2. CASE At(r, "insert") /\ entity = [requester |-> req[r].user,
                                            addressee |-> req[r].other,
                                            status |-> "PENDING", deleted |-> FALSE]
      <4>1. <<req[r].user, req[r].other>> \in hist.asked
        BY <3>2 DEF ConsentInv
      <4>2. /\ entity.requester = req[r].user /\ entity.addressee = req[r].other
            /\ entity.status = "PENDING"
        BY <3>2
      <4> QED
        BY <4>1, <4>2 DEF Vouched
    <3> QED
      BY <2>3, <3>1, <3>2
  <2>4. ASSUME NEW f \in Rows, row[f] \in FriendshipRow,
               row' = [row EXCEPT ![f] = [row[f] EXCEPT !.deleted = TRUE]]
        PROVE  [row[f] EXCEPT !.deleted = TRUE] \in FriendshipRow
                 /\ Vouched([row[f] EXCEPT !.deleted = TRUE])
    <3>1. Vouched(row[f])
      BY <2>4 DEF ConsentInv
    <3> QED
      BY <2>4, <3>1 DEF Vouched, FriendshipRow
  <2> QED
    BY <2>1, <2>2, <2>3, <2>4, StepWrites DEF Writes
<1>4. \A q \in Requests :
        /\ (At(q, "save") \/ At(q, "checkBlock"))' => Vouched(req[q].snap)'
        /\ (At(q, "sendFind") \/ At(q, "insert"))' =>
             (<<req[q].user, req[q].other>> \in hist.asked)'
  <2>1. SlotVouched(r)
    BY StepVouched
  <2>2. ASSUME NEW q \in Requests \ {r}
        PROVE  /\ (At(q, "save") \/ At(q, "checkBlock"))' => Vouched(req[q].snap)'
               /\ (At(q, "sendFind") \/ At(q, "insert"))' =>
                    (<<req[q].user, req[q].other>> \in hist.asked)'
    <3>1. req'[q] = req[q]
      BY <2>1 DEF SlotVouched
    <3> QED
      BY <1>1, <1>2, <3>1 DEF ConsentInv, At, Vouched
  <2> QED
    BY <2>1, <2>2 DEF SlotVouched
<1> QED
  BY <1>3, <1>4 DEF ConsentInv, Vouched

\* Nobody is anybody's friend without having asked or accepted, whatever row a
\* handler read before it wrote.
THEOREM Consent == Spec => []FriendsConsented
<1>1. Init => ConsentInv
  BY DEF Init, ConsentInv, At, Idle
<1>2. TypeOK /\ ConsentInv /\ [Next]_vars => ConsentInv'
  <2> SUFFICES ASSUME TypeOK, ConsentInv, [Next]_vars PROVE ConsentInv'
    OBVIOUS
  <2>1. CASE UNCHANGED vars
    BY <2>1 DEF vars, ConsentInv, At, Vouched
  <2>2. CASE Next
    BY <2>2, ConsentStep DEF Next
  <2> QED
    BY <2>1, <2>2
<1>3. ConsentInv => FriendsConsented
  BY DEF ConsentInv, FriendsConsented, Vouched, Live
<1> QED
  BY <1>1, <1>2, <1>3, Typing, PTL DEF Spec

--------------------------------------------------------------------------------
(* Blocks.                                                                 *)

\* The pair a slot works on.
PairOf(slot) == {slot.user, slot.other}

\* A live block stands between the pair.
Blocked(pair) == \E k \in Blocks : Live(block, k) /\ {block[k].blocker, block[k].blocked} = pair

\* A handler whose block is stored has yet to look for the pair's row.
Searching(pair) == \E q \in Requests : At(q, "findPair") /\ PairOf(req[q]) = pair

\* A handler is about to remove row f.
Removing(f) == \E q \in Requests : At(q, "softRemove") /\ req[q].id = f

\* r is on its way to a write and has no look for a block before it.
Writing(r) == At(r, "sendFind") \/ At(r, "insert") \/ At(r, "save")

\* What is saved is of the pair the handler works on.
SnapsOfPair ==
  \A r \in Requests : At(r, "checkBlock") \/ At(r, "save") => PairKey(req[r].snap) = PairOf(req[r])

\* Whoever writes across a block was there when the block's teardown read the
\* pair, or the teardown has not read it yet.
WritersWarned ==
  \A r \in Requests : Writing(r) /\ Blocked(PairOf(req[r])) =>
    r \in hist.late \/ Searching(PairOf(req[r]))

\* A live row across a block is about to be found or to be removed.
RowsDoomed ==
  \A f \in Rows : Live(row, f) /\ Blocked(PairKey(row[f])) =>
    Searching(PairKey(row[f])) \/ Removing(f)

BlockInv == SnapsOfPair /\ WritersWarned /\ (~hist.overtaken => RowsDoomed)

LEMMA OthersStay ==
  ASSUME TypeOK, NEW r \in Requests, Step(r)
  PROVE  \A q \in Requests \ {r} : req'[q] = req[q]
<1>1. \A slot : Enter(r, slot) => \A q \in Requests \ {r} : req'[q] = req[q]
  BY StateFacts DEF Enter
<1>2. \A pc : Goto(r, pc) => \A q \in Requests \ {r} : req'[q] = req[q]
  BY StateFacts DEF Goto
<1> QED
  BY <1>1, <1>2 DEF Step, SendRequest, SendFind, ResolveExisting, InsertRequest, Refuse, Respond,
     CheckBlock, SaveRow, Withdraw, SoftRemove, BlockMember, WriteBlock, FindPair,
     UnblockMember, SoftRemoveBlock, Finish

\* What a step does to the history's other part: a handler that others must warn
\* stays warned until it ends.
LEMMA LateStays ==
  ASSUME TypeOK, NEW r \in Requests, Step(r)
  PROVE  /\ \A q \in Requests \ {r} : q \in hist.late => q \in hist'.late
         /\ hist.overtaken => hist'.overtaken
<1>1. /\ Settled(r).late = hist.late \ {r} /\ Settled(r).overtaken = hist.overtaken
      /\ Written(r).late = hist.late \ {r}
      /\ hist.overtaken => Written(r).overtaken
      /\ \A m, n : Says(hist, m, n).late = hist.late /\ Says(hist, m, n).overtaken = hist.overtaken
  BY StateFacts DEF Settled, Written, Says, History
<1>2. FindPair(r) => /\ \A q \in Requests \ {r} : q \in hist.late => q \in hist'.late
                     /\ hist'.overtaken = hist.overtaken
  BY StateFacts DEF FindPair, History
<1>3. \/ hist' \in {hist, Settled(r), Written(r)}
      \/ \E m, n \in Members : hist' = Says(hist, m, n)
      \/ FindPair(r)
  <2>1. CASE SendRequest(r)
    BY <2>1 DEF SendRequest
  <2>2. CASE Respond(r)
    <3>1. \A f \in Rows : Live(row, f) => row[f].addressee \in Members /\ row[f].requester \in Members
      BY StateFacts DEF FriendshipRow
    <3> QED
      BY <2>2, <3>1 DEF Respond
  <2>3. CASE InsertRequest(r) \/ SaveRow(r) \/ SoftRemove(r) \/ SoftRemoveBlock(r)
    BY <2>3 DEF InsertRequest, SaveRow, SoftRemove, SoftRemoveBlock, Refuse
  <2>4. CASE SendFind(r) \/ CheckBlock(r) \/ Withdraw(r)
    BY <2>4 DEF SendFind, ResolveExisting, CheckBlock, Withdraw, Refuse
  <2>5. CASE BlockMember(r) \/ WriteBlock(r) \/ UnblockMember(r)
    BY <2>5 DEF BlockMember, WriteBlock, UnblockMember, Refuse
  <2> QED
    BY <2>1, <2>2, <2>3, <2>4, <2>5 DEF Step
<1> QED
  BY <1>1, <1>2, <1>3

\* The slot a step leaves to its handler: what it saves is of its pair, and it
\* goes on to a write only across no block, or as it did before.
SlotPaired(r) ==
  /\ (At(r, "checkBlock") \/ At(r, "save"))' => PairKey(req'[r].snap) = PairOf(req'[r])
  /\ Writing(r)' =>
       /\ block' = block /\ hist'.late = hist.late
       /\ Blocked(PairOf(req'[r])) => Writing(r) /\ PairOf(req'[r]) = PairOf(req[r])

LEMMA PairedAway ==
  ASSUME TypeOK, NEW r \in Requests
  PROVE  /\ Finish(r) => SlotPaired(r)
         /\ Goto(r, "findPair") => SlotPaired(r)
         /\ \A slot : (Enter(r, slot) /\ slot.pc \in {"softRemove", "softRemoveBlock",
                                                    "insertBlock", "saveBlock"}) => SlotPaired(r)
  BY StateFacts, IdleTyped DEF Finish, Goto, Enter, SlotPaired, Writing, At, Idle, Slot

LEMMA SendRequestPaired ==
  ASSUME TypeOK, NEW r \in Requests, SendRequest(r)
  PROVE  SlotPaired(r)
<1>1. PICK u \in Members, v \in Members :
        /\ ~BlockedBetween(u, v)
        /\ Enter(r, [Idle EXCEPT !.pc = "sendFind", !.user = u, !.other = v])
        /\ hist' = Says(hist, u, v) /\ block' = block
  BY DEF SendRequest
<1>2. req'[r].pc = "sendFind" /\ PairOf(req'[r]) = {u, v}
  BY <1>1, StateFacts DEF Enter, Idle, PairOf
<1>3. ~Blocked({u, v})
  BY <1>1 DEF BlockedBetween, Blocked
<1>4. hist'.late = hist.late
  BY <1>1, StateFacts DEF Says, History
<1> QED
  BY <1>1, <1>2, <1>3, <1>4 DEF SlotPaired, At

LEMMA SendFindPaired ==
  ASSUME TypeOK, NEW r \in Requests, SendFind(r)
  PROVE  SlotPaired(r)
<1>1. At(r, "sendFind") /\ req[r].user \in Members /\ req[r].other \in Members
  BY StateFacts DEF SendFind, At, Filled
<1>2. CASE Goto(r, "insert") /\ UNCHANGED <<row, block, hist>>
  BY <1>1, <1>2, StateFacts DEF Goto, SlotPaired, Writing, At, Slot, PairOf
<1>3. ASSUME NEW f \in LiveBetween(req[r].user, req[r].other), ResolveExisting(r, f)
      PROVE  SlotPaired(r)
  <2>1. /\ f \in Rows /\ row[f] \in FriendshipRow
        /\ {row[f].requester, row[f].addressee} = {req[r].user, req[r].other}
    BY <1>3, StateFacts DEF LiveBetween, Live
  <2>2. CASE Refuse(r)
    BY <2>2, PairedAway DEF Refuse
  <2>3. ASSUME NEW entity \in FriendshipRow, PairKey(entity) = PairOf(req[r]),
               Enter(r, [req[r] EXCEPT !.pc = "save", !.id = f, !.snap = entity]),
               UNCHANGED <<row, block, hist>>
        PROVE  SlotPaired(r)
    <3>1. /\ req'[r].pc = "save" /\ req'[r].snap = entity
          /\ PairOf(req'[r]) = PairOf(req[r])
      BY <2>3, StateFacts DEF Enter, Slot, PairOf
    <3> QED
      BY <1>1, <2>3, <3>1 DEF SlotPaired, Writing, At
  <2>4. PICK accepted \in FriendshipRow : accepted = [row[f] EXCEPT !.status = "ACCEPTED"]
    BY <2>1 DEF FriendshipRow, Statuses
  <2>5. PairKey(accepted) = PairOf(req[r])
    BY <2>1, <2>4 DEF PairKey, PairOf, FriendshipRow
  <2>6. PICK revived \in FriendshipRow :
          revived = [requester |-> req[r].user, addressee |-> req[r].other,
                     status |-> "PENDING", deleted |-> FALSE]
    BY <1>1 DEF FriendshipRow, Statuses
  <2>7. PairKey(revived) = PairOf(req[r])
    BY <2>6 DEF PairKey, PairOf
  <2> QED
    BY <1>3, <2>2, <2>3, <2>4, <2>5, <2>6, <2>7 DEF ResolveExisting
<1> QED
  BY <1>2, <1>3 DEF SendFind

LEMMA RespondPaired ==
  ASSUME TypeOK, NEW r \in Requests, Respond(r)
  PROVE  SlotPaired(r)
<1>1. PICK f \in Rows, answer \in {"ACCEPTED", "DECLINED"} :
        /\ Live(row, f)
        /\ Enter(r, [pc |-> "checkBlock", user |-> row[f].addressee, other |-> row[f].requester,
                     id |-> f, snap |-> [row[f] EXCEPT !.status = answer]])
  BY DEF Respond
<1>2. row[f] \in FriendshipRow
  BY <1>1, StateFacts
<1>3. /\ req'[r].pc = "checkBlock" /\ req'[r].snap = [row[f] EXCEPT !.status = answer]
      /\ req'[r].user = row[f].addressee /\ req'[r].other = row[f].requester
  BY <1>1, StateFacts DEF Enter
<1>4. PairKey(req'[r].snap) = PairOf(req'[r])
  BY <1>2, <1>3 DEF PairKey, PairOf, FriendshipRow
<1> QED
  BY <1>3, <1>4 DEF SlotPaired, Writing, At

LEMMA CheckBlockPaired ==
  ASSUME TypeOK, SnapsOfPair, NEW r \in Requests, CheckBlock(r)
  PROVE  SlotPaired(r)
<1>1. CASE Refuse(r)
  BY <1>1, PairedAway DEF Refuse
<1>2. CASE /\ ~BlockedBetween(req[r].user, req[r].other) /\ Goto(r, "save")
           /\ UNCHANGED <<row, block, hist>>
  <2>1. PairKey(req[r].snap) = PairOf(req[r])
    BY DEF CheckBlock, SnapsOfPair
  <2>2. ~Blocked(PairOf(req[r]))
    BY <1>2 DEF BlockedBetween, Blocked, PairOf
  <2>3. req'[r].snap = req[r].snap /\ PairOf(req'[r]) = PairOf(req[r])
    BY <1>2, StateFacts DEF Goto, PairOf, Slot
  <2> QED
    BY <1>2, <2>1, <2>2, <2>3 DEF SlotPaired
<1> QED
  BY <1>1, <1>2 DEF CheckBlock

LEMMA StepPaired ==
  ASSUME TypeOK, SnapsOfPair, NEW r \in Requests, Step(r)
  PROVE  SlotPaired(r)
<1>1. CASE InsertRequest(r) \/ SaveRow(r) \/ SoftRemove(r) \/ SoftRemoveBlock(r)
  BY <1>1, PairedAway DEF InsertRequest, SaveRow, SoftRemove, SoftRemoveBlock, Refuse
<1>2. CASE WriteBlock(r)
  BY <1>2, PairedAway DEF WriteBlock, Refuse
<1>3. CASE Withdraw(r) \/ BlockMember(r) \/ FindPair(r) \/ UnblockMember(r)
  BY <1>3, LeavesForOther, PairedAway
<1> QED
  BY <1>1, <1>2, <1>3, SendRequestPaired, SendFindPaired, RespondPaired, CheckBlockPaired DEF Step

\* A pair comes to be blocked only by a handler that goes on to look for its row.
LEMMA BlockedBy ==
  ASSUME TypeOK, NEW r \in Requests, Step(r), NEW pair, Blocked(pair)'
  PROVE  Blocked(pair) \/ Searching(pair)'
<1>1. CASE block' = block
  BY <1>1 DEF Blocked, Live
<1>2. ASSUME WriteBlock(r), ~Refuse(r)
      PROVE  Blocked(pair) \/ Searching(pair)'
  <2>1. PICK k \in Blocks : StoreBlock(r, k) /\ Goto(r, "findPair")
    BY <1>2 DEF WriteBlock
  <2>2. req'[r].pc = "findPair" /\ PairOf(req'[r]) = {req[r].user, req[r].other}
    BY <2>1, StateFacts DEF Goto, PairOf, Slot
  <2>3. block' = [block EXCEPT ![k] = [blocker |-> req[r].user, blocked |-> req[r].other,
                                       deleted |-> FALSE]]
    BY <2>1 DEF StoreBlock
  <2>4. PICK j \in Blocks : Live(block', j) /\ {block'[j].blocker, block'[j].blocked} = pair
    BY DEF Blocked, Live
  <2>5. CASE j = k
    BY <2>2, <2>3, <2>4, <2>5, StateFacts DEF Searching, At
  <2>6. CASE j # k
    BY <2>3, <2>4, <2>6, StateFacts DEF Blocked, Live
  <2> QED
    BY <2>5, <2>6
<1>3. CASE SoftRemoveBlock(r)
  <2>1. req[r].id \in Blocks /\ block[req[r].id] \in BlockRow
    BY <1>3, StateFacts DEF SoftRemoveBlock, At, Filled
  <2>2. block' = [block EXCEPT ![req[r].id] = [block[req[r].id] EXCEPT !.deleted = TRUE]]
    BY <1>3 DEF SoftRemoveBlock
  <2>3. PICK j \in Blocks : Live(block', j) /\ {block'[j].blocker, block'[j].blocked} = pair
    BY DEF Blocked, Live
  <2> QED
    BY <2>1, <2>2, <2>3, StateFacts DEF Blocked, Live, BlockRow
<1>4. CASE Refuse(r)
  BY <1>1, <1>4 DEF Refuse
<1>5. ASSUME ~WriteBlock(r), ~SoftRemoveBlock(r), ~Refuse(r) PROVE block' = block
  BY <1>5 DEF Step, SendRequest, SendFind, ResolveExisting, InsertRequest, Refuse, Respond,
     CheckBlock, SaveRow, Withdraw, SoftRemove, BlockMember, FindPair, UnblockMember
<1> QED
  BY <1>1, <1>2, <1>3, <1>4, <1>5

\* A teardown stops looking for the pair's row only by reading it.
LEMMA SearchEnds ==
  ASSUME TypeOK, NEW r \in Requests, Step(r), NEW pair, Searching(pair)
  PROVE  Searching(pair)' \/ (FindPair(r) /\ PairOf(req[r]) = pair)
<1>1. PICK q \in Requests : At(q, "findPair") /\ PairOf(req[q]) = pair
  BY DEF Searching
<1>2. CASE q # r
  BY <1>1, <1>2, OthersStay DEF Searching, At
<1>3. CASE q = r
  <2>1. FindPair(r)
    BY <1>1, <1>3 DEF Step, SendRequest, SendFind, InsertRequest, Respond, CheckBlock, SaveRow,
       Withdraw, SoftRemove, BlockMember, WriteBlock, UnblockMember, SoftRemoveBlock, At
  <2> QED
    BY <1>1, <1>3, <2>1
<1> QED
  BY <1>2, <1>3

\* ... and whoever is running then is late.
LEMMA ReadersLate ==
  ASSUME TypeOK, NEW r \in Requests, FindPair(r)
  PROVE  \A q \in Requests \ {r} : ~At(q, "idle") => q \in hist'.late
  BY StateFacts DEF FindPair, History

LEMMA PairedStep ==
  ASSUME TypeOK, SnapsOfPair, NEW r \in Requests, Step(r)
  PROVE  SnapsOfPair'
  BY StepPaired, OthersStay DEF SlotPaired, SnapsOfPair, At

LEMMA WarnedStep ==
  ASSUME TypeOK, SnapsOfPair, WritersWarned, NEW r \in Requests, Step(r)
  PROVE  WritersWarned'
<1>1. ASSUME NEW q \in Requests, Writing(q)', NEW pair, pair = PairOf(req'[q]), Blocked(pair)'
      PROVE  q \in hist'.late \/ Searching(pair)'
  <2>1. CASE q = r
    <3>1. /\ block' = block /\ hist'.late = hist.late
          /\ Blocked(pair) => Writing(r) /\ pair = PairOf(req[r])
      BY <1>1, <2>1, StepPaired DEF SlotPaired
    <3>2. Blocked(pair)
      BY <1>1, <3>1 DEF Blocked, Live
    <3>3. r \in hist.late \/ Searching(pair)
      BY <3>1, <3>2 DEF WritersWarned
    <3>4. ~FindPair(r)
      BY <3>1, <3>2 DEF FindPair, Writing, At
    <3> QED
      BY <2>1, <3>1, <3>3, <3>4, SearchEnds
  <2>2. CASE q # r
    <3>1. req'[q] = req[q] /\ Writing(q) /\ pair = PairOf(req[q])
      BY <1>1, <2>2, OthersStay DEF Writing, At
    <3>2. CASE Blocked(pair)
      <4>1. CASE q \in hist.late
        BY <2>2, <4>1, LateStays
      <4>2. CASE Searching(pair) /\ ~FindPair(r)
        BY <4>2, SearchEnds
      <4>3. CASE FindPair(r)
        BY <2>2, <3>1, <4>3, ReadersLate DEF Writing, At
      <4> QED
        BY <3>1, <3>2, <4>1, <4>2, <4>3 DEF WritersWarned
    <3> QED
      BY <1>1, <3>2, BlockedBy
  <2> QED
    BY <2>1, <2>2
<1> QED
  BY <1>1 DEF WritersWarned

\* A row a step brings to life is the entity of its handler, which the history
\* holds against it.
LEMMA Rewrites ==
  ASSUME TypeOK, SnapsOfPair, NEW r \in Requests, Step(r),
         NEW f \in Rows, Live(row', f), row'[f] # row[f]
  PROVE  /\ Writing(r) /\ PairKey(row'[f]) = PairOf(req[r])
         /\ block' = block /\ hist' = Written(r)
<1>1. CASE InsertRequest(r)
  <2> DEFINE fresh == [requester |-> req[r].user, addressee |-> req[r].other,
                       status |-> "PENDING", deleted |-> FALSE]
  <2>1. PICK g \in Rows : /\ row' = [row EXCEPT ![g] = fresh]
                          /\ hist' = Written(r) /\ block' = block
    BY <1>1 DEF InsertRequest, Refuse
  <2>2. row'[f] = fresh
    BY <2>1, StateFacts
  <2>3. PairKey(fresh) = PairOf(req[r])
    BY DEF PairKey, PairOf
  <2> QED
    BY <1>1, <2>1, <2>2, <2>3 DEF InsertRequest, Writing
<1>2. CASE SaveRow(r)
  <2>1. /\ row' = [row EXCEPT ![req[r].id] = req[r].snap]
        /\ hist' = Written(r) /\ block' = block
    BY <1>2 DEF SaveRow, Refuse
  <2>2. row'[f] = req[r].snap
    BY <2>1, StateFacts
  <2>3. PairKey(req[r].snap) = PairOf(req[r])
    BY <1>2 DEF SaveRow, SnapsOfPair
  <2> QED
    BY <1>2, <2>1, <2>2, <2>3 DEF SaveRow, Writing
<1>3. CASE SoftRemove(r)
  <2>1. req[r].id \in Rows /\ row[req[r].id] \in FriendshipRow
    BY <1>3, StateFacts DEF SoftRemove, At, Filled
  <2>2. row' = [row EXCEPT ![req[r].id] = [row[req[r].id] EXCEPT !.deleted = TRUE]]
    BY <1>3 DEF SoftRemove
  <2>3. Live(row', f) => row'[f] = row[f]
    BY <2>1, <2>2, StateFacts DEF Live, FriendshipRow
  <2> QED
    BY <2>3
<1>4. ASSUME ~InsertRequest(r), ~SaveRow(r), ~SoftRemove(r) PROVE row' = row
  BY <1>4 DEF Step, SendRequest, SendFind, ResolveExisting, Refuse, Respond, CheckBlock,
     Withdraw, BlockMember, WriteBlock, FindPair, UnblockMember, SoftRemoveBlock
<1> QED
  BY <1>1, <1>2, <1>3, <1>4

\* Reading the pair's row dooms it: it is the only one.
LEMMA FoundRemoved ==
  ASSUME TypeOK, OneRowPerPair, NEW r \in Requests, FindPair(r),
         NEW f \in Rows, Live(row, f), PairKey(row[f]) = PairOf(req[r])
  PROVE  Removing(f)'
<1>1. f \in LiveBetween(req[r].user, req[r].other)
  BY DEF LiveBetween, PairKey, PairOf
<1>2. \A g \in LiveBetween(req[r].user, req[r].other) : g = f
  BY <1>1 DEF LiveBetween, OneRowPerPair
<1>3. Enter(r, [req[r] EXCEPT !.pc = "softRemove", !.id = f])
  BY <1>1, <1>2 DEF FindPair
<1>4. req'[r].pc = "softRemove" /\ req'[r].id = f
  BY <1>3, StateFacts DEF Enter, Slot
<1> QED
  BY <1>4 DEF Removing, At

LEMMA RemovalEnds ==
  ASSUME TypeOK, NEW r \in Requests, Step(r), NEW f \in Rows, Removing(f)
  PROVE  Removing(f)' \/ ~Live(row', f)
<1>1. PICK q \in Requests : At(q, "softRemove") /\ req[q].id = f
  BY DEF Removing
<1>2. CASE q # r
  BY <1>1, <1>2, OthersStay DEF Removing, At
<1>3. CASE q = r
  <2>1. SoftRemove(r)
    BY <1>1, <1>3 DEF Step, SendRequest, SendFind, InsertRequest, Respond, CheckBlock, SaveRow,
       Withdraw, FindPair, BlockMember, WriteBlock, UnblockMember, SoftRemoveBlock, At
  <2>2. row[f] \in FriendshipRow
    BY <1>1, <1>3, StateFacts DEF At, Filled
  <2>3. row' = [row EXCEPT ![f] = [row[f] EXCEPT !.deleted = TRUE]]
    BY <1>1, <1>3, <2>1 DEF SoftRemove
  <2> QED
    BY <2>2, <2>3, StateFacts DEF Live, FriendshipRow
<1> QED
  BY <1>2, <1>3

LEMMA DoomedStep ==
  ASSUME TypeOK, OneRowPerPair, BlockInv, NEW r \in Requests, Step(r), ~hist'.overtaken
  PROVE  RowsDoomed'
<1>1. ~hist.overtaken /\ RowsDoomed
  BY LateStays DEF BlockInv
<1>2. ASSUME NEW f \in Rows, Live(row', f), NEW pair, pair = PairKey(row'[f]), Blocked(pair)'
      PROVE  Searching(pair)' \/ Removing(f)'
  <2>1. CASE row'[f] = row[f]
    <3>1. Live(row, f) /\ pair = PairKey(row[f])
      BY <1>2, <2>1 DEF Live
    <3>2. CASE Blocked(pair)
      BY <1>1, <1>2, <3>1, <3>2, SearchEnds, FoundRemoved, RemovalEnds DEF RowsDoomed
    <3> QED
      BY <1>2, <3>2, BlockedBy
  <2>2. CASE row'[f] # row[f]
    <3>1. /\ Writing(r) /\ pair = PairOf(req[r])
          /\ block' = block /\ hist' = Written(r)
      BY <1>2, <2>2, Rewrites DEF BlockInv
    <3>2. Blocked(pair)
      BY <1>2, <3>1 DEF Blocked, Live
    <3>3. r \notin hist.late
      BY <3>1, StateFacts DEF Written, Settled, History
    <3>4. Searching(pair)
      BY <3>1, <3>2, <3>3 DEF BlockInv, WritersWarned
    <3>5. ~FindPair(r)
      BY <3>1 DEF FindPair, Writing, At
    <3> QED
      BY <3>4, <3>5, SearchEnds
  <2> QED
    BY <2>1, <2>2
<1> QED
  BY <1>2 DEF RowsDoomed, Live

\* Once every handler has ended, nothing stands across a block but what a handler
\* wrote that was already running when the block's teardown read the pair.
THEOREM BlockHolds == Spec => []BlockHoldsAgainstLaterRequests
<1>1. Init => BlockInv
  BY DEF Init, BlockInv, SnapsOfPair, WritersWarned, RowsDoomed, Writing, At, Idle, Live
<1>2. TypeOK /\ OneRowPerPair /\ BlockInv /\ [Next]_vars => BlockInv'
  <2> SUFFICES ASSUME TypeOK, OneRowPerPair, BlockInv, [Next]_vars PROVE BlockInv'
    OBVIOUS
  <2>1. CASE UNCHANGED vars
    BY <2>1 DEF vars, BlockInv, SnapsOfPair, WritersWarned, RowsDoomed, Writing, At, Live,
       Blocked, Searching, Removing
  <2>2. ASSUME NEW r \in Requests, Step(r) PROVE BlockInv'
    BY <2>2, PairedStep, WarnedStep, DoomedStep DEF BlockInv
  <2> QED
    BY <2>1, <2>2 DEF Next
<1>3. BlockInv => BlockHoldsAgainstLaterRequests
  <2> SUFFICES ASSUME BlockInv, Quiescent, ~hist.overtaken PROVE Apart
    BY DEF BlockHoldsAgainstLaterRequests
  <2>1. \A pair, f : ~Searching(pair) /\ ~Removing(f)
    BY DEF Quiescent, Searching, Removing, At
  <2> QED
    BY <2>1 DEF BlockInv, RowsDoomed, Apart, BlockedBetween, Blocked, PairKey
<1> QED
  BY <1>1, <1>2, <1>3, Typing, OnePerPair, PTL DEF Spec
================================================================================
