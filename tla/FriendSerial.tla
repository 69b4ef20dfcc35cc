----------------------------- MODULE FriendSerial ------------------------------
(***************************************************************************)
(* Friendship against FriendContract: with one handler running at a time,  *)
(* the rows read as the contract's relations.  A block counts from the     *)
(* write of its row, whose teardown then only follows.                     *)
(***************************************************************************)
EXTENDS Friendship

Standing(status) ==
  {f \in Rows : /\ Live(row, f) /\ row[f].status = status
                /\ ~BlockedBetween(row[f].requester, row[f].addressee)}

Arrows(status) == {<<row[f].requester, row[f].addressee>> : f \in Standing(status)}

Promise == INSTANCE FriendContract WITH
  ask  <- Arrows("PENDING"),
  no   <- Arrows("DECLINED"),
  bond <- {PairKey(row[f]) : f \in Standing("ACCEPTED")},
  wall <- {<<block[k].blocker, block[k].blocked>> : k \in {j \in Blocks : Live(block, j)}}

\* One at a time, the handlers implement the contract: only the member who was
\* asked makes a friendship, and lifting a block restores nothing.
ImplementsContract == Promise!Contract
================================================================================
