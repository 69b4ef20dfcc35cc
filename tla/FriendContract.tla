---------------------------- MODULE FriendContract -----------------------------
(***************************************************************************)
(* What FriendshipService and BlockService promise about every pair of     *)
(* members: one relation per pair, moved by one member's decision at a     *)
(* time, and no relation across a block.                                   *)
(***************************************************************************)
CONSTANTS Members

VARIABLES
  ask,    \* <<m, n>>: m's pending request to n
  no,     \* <<m, n>>: m's request that n declined
  bond,   \* {m, n}: friends
  wall    \* <<m, n>>: m's live block against n

fvars == <<ask, no, bond, wall>>

Apart(m, n) == <<m, n>> \in wall \/ <<n, m>> \in wall
Both(m, n) == {<<m, n>>, <<n, m>>}

FInit == ask = {} /\ no = {} /\ bond = {} /\ wall = {}

\* A request between two members with nothing standing between them; a declined
\* one may be asked again by either side.
Ask(m, n) ==
  /\ ~Apart(m, n) /\ {m, n} \notin bond /\ Both(m, n) \cap ask = {}
  /\ ask' = ask \cup {<<m, n>>}
  /\ no' = no \ Both(m, n)
  /\ UNCHANGED <<bond, wall>>

\* Only the member who was asked can make the pair friends.
Accept(m, n) ==
  /\ <<n, m>> \in ask
  /\ ask' = ask \ {<<n, m>>}
  /\ bond' = bond \cup {{m, n}}
  /\ UNCHANGED <<no, wall>>

Decline(m, n) ==
  /\ <<n, m>> \in ask
  /\ ask' = ask \ {<<n, m>>}
  /\ no' = no \cup {<<n, m>>}
  /\ UNCHANGED <<bond, wall>>

Cancel(m, n) ==
  /\ <<m, n>> \in ask
  /\ ask' = ask \ {<<m, n>>}
  /\ UNCHANGED <<no, bond, wall>>

Part(m, n) ==
  /\ {m, n} \in bond
  /\ bond' = bond \ {{m, n}}
  /\ UNCHANGED <<ask, no, wall>>

\* A block removes whatever stood between the two, for good.
Raise(m, n) ==
  /\ wall' = wall \cup {<<m, n>>}
  /\ ask' = ask \ Both(m, n)
  /\ no' = no \ Both(m, n)
  /\ bond' = bond \ {{m, n}}

\* Lifting a block restores nothing.
Lower(m, n) ==
  /\ wall' = wall \ {<<m, n>>}
  /\ UNCHANGED <<ask, no, bond>>

FNext ==
  \E m \in Members : \E n \in Members \ {m} :
    \/ Ask(m, n) \/ Accept(m, n) \/ Decline(m, n) \/ Cancel(m, n)
    \/ Part(m, n) \/ Raise(m, n) \/ Lower(m, n)

Contract == FInit /\ [][FNext]_fvars
================================================================================
