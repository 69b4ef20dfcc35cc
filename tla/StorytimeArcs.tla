---------------------------- MODULE StorytimeArcs ----------------------------
(***************************************************************************)
(* An Arc of Stories: the collaborators its curator invites, the Stories   *)
(* that join it by the agreement of both sides, and its publication.       *)
(* Collaborators of a Story follow the same protocol, with more            *)
(* capabilities.                                                           *)
(*                                                                         *)
(* Every handler reads, decides, and saves the whole row it loaded.        *)
(***************************************************************************)
EXTENDS FiniteSets

CONSTANTS
  None,
  Requests,   \* concurrent handlers
  Members,
  Curator,    \* the Arc's owner
  Stories,
  Author,     \* the owner of every Story
  Collaborators, \* bound: the members who are invited
  Offers      \* bound: the sets of capabilities they are given

VARIABLES
  invitation,  \* storytime_arc_collaborator: one row per member, or None
  membership,  \* storytime_arc_story: one row per Story, or None
  arc,         \* the Arc's own row
  desk,        \* what each handler loaded and is about to save
  consent      \* history: who ever accepted, and the sides that ever agreed

vars == <<invitation, membership, arc, desk, consent>>

Capabilities == {"EDIT_ARC", "MANAGE_STORIES", "MANAGE_COLLABORATORS"}

InvitationRow == [status : {"INVITED", "ACCEPTED", "DECLINED", "REVOKED"}, can : SUBSET Capabilities]
MembershipRow == [status : {"INVITED", "REQUESTED", "APPROVED", "DECLINED", "REMOVED", "WITHDRAWN"}]
ArcRow == [status : {"DRAFT", "PUBLISHED", "UNPUBLISHED"}, deleted : BOOLEAN]

Idle == [table |-> "none", key |-> None, fresh |-> FALSE, row |-> None]
Loaded(table, key, fresh, row) == [table |-> table, key |-> key, fresh |-> fresh, row |-> row]
Hold(r, slot) == desk' = [desk EXCEPT ![r] = slot]
Free(r) == desk[r] = Idle /\ ~arc.deleted

Tables == <<invitation, membership, arc>>

Standing(m) == IF invitation[m] = None THEN "none" ELSE invitation[m].status
Place(s) == IF membership[s] = None THEN "none" ELSE membership[s].status

(***************************************************************************)
(* Collaborators.                                                          *)
(***************************************************************************)
HasCapability(a, cap) ==
  a \in Collaborators /\ Standing(a) = "ACCEPTED" /\ cap \in invitation[a].can

\* findEditableOrFail.
MayEdit(a, cap) == a = Curator \/ HasCapability(a, cap)

\* Mutant of Invite: whom the curator invites is in.
InviteAccepting(r, a, m, can) ==
  /\ Free(r) /\ MayEdit(a, "MANAGE_COLLABORATORS") /\ m # Curator
  /\ Standing(m) \in {"none", "DECLINED", "REVOKED"}
  /\ Hold(r, Loaded("invitation", m, invitation[m] = None,
                    [status |-> IF a = Curator THEN "ACCEPTED" ELSE "INVITED", can |-> can]))
  /\ UNCHANGED <<Tables, consent>>

\* invite: an answered or revoked row is used again.
Invite(r, a, m, can) ==
  /\ Free(r) /\ MayEdit(a, "MANAGE_COLLABORATORS") /\ m # Curator
  /\ Standing(m) \in {"none", "DECLINED", "REVOKED"}
  /\ Hold(r, Loaded("invitation", m, invitation[m] = None, [status |-> "INVITED", can |-> can]))
  /\ UNCHANGED <<Tables, consent>>

UpdateCapabilities(r, a, m, can) ==
  /\ Free(r) /\ invitation[m] # None /\ MayEdit(a, "MANAGE_COLLABORATORS")
  /\ Hold(r, Loaded("invitation", m, FALSE, [invitation[m] EXCEPT !.can = can]))
  /\ UNCHANGED <<Tables, consent>>

\* findInvitedForUserOrFail.
Invited(m) == Standing(m) = "INVITED"

AcceptInvitation(r, m) ==
  /\ Free(r) /\ Invited(m)
  /\ Hold(r, Loaded("invitation", m, FALSE, [invitation[m] EXCEPT !.status = "ACCEPTED"]))
  /\ consent' = consent \cup {m}
  /\ UNCHANGED Tables

DeclineInvitation(r, m) ==
  /\ Free(r) /\ Invited(m)
  /\ Hold(r, Loaded("invitation", m, FALSE, [invitation[m] EXCEPT !.status = "DECLINED"]))
  /\ UNCHANGED <<Tables, consent>>

Revoke(r, a, m) ==
  /\ Free(r) /\ invitation[m] # None
  /\ a = m \/ MayEdit(a, "MANAGE_COLLABORATORS")
  /\ Hold(r, Loaded("invitation", m, FALSE, [invitation[m] EXCEPT !.status = "REVOKED"]))
  /\ UNCHANGED <<Tables, consent>>

(***************************************************************************)
(* Memberships.  A side is "arc" or "story", of one Story.                 *)
(***************************************************************************)
Owns(a, s) == a = Author[s]
Curates(a) == MayEdit(a, "MANAGE_STORIES")

Sides(a, s) == (IF Curates(a) THEN {<<"arc", s>>} ELSE {})
               \cup (IF Owns(a, s) THEN {<<"story", s>>} ELSE {})

\* open: a row that was ended is used again; who is both sides needs nobody.
Open(r, a, s, pending) ==
  /\ Place(s) \notin {"INVITED", "REQUESTED", "APPROVED"}
  /\ Hold(r, Loaded("membership", s, membership[s] = None,
                    [status |-> IF Curates(a) /\ Owns(a, s) THEN "APPROVED" ELSE pending]))
  /\ consent' = consent \cup Sides(a, s)
  /\ UNCHANGED Tables

InviteStory(r, a, s) == Free(r) /\ Curates(a) /\ Open(r, a, s, "INVITED")
RequestStory(r, a, s) == Free(r) /\ Owns(a, s) /\ Open(r, a, s, "REQUESTED")

\* Mutant of TheirDecision: either side may answer.
EitherDecision(a, s) ==
  Place(s) \in {"INVITED", "REQUESTED"} /\ (Owns(a, s) \/ Curates(a))

\* assertTheirDecision: the other side answers.
TheirDecision(a, s) ==
  \/ Place(s) = "INVITED" /\ Owns(a, s)
  \/ Place(s) = "REQUESTED" /\ Curates(a)

ApproveStory(r, a, s) ==
  /\ Free(r) /\ TheirDecision(a, s)
  /\ Hold(r, Loaded("membership", s, FALSE, [status |-> "APPROVED"]))
  /\ consent' = consent \cup Sides(a, s)
  /\ UNCHANGED Tables

DeclineStory(r, a, s) ==
  /\ Free(r) /\ TheirDecision(a, s)
  /\ Hold(r, Loaded("membership", s, FALSE, [status |-> "DECLINED"]))
  /\ UNCHANGED <<Tables, consent>>

Leave(r, a, s) ==
  /\ Free(r) /\ membership[s] # None /\ (Curates(a) \/ Owns(a, s))
  /\ Hold(r, Loaded("membership", s, FALSE, [status |-> IF Curates(a) THEN "REMOVED" ELSE "WITHDRAWN"]))
  /\ UNCHANGED <<Tables, consent>>

\* reorder saves the approved rows it loaded, here one of them.
ReorderStories(r, a, s) ==
  /\ Free(r) /\ Curates(a) /\ Place(s) = "APPROVED"
  /\ Hold(r, Loaded("membership", s, FALSE, [status |-> "APPROVED"]))
  /\ UNCHANGED <<Tables, consent>>

(***************************************************************************)
(* The Arc.                                                                *)
(***************************************************************************)
\* The controller counts the approved Stories; publish loads the Arc later.
CountStories(r) ==
  /\ Free(r) /\ \E s \in Stories : Place(s) = "APPROVED"
  /\ Hold(r, Loaded("count", None, FALSE, None))
  /\ UNCHANGED <<Tables, consent>>

PublishArc(r) ==
  /\ desk[r].table = "count"
  /\ Hold(r, IF arc.deleted \/ arc.status = "PUBLISHED" THEN Idle
             ELSE Loaded("arc", None, FALSE, [arc EXCEPT !.status = "PUBLISHED"]))
  /\ UNCHANGED <<Tables, consent>>

UnpublishArc(r) ==
  /\ Free(r)
  /\ Hold(r, Loaded("arc", None, FALSE, [arc EXCEPT !.status = "UNPUBLISHED"]))
  /\ UNCHANGED <<Tables, consent>>

\* update, setImage and clearImage save the row with other columns changed.
EditArc(r, a) ==
  /\ Free(r) /\ MayEdit(a, "EDIT_ARC")
  /\ Hold(r, Loaded("arc", None, FALSE, arc))
  /\ UNCHANGED <<Tables, consent>>

RemoveArc(r) ==
  /\ Free(r)
  /\ Hold(r, Loaded("arc", "delete", FALSE, arc))
  /\ UNCHANGED <<Tables, consent>>

SoftDeleteArc(r) ==
  /\ desk[r].table = "delete"
  /\ arc' = [arc EXCEPT !.deleted = TRUE]
  /\ Hold(r, Idle)
  /\ UNCHANGED <<invitation, membership, consent>>

\* save of what was loaded; the unique index refuses a second new row.
SaveRow(r) ==
  LET d == desk[r]
      Stored(rows) == IF d.fresh /\ rows[d.key] # None THEN rows
                      ELSE [rows EXCEPT ![d.key] = d.row] IN
  /\ d.table \in {"invitation", "membership", "arc"}
  /\ invitation' = IF d.table = "invitation" THEN Stored(invitation) ELSE invitation
  /\ membership' = IF d.table = "membership" THEN Stored(membership) ELSE membership
  /\ arc' = IF d.table = "arc" THEN d.row ELSE arc
  /\ Hold(r, IF d.key = "delete" THEN Loaded("delete", None, FALSE, None) ELSE Idle)
  /\ UNCHANGED consent

Init ==
  /\ invitation = [m \in Collaborators |-> None]
  /\ membership = [s \in Stories |-> None]
  /\ arc = [status |-> "DRAFT", deleted |-> FALSE]
  /\ desk = [r \in Requests |-> Idle]
  /\ consent = {}

Handle(r) ==
  \/ \E a \in Members, m \in Collaborators :
       \/ \E can \in Offers : Invite(r, a, m, can) \/ UpdateCapabilities(r, a, m, can)
       \/ Revoke(r, a, m)
  \/ \E m \in Collaborators : AcceptInvitation(r, m) \/ DeclineInvitation(r, m)
  \/ \E a \in Members, s \in Stories :
       \/ InviteStory(r, a, s) \/ RequestStory(r, a, s) \/ ApproveStory(r, a, s)
       \/ DeclineStory(r, a, s) \/ Leave(r, a, s) \/ ReorderStories(r, a, s)
  \/ CountStories(r) \/ PublishArc(r) \/ UnpublishArc(r) \/ RemoveArc(r) \/ SoftDeleteArc(r)
  \/ \E a \in Members : EditArc(r, a)
  \/ SaveRow(r)

Next == \E r \in Requests : Handle(r)

Spec == Init /\ [][Next]_vars

(***************************************************************************)
(* Properties.                                                             *)
(***************************************************************************)
TypeOK ==
  /\ invitation \in [Collaborators -> InvitationRow \cup {None}]
  /\ membership \in [Stories -> MembershipRow \cup {None}]
  /\ arc \in ArcRow
  /\ \A r \in Requests : desk[r].table = "invitation" => desk[r].row \in InvitationRow
  /\ \A r \in Requests : desk[r].table = "membership" => desk[r].row \in MembershipRow
  /\ \A r \in Requests : desk[r].table = "arc" => desk[r].row \in ArcRow

\* Nobody works on the Arc who never accepted an invitation, whatever stale rows
\* invitations, answers, changes of capabilities and revocations write back.
AccessAgreed ==
  \A m \in Collaborators :
    Standing(m) = "ACCEPTED" => m \in consent

\* No Story is in the Arc unless both its author and somebody curating the Arc
\* agreed to it, and the Arc never goes out before a Story was in it.
JoinedByBoth ==
  LET agreed == {s \in Stories : <<"arc", s>> \in consent /\ <<"story", s>> \in consent} IN
  /\ \A s \in Stories : Place(s) = "APPROVED" => s \in agreed
  /\ arc.status = "PUBLISHED" => agreed # {}
=============================================================================
