---------------------------- MODULE StorytimeCrew ----------------------------
(***************************************************************************)
(* The collaborators of a Story: its owner invites members, with           *)
(* capabilities, managing collaborators among them, and each answers       *)
(* (StorytimeCollaboratorService).  Publishing is the owner's alone.       *)
(*                                                                         *)
(* Every handler reads, decides, and saves the whole row it loaded.        *)
(***************************************************************************)
CONSTANTS
  None,
  Requests,       \* concurrent handlers
  Owner,          \* of the Story
  Collaborators,  \* bound: the members who are invited
  Asked           \* bound: the flags requests carry

VARIABLES
  collaborator,  \* storytime_story_collaborator: one row per member, or None
  hand,          \* the row each handler is about to save
  voiced         \* history: what members were offered by those entitled, and who ever accepted

vars == <<collaborator, hand, voiced>>

Capabilities ==
  {"EDIT_STORY", "MANAGE_CHAPTERS", "MANAGE_CHARACTERS", "MANAGE_CREW", "MANAGE_COLLABORATORS"}
Flags == Capabilities \cup {"PUBLISH"}
Statuses == {"INVITED", "ACCEPTED", "DECLINED", "REVOKED"}
CollaboratorRow == [status : Statuses, can : SUBSET Flags]

Stands(m) == IF collaborator[m] = None THEN "none" ELSE collaborator[m].status

\* Mutant of HasCapability: an invitation is enough.
InvitedWith(a, capability) ==
  a \in Collaborators /\ Stands(a) \in {"INVITED", "ACCEPTED"} /\ capability \in collaborator[a].can

\* StorytimeCollaboratorAccessService: only an accepted collaboration counts.
HasCapability(a, capability) ==
  a \in Collaborators /\ Stands(a) = "ACCEPTED" /\ capability \in collaborator[a].can

MayManage(a) == a = Owner \/ HasCapability(a, "MANAGE_COLLABORATORS")

\* By the history alone: the owner, and whoever took such an offer up.
Entitled(a) ==
  a = Owner \/ (voiced[a].accepted /\ "MANAGE_COLLABORATORS" \in voiced[a].offered)

Saving(r, m, row) ==
  /\ hand[r] = None
  /\ hand' = [hand EXCEPT ![r] = [member |-> m, fresh |-> collaborator[m] = None, row |-> row]]
  /\ UNCHANGED collaborator

\* Whatever the request says, canPublish is not granted.
Granted(asked) == asked \ {"PUBLISH"}

Offer(a, m, can) ==
  voiced' = IF Entitled(a) THEN [voiced EXCEPT ![m].offered = @ \cup can] ELSE voiced

InviteCollaborator(r, a, m, asked) ==
  /\ MayManage(a) /\ m # Owner /\ Stands(m) \notin {"INVITED", "ACCEPTED"}
  /\ Saving(r, m, [status |-> "INVITED", can |-> Granted(asked)])
  /\ Offer(a, m, Granted(asked))

\* The flags the request does not clear are kept.
UpdateCollaborator(r, a, m, asked) ==
  /\ Stands(m) # "none" /\ MayManage(a)
  /\ \E kept \in SUBSET collaborator[m].can :
       Saving(r, m, [collaborator[m] EXCEPT !.can = kept \cup Granted(asked)])
  /\ Offer(a, m, Granted(asked))

\* findInvitedForUserOrFail.
Accept(r, m) ==
  /\ Stands(m) = "INVITED"
  /\ Saving(r, m, [collaborator[m] EXCEPT !.status = "ACCEPTED"])
  /\ voiced' = [voiced EXCEPT ![m].accepted = TRUE]

Decline(r, m) ==
  /\ Stands(m) = "INVITED"
  /\ Saving(r, m, [collaborator[m] EXCEPT !.status = "DECLINED"])
  /\ UNCHANGED voiced

\* Members may always show themselves out.
RevokeCollaborator(r, a, m) ==
  /\ Stands(m) # "none" /\ (a = m \/ MayManage(a))
  /\ Saving(r, m, [collaborator[m] EXCEPT !.status = "REVOKED"])
  /\ UNCHANGED voiced

\* UQ_storytime_story_collaborator refuses a second row of a member, and
\* CHK_storytime_collaborator_no_publish one that may publish.
SaveCollaborator(r) ==
  /\ hand[r] # None
  /\ LET h == hand[r] IN
     collaborator' = IF (h.fresh /\ collaborator[h.member] # None) \/ "PUBLISH" \in h.row.can
                     THEN collaborator ELSE [collaborator EXCEPT ![h.member] = h.row]
  /\ hand' = [hand EXCEPT ![r] = None]
  /\ UNCHANGED voiced

Init ==
  /\ collaborator = [m \in Collaborators |-> None]
  /\ hand = [r \in Requests |-> None]
  /\ voiced = [m \in Collaborators |-> [offered |-> {}, accepted |-> FALSE]]

Handle(r) ==
  \/ \E a \in Collaborators \cup {Owner}, m \in Collaborators :
       \/ \E asked \in Asked : InviteCollaborator(r, a, m, asked) \/ UpdateCollaborator(r, a, m, asked)
       \/ RevokeCollaborator(r, a, m)
  \/ \E m \in Collaborators : Accept(r, m) \/ Decline(r, m)
  \/ SaveCollaborator(r)

Next == \E r \in Requests : Handle(r)

Spec == Init /\ [][Next]_vars

--------------------------------------------------------------------------------
(* Properties.                                                              *)

TypeOK ==
  /\ collaborator \in [Collaborators -> CollaboratorRow \cup {None}]
  /\ \A r \in Requests : hand[r] # None => hand[r].member \in Collaborators /\ hand[r].row \in CollaboratorRow

\* Nobody works on a Story who never accepted an invitation to it, nor with a
\* capability that was not offered to them by the owner, or by somebody who had it
\* in this way themselves to manage collaborators; nobody but the owner publishes.
\* Whatever stale rows invitations, answers, changes and revocations write back.
WorksByConsent ==
  \A m \in Collaborators : Stands(m) = "ACCEPTED" =>
    /\ voiced[m].accepted
    /\ collaborator[m].can \subseteq voiced[m].offered \cap Capabilities
================================================================================
