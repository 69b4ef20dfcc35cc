----------------------------- MODULE ConsentProofs -----------------------------
(***************************************************************************)
(* TLAPS proofs about what members agree to, with any number of requests   *)
(* at a time: the collaborators and the Stories of an Arc, the             *)
(* collaborators of a Story, and the answers to appeals.  The components   *)
(* are the ones TwoAtATime instantiates.                                   *)
(***************************************************************************)
EXTENDS TwoAtATime, TLAPS

USE NullAssumption, OffersAssumption

--------------------------------------------------------------------------------
(* The Arcs of TwoAtATime behave as StorytimeArcs says.                    *)

LEMMA ArcsSpec == SpecAll => Arcs!Spec
<1>1. InitAll => Arcs!Init
  BY DEF InitAll
<1>2. [NextOfPart]_everything => [Arcs!Next]_(Arcs!vars)
  BY DEF NextOfPart, everything, arcs, Arcs!vars
<1> QED
  BY <1>1, <1>2, PTL DEF SpecAll, Arcs!Spec

\* The Stories both sides agreed to, by what was said, c.
Agreed(c) == {s \in Sagas : <<"arc", s>> \in c /\ <<"story", s>> \in c}

\* What a row says was said: an acceptance by the member, an invitation by the
\* Arc's side, a request by the Story's, an approval by both, and a publication
\* after some Story was in.
InvitationBacked(m, w, c) == w.status = "ACCEPTED" => m \in c

MembershipBacked(s, w, c) ==
  /\ w.status \in {"INVITED", "APPROVED"} => <<"arc", s>> \in c
  /\ w.status \in {"REQUESTED", "APPROVED"} => <<"story", s>> \in c

ArcBacked(w, c) == w.status = "PUBLISHED" => Agreed(c) # {}

\* The same of what a handler holds.
DeskBacked(d, c) ==
  /\ d.table = "invitation" =>
       d.key \in Guests /\ d.row \in Arcs!InvitationRow /\ InvitationBacked(d.key, d.row, c)
  /\ d.table = "membership" =>
       d.key \in Sagas /\ d.row \in Arcs!MembershipRow /\ MembershipBacked(d.key, d.row, c)
  /\ d.table = "arc" => d.row \in Arcs!ArcRow /\ ArcBacked(d.row, c)
  /\ d.table = "count" => Agreed(c) # {}

ArcsInv ==
  /\ invitation \in [Guests -> Arcs!InvitationRow \cup {None}]
  /\ membership \in [Sagas -> Arcs!MembershipRow \cup {None}]
  /\ arc \in Arcs!ArcRow
  /\ desk = [r \in Requests |-> desk[r]]
  /\ \A m \in Guests : invitation[m] # None => InvitationBacked(m, invitation[m], consent)
  /\ \A s \in Sagas : membership[s] # None => MembershipBacked(s, membership[s], consent)
  /\ ArcBacked(arc, consent)
  /\ \A r \in Requests : DeskBacked(desk[r], consent)

LEMMA ArcsInit == Arcs!Init => ArcsInv
  BY DEF Arcs!Init, ArcsInv, Arcs!ArcRow, Arcs!Idle, ArcBacked, DeskBacked

\* Nothing that was said is taken back.
LEMMA BackedStays ==
  ASSUME NEW c, NEW e, c \subseteq e
  PROVE  /\ Agreed(c) \subseteq Agreed(e)
         /\ \A m, w : InvitationBacked(m, w, c) => InvitationBacked(m, w, e)
         /\ \A s, w : MembershipBacked(s, w, c) => MembershipBacked(s, w, e)
         /\ \A w : ArcBacked(w, c) => ArcBacked(w, e)
         /\ \A d : DeskBacked(d, c) => DeskBacked(d, e)
  BY DEF Agreed, InvitationBacked, MembershipBacked, ArcBacked, DeskBacked

\* How the handlers that only load are shown to keep the invariant.
LEMMA HeldBacked ==
  ASSUME ArcsInv, NEW r \in Requests, NEW d, Arcs!Hold(r, d), UNCHANGED Arcs!Tables,
         consent \subseteq consent', DeskBacked(d, consent')
  PROVE  ArcsInv'
<1>1. UNCHANGED <<invitation, membership, arc>>
  BY DEF Arcs!Tables
<1>2. desk' = [desk EXCEPT ![r] = d]
  BY DEF Arcs!Hold
<1>3. \A q \in Requests : desk'[q] = IF q = r THEN d ELSE desk[q]
  BY <1>2 DEF ArcsInv
<1>4. \A q \in Requests : DeskBacked(desk'[q], consent')
  BY <1>3, BackedStays DEF ArcsInv
<1>5. desk' = [q \in Requests |-> desk'[q]]
  BY <1>2 DEF ArcsInv
<1> QED
  BY <1>1, <1>4, <1>5, BackedStays DEF ArcsInv

\* A handler that loads an invitation, a membership or the Arc.
LEMMA LoadedBacked ==
  ASSUME ArcsInv, NEW r \in Requests, NEW kind, NEW key, NEW fresh, NEW w,
         Arcs!Hold(r, Arcs!Loaded(kind, key, fresh, w)), UNCHANGED Arcs!Tables,
         consent \subseteq consent',
         \/ /\ kind = "invitation" /\ key \in Guests /\ w \in Arcs!InvitationRow
            /\ InvitationBacked(key, w, consent')
         \/ /\ kind = "membership" /\ key \in Sagas /\ w \in Arcs!MembershipRow
            /\ MembershipBacked(key, w, consent')
         \/ kind = "arc" /\ w \in Arcs!ArcRow /\ ArcBacked(w, consent')
         \/ kind = "count" /\ Agreed(consent') # {}
         \/ kind \in {"none", "delete"}
  PROVE  ArcsInv'
<1>1. PICK d : d = Arcs!Loaded(kind, key, fresh, w)
  OBVIOUS
<1>2. d.table = kind /\ d.key = key /\ d.row = w
  BY <1>1 DEF Arcs!Loaded
<1>3. DeskBacked(d, consent')
  BY <1>2 DEF DeskBacked
<1> QED
  BY <1>1, <1>3, HeldBacked

LEMMA InvitationsBacked ==
  ASSUME ArcsInv, NEW r \in Requests, NEW m \in Guests,
         \/ \E a \in People, can \in ArcOffers :
              Arcs!Invite(r, a, m, can) \/ Arcs!UpdateCapabilities(r, a, m, can)
         \/ \E a \in People : Arcs!Revoke(r, a, m)
         \/ Arcs!AcceptInvitation(r, m) \/ Arcs!DeclineInvitation(r, m)
  PROVE  ArcsInv'
<1>1. /\ invitation[m] # None => invitation[m] \in Arcs!InvitationRow
      /\ invitation[m] # None => InvitationBacked(m, invitation[m], consent)
  BY DEF ArcsInv
<1>2. ASSUME NEW a \in People, NEW can \in ArcOffers, Arcs!Invite(r, a, m, can)
      PROVE  ArcsInv'
  <2>1. PICK w : w = [status |-> "INVITED", can |-> can]
    OBVIOUS
  <2>2. w \in Arcs!InvitationRow /\ InvitationBacked(m, w, consent')
    BY <2>1 DEF Arcs!InvitationRow, InvitationBacked
  <2> QED
    BY <1>2, <2>1, <2>2, LoadedBacked DEF Arcs!Invite
<1>3. ASSUME NEW a \in People, NEW can \in ArcOffers, Arcs!UpdateCapabilities(r, a, m, can)
      PROVE  ArcsInv'
  <2>1. PICK w : w = [invitation[m] EXCEPT !.can = can]
    OBVIOUS
  <2>2. w \in Arcs!InvitationRow /\ w.status = invitation[m].status /\ UNCHANGED consent
    BY <1>1, <1>3, <2>1 DEF Arcs!InvitationRow, Arcs!UpdateCapabilities
  <2>3. InvitationBacked(m, w, consent')
    BY <1>1, <1>3, <2>2 DEF InvitationBacked, Arcs!UpdateCapabilities
  <2> QED
    BY <1>3, <2>1, <2>2, <2>3, LoadedBacked DEF Arcs!UpdateCapabilities
<1>4. ASSUME NEW status \in {"ACCEPTED", "DECLINED", "REVOKED"}, invitation[m] # None,
             Arcs!Hold(r, Arcs!Loaded("invitation", m, FALSE, [invitation[m] EXCEPT !.status = status])),
             UNCHANGED Arcs!Tables, consent \subseteq consent',
             status = "ACCEPTED" => m \in consent'
      PROVE  ArcsInv'
  <2>1. PICK w : w = [invitation[m] EXCEPT !.status = status]
    OBVIOUS
  <2>2. w \in Arcs!InvitationRow /\ w.status = status
    BY <1>1, <1>4, <2>1 DEF Arcs!InvitationRow
  <2>3. InvitationBacked(m, w, consent')
    BY <1>4, <2>2 DEF InvitationBacked
  <2> QED
    BY <1>4, <2>1, <2>2, <2>3, LoadedBacked
<1>5. CASE Arcs!AcceptInvitation(r, m)
  BY <1>4, <1>5 DEF Arcs!AcceptInvitation, Arcs!Invited, Arcs!Standing
<1>6. CASE Arcs!DeclineInvitation(r, m)
  BY <1>4, <1>6 DEF Arcs!DeclineInvitation, Arcs!Invited, Arcs!Standing
<1>7. CASE \E a \in People : Arcs!Revoke(r, a, m)
  BY <1>4, <1>7 DEF Arcs!Revoke
<1> QED
  BY <1>2, <1>3, <1>5, <1>6, <1>7

LEMMA MembershipsBacked ==
  ASSUME ArcsInv, NEW r \in Requests, NEW a \in People, NEW s \in Sagas,
         \/ Arcs!InviteStory(r, a, s) \/ Arcs!RequestStory(r, a, s) \/ Arcs!ApproveStory(r, a, s)
         \/ Arcs!DeclineStory(r, a, s) \/ Arcs!Leave(r, a, s) \/ Arcs!ReorderStories(r, a, s)
  PROVE  ArcsInv'
<1>1. /\ membership[s] # None => membership[s] \in Arcs!MembershipRow
      /\ membership[s] # None => MembershipBacked(s, membership[s], consent)
  BY DEF ArcsInv
<1>2. /\ Arcs!Curates(a) => <<"arc", s>> \in Arcs!Sides(a, s)
      /\ Arcs!Owns(a, s) => <<"story", s>> \in Arcs!Sides(a, s)
  BY DEF Arcs!Sides
<1>3. ASSUME NEW status \in {"INVITED", "REQUESTED", "APPROVED", "DECLINED", "REMOVED", "WITHDRAWN"},
             NEW fresh, Arcs!Hold(r, Arcs!Loaded("membership", s, fresh, [status |-> status])),
             UNCHANGED Arcs!Tables, consent \subseteq consent',
             status \in {"INVITED", "APPROVED"} => <<"arc", s>> \in consent',
             status \in {"REQUESTED", "APPROVED"} => <<"story", s>> \in consent'
      PROVE  ArcsInv'
  <2>1. PICK w : w = [status |-> status]
    OBVIOUS
  <2>2. w \in Arcs!MembershipRow /\ MembershipBacked(s, w, consent')
    BY <1>3, <2>1 DEF Arcs!MembershipRow, MembershipBacked
  <2> QED
    BY <1>3, <2>1, <2>2, LoadedBacked
<1>4. CASE Arcs!InviteStory(r, a, s) \/ Arcs!RequestStory(r, a, s)
  BY <1>2, <1>3, <1>4 DEF Arcs!InviteStory, Arcs!RequestStory, Arcs!Open
<1>5. CASE Arcs!ApproveStory(r, a, s)
  <2>1. <<"arc", s>> \in consent' /\ <<"story", s>> \in consent'
    BY <1>1, <1>2, <1>5 DEF Arcs!ApproveStory, Arcs!TheirDecision, Arcs!Place, MembershipBacked
  <2> QED
    BY <1>3, <1>5, <2>1 DEF Arcs!ApproveStory
<1>6. CASE Arcs!DeclineStory(r, a, s)
  BY <1>3, <1>6 DEF Arcs!DeclineStory
<1>7. CASE Arcs!Leave(r, a, s)
  BY <1>3, <1>7 DEF Arcs!Leave
<1>8. CASE Arcs!ReorderStories(r, a, s)
  BY <1>1, <1>3, <1>8 DEF Arcs!ReorderStories, Arcs!Place, MembershipBacked
<1> QED
  BY <1>4, <1>5, <1>6, <1>7, <1>8

LEMMA ArcBackedStep ==
  ASSUME ArcsInv, NEW r \in Requests,
         \/ Arcs!CountStories(r) \/ Arcs!PublishArc(r) \/ Arcs!UnpublishArc(r)
         \/ Arcs!RemoveArc(r) \/ Arcs!SoftDeleteArc(r)
         \/ \E a \in People : Arcs!EditArc(r, a)
  PROVE  ArcsInv'
<1>1. arc \in Arcs!ArcRow /\ ArcBacked(arc, consent)
  BY DEF ArcsInv
<1>2. CASE Arcs!CountStories(r)
  <2>1. PICK s \in Sagas : Arcs!Place(s) = "APPROVED"
    BY <1>2 DEF Arcs!CountStories
  <2>2. s \in Agreed(consent)
    BY <2>1 DEF Arcs!Place, ArcsInv, MembershipBacked, Agreed
  <2> QED
    BY <1>2, <2>2, LoadedBacked DEF Arcs!CountStories
<1>3. CASE Arcs!PublishArc(r)
  <2>1. Agreed(consent) # {}
    BY <1>3 DEF Arcs!PublishArc, ArcsInv, DeskBacked
  <2>2. CASE Arcs!Hold(r, Arcs!Idle)
    BY <1>3, <2>2, LoadedBacked DEF Arcs!PublishArc, Arcs!Idle, Arcs!Loaded
  <2>3. CASE Arcs!Hold(r, Arcs!Loaded("arc", None, FALSE, [arc EXCEPT !.status = "PUBLISHED"]))
    <3>1. PICK w : w = [arc EXCEPT !.status = "PUBLISHED"]
      OBVIOUS
    <3>2. w \in Arcs!ArcRow /\ ArcBacked(w, consent')
      BY <1>1, <1>3, <2>1, <3>1 DEF Arcs!ArcRow, ArcBacked, Arcs!PublishArc
    <3> QED
      BY <1>3, <2>3, <3>1, <3>2, LoadedBacked DEF Arcs!PublishArc
  <2> QED
    BY <1>3, <2>2, <2>3 DEF Arcs!PublishArc
<1>4. CASE Arcs!UnpublishArc(r)
  <2>1. PICK w : w = [arc EXCEPT !.status = "UNPUBLISHED"]
    OBVIOUS
  <2>2. w \in Arcs!ArcRow /\ ArcBacked(w, consent')
    BY <1>1, <2>1 DEF Arcs!ArcRow, ArcBacked
  <2> QED
    BY <1>4, <2>1, <2>2, LoadedBacked DEF Arcs!UnpublishArc
<1>5. CASE Arcs!RemoveArc(r) \/ \E a \in People : Arcs!EditArc(r, a)
  BY <1>1, <1>5, LoadedBacked DEF Arcs!RemoveArc, Arcs!EditArc
<1>6. CASE Arcs!SoftDeleteArc(r)
  <2>1. arc' \in Arcs!ArcRow /\ arc'.status = arc.status /\ consent' = consent
    BY <1>1, <1>6 DEF Arcs!SoftDeleteArc, Arcs!ArcRow
  <2>2. UNCHANGED <<invitation, membership>> /\ desk' = [desk EXCEPT ![r] = Arcs!Idle]
    BY <1>6 DEF Arcs!SoftDeleteArc, Arcs!Hold
  <2>3. \A q \in Requests : DeskBacked(desk'[q], consent')
    BY <2>1, <2>2 DEF ArcsInv, DeskBacked, Arcs!Idle
  <2>4. desk' = [q \in Requests |-> desk'[q]]
    BY <2>2 DEF ArcsInv
  <2> QED
    BY <1>1, <2>1, <2>2, <2>3, <2>4 DEF ArcsInv, ArcBacked
<1> QED
  BY <1>2, <1>3, <1>4, <1>5, <1>6

LEMMA SaveBacked ==
  ASSUME ArcsInv, NEW r \in Requests, Arcs!SaveRow(r)
  PROVE  ArcsInv'
<1> DEFINE d == desk[r]
<1>1. DeskBacked(d, consent) /\ consent' = consent
  BY DEF ArcsInv, Arcs!SaveRow
<1>2. /\ invitation' = invitation \/ (d.table = "invitation" /\ invitation' = [invitation EXCEPT ![d.key] = d.row])
      /\ membership' = membership \/ (d.table = "membership" /\ membership' = [membership EXCEPT ![d.key] = d.row])
      /\ arc' = arc \/ (d.table = "arc" /\ arc' = d.row)
  BY DEF Arcs!SaveRow
<1>3. PICK e \in {Arcs!Idle, Arcs!Loaded("delete", None, FALSE, None)} :
        desk' = [desk EXCEPT ![r] = e]
  BY DEF Arcs!SaveRow, Arcs!Hold
<1>4. DeskBacked(e, consent)
  BY DEF DeskBacked, Arcs!Idle, Arcs!Loaded
<1>5. \A q \in Requests : DeskBacked(desk'[q], consent')
  BY <1>1, <1>3, <1>4 DEF ArcsInv
<1>6. desk' = [q \in Requests |-> desk'[q]]
  BY <1>3 DEF ArcsInv
<1>7. /\ invitation' \in [Guests -> Arcs!InvitationRow \cup {None}]
      /\ \A m \in Guests : invitation'[m] # None => InvitationBacked(m, invitation'[m], consent')
  BY <1>1, <1>2 DEF ArcsInv, DeskBacked
<1>8. /\ membership' \in [Sagas -> Arcs!MembershipRow \cup {None}]
      /\ \A s \in Sagas : membership'[s] # None => MembershipBacked(s, membership'[s], consent')
  BY <1>1, <1>2 DEF ArcsInv, DeskBacked
<1>9. arc' \in Arcs!ArcRow /\ ArcBacked(arc', consent')
  BY <1>1, <1>2 DEF ArcsInv, DeskBacked
<1> QED
  BY <1>5, <1>6, <1>7, <1>8, <1>9 DEF ArcsInv

LEMMA ArcsStep == ArcsInv /\ [Arcs!Next]_(Arcs!vars) => ArcsInv'
<1> SUFFICES ASSUME ArcsInv, [Arcs!Next]_(Arcs!vars) PROVE ArcsInv'
  OBVIOUS
<1>1. CASE UNCHANGED Arcs!vars
  BY <1>1 DEF Arcs!vars, ArcsInv
<1>2. ASSUME NEW r \in Requests, Arcs!Handle(r) PROVE ArcsInv'
  BY <1>2, InvitationsBacked, MembershipsBacked, ArcBackedStep, SaveBacked DEF Arcs!Handle
<1> QED
  BY <1>1, <1>2 DEF Arcs!Next

\* Nobody works on an Arc who never accepted an invitation to it, whatever stale
\* rows invitations, answers, changes of capabilities and revocations write back.
THEOREM ArcAccess == SpecAll => []AccessAgreed
<1>1. ArcsInv => AccessAgreed
  BY DEF ArcsInv, AccessAgreed, Arcs!AccessAgreed, Arcs!Standing, InvitationBacked
<1> QED
  BY <1>1, ArcsInit, ArcsStep, ArcsSpec, PTL DEF Arcs!Spec

\* No Story is in an Arc unless both sides agreed, and no Arc goes out before one was.
THEOREM ArcMembership == SpecAll => []JoinedByBoth
<1>1. ArcsInv => JoinedByBoth
  BY DEF ArcsInv, JoinedByBoth, Arcs!JoinedByBoth, Arcs!Place, MembershipBacked, ArcBacked, Agreed
<1> QED
  BY <1>1, ArcsInit, ArcsStep, ArcsSpec, PTL DEF Arcs!Spec

--------------------------------------------------------------------------------
(* The collaborators of a Story behave as StorytimeCrew says.              *)

LEMMA CrewSpec == SpecAll => Crew!Spec
<1>1. InitAll => Crew!Init
  BY DEF InitAll
<1>2. [NextOfPart]_everything => [Crew!Next]_(Crew!vars)
  BY DEF NextOfPart, everything, crew, Crew!vars
<1> QED
  BY <1>1, <1>2, PTL DEF SpecAll, Crew!Spec

Voice == [offered : SUBSET Crew!Capabilities, accepted : BOOLEAN]

\* A row gives a member no more than they were offered, and counts only if they
\* took it up; v is what was voiced about the member.
Consented(w, v) ==
  /\ w \in Crew!CollaboratorRow
  /\ w.can \subseteq v.offered
  /\ w.status = "ACCEPTED" => v.accepted

CrewInv ==
  /\ collaborator \in [Crewmates -> Crew!CollaboratorRow \cup {None}]
  /\ voiced \in [Crewmates -> Voice]
  /\ hand = [r \in Requests |-> hand[r]]
  /\ \A m \in Crewmates : collaborator[m] # None => Consented(collaborator[m], voiced[m])
  /\ \A r \in Requests : hand[r] # None =>
       hand[r].member \in Crewmates /\ Consented(hand[r].row, voiced[hand[r].member])

LEMMA CrewInit == Crew!Init => CrewInv
  BY DEF Crew!Init, CrewInv, Voice

\* Voices only grow.
Louder == \A m \in Crewmates :
  voiced[m].offered \subseteq voiced'[m].offered /\ (voiced[m].accepted => voiced'[m].accepted)

LEMMA SavingConsented ==
  ASSUME CrewInv, NEW r \in Requests, NEW m \in Crewmates, NEW w, Crew!Saving(r, m, w),
         Louder, voiced' \in [Crewmates -> Voice], Consented(w, voiced'[m])
  PROVE  CrewInv'
<1>1. /\ collaborator' = collaborator
      /\ hand' = [hand EXCEPT ![r] = [member |-> m, fresh |-> collaborator[m] = None, row |-> w]]
  BY DEF Crew!Saving
<1>2. \A q \in Requests :
        hand'[q] = IF q = r THEN [member |-> m, fresh |-> collaborator[m] = None, row |-> w]
                   ELSE hand[q]
  BY <1>1 DEF CrewInv
<1>3. ASSUME NEW q \in Requests, hand'[q] # None
      PROVE  hand'[q].member \in Crewmates /\ Consented(hand'[q].row, voiced'[hand'[q].member])
  <2>1. CASE q = r
    BY <1>2, <2>1
  <2>2. CASE q # r
    BY <1>2, <1>3, <2>2 DEF CrewInv, Consented, Louder
  <2> QED
    BY <2>1, <2>2
<1>4. hand' = [q \in Requests |-> hand'[q]]
  BY <1>1 DEF CrewInv
<1>5. \A n \in Crewmates : collaborator'[n] # None => Consented(collaborator'[n], voiced'[n])
  BY <1>1 DEF CrewInv, Consented, Louder
<1> QED
  BY <1>1, <1>3, <1>4, <1>5 DEF CrewInv

\* Whoever may manage collaborators was entitled to offer what they offer.
LEMMA ManagersEntitled ==
  ASSUME CrewInv, NEW a, Crew!MayManage(a)
  PROVE  Crew!Entitled(a)
<1>1. CASE a = Owner
  BY <1>1 DEF Crew!Entitled
<1>2. CASE Crew!HasCapability(a, "MANAGE_COLLABORATORS")
  BY <1>2 DEF Crew!HasCapability, Crew!Stands, CrewInv, Consented, Crew!Entitled
<1> QED
  BY <1>1, <1>2 DEF Crew!MayManage

LEMMA OfferHeard ==
  ASSUME CrewInv, NEW a, Crew!MayManage(a), NEW m \in Crewmates, NEW flags \in CrewFlags,
         Crew!Offer(a, m, Crew!Granted(flags))
  PROVE  /\ Louder /\ voiced' \in [Crewmates -> Voice]
         /\ voiced'[m].offered = voiced[m].offered \cup Crew!Granted(flags)
         /\ voiced'[m].accepted = voiced[m].accepted
<1>1. voiced' = [voiced EXCEPT ![m] = [voiced[m] EXCEPT !.offered = @ \cup Crew!Granted(flags)]]
  BY ManagersEntitled DEF Crew!Offer
<1>2. Crew!Granted(flags) \subseteq Crew!Capabilities
  BY DEF Crew!Granted, Crew!Flags
<1>3. voiced[m] \in Voice
  BY DEF CrewInv
<1>4. /\ [voiced[m] EXCEPT !.offered = @ \cup Crew!Granted(flags)] \in Voice
      /\ [voiced[m] EXCEPT !.offered = @ \cup Crew!Granted(flags)].offered
           = voiced[m].offered \cup Crew!Granted(flags)
      /\ [voiced[m] EXCEPT !.offered = @ \cup Crew!Granted(flags)].accepted = voiced[m].accepted
  BY <1>2, <1>3 DEF Voice
<1> HIDE DEF Voice
<1> QED
  BY <1>1, <1>3, <1>4 DEF CrewInv, Louder

LEMMA CrewHandled ==
  ASSUME CrewInv, NEW r \in Requests, Crew!Handle(r), ~Crew!SaveCollaborator(r)
  PROVE  CrewInv'
<1>1. ASSUME NEW a, NEW m \in Crewmates, NEW flags \in CrewFlags,
             Crew!InviteCollaborator(r, a, m, flags)
      PROVE  CrewInv'
  <2>1. PICK w : w = [status |-> "INVITED", can |-> Crew!Granted(flags)]
    OBVIOUS
  <2>2. /\ Louder /\ voiced' \in [Crewmates -> Voice]
        /\ voiced'[m].offered = voiced[m].offered \cup Crew!Granted(flags)
    BY <1>1, OfferHeard DEF Crew!InviteCollaborator
  <2>3. w \in Crew!CollaboratorRow
    BY <2>1 DEF Crew!CollaboratorRow, Crew!Statuses, Crew!Granted
  <2>4. Consented(w, voiced'[m])
    BY <2>1, <2>2, <2>3 DEF Consented
  <2> QED
    BY <1>1, <2>1, <2>2, <2>4, SavingConsented DEF Crew!InviteCollaborator
<1>2. ASSUME NEW a, NEW m \in Crewmates, NEW flags \in CrewFlags,
             Crew!UpdateCollaborator(r, a, m, flags)
      PROVE  CrewInv'
  <2>1. Consented(collaborator[m], voiced[m])
    BY <1>2 DEF Crew!UpdateCollaborator, Crew!Stands, CrewInv
  <2>2. PICK kept \in SUBSET collaborator[m].can :
          Crew!Saving(r, m, [collaborator[m] EXCEPT !.can = kept \cup Crew!Granted(flags)])
    BY <1>2 DEF Crew!UpdateCollaborator
  <2>3. PICK w : w = [collaborator[m] EXCEPT !.can = kept \cup Crew!Granted(flags)]
    OBVIOUS
  <2>4. /\ Louder /\ voiced' \in [Crewmates -> Voice]
        /\ voiced'[m].offered = voiced[m].offered \cup Crew!Granted(flags)
        /\ voiced'[m].accepted = voiced[m].accepted
    BY <1>2, OfferHeard DEF Crew!UpdateCollaborator
  <2>5. /\ w \in Crew!CollaboratorRow /\ w.can = kept \cup Crew!Granted(flags)
        /\ w.status = collaborator[m].status
    BY <2>1, <2>2, <2>3 DEF Consented, Crew!CollaboratorRow, Crew!Granted
  <2>6. Consented(w, voiced'[m])
    BY <2>1, <2>2, <2>4, <2>5 DEF Consented
  <2> QED
    BY <2>2, <2>3, <2>4, <2>6, SavingConsented
<1>3. ASSUME NEW m \in Crewmates, NEW status \in Crew!Statuses, collaborator[m] # None,
             Crew!Saving(r, m, [collaborator[m] EXCEPT !.status = status]),
             voiced' = IF status = "ACCEPTED" THEN [voiced EXCEPT ![m] = [voiced[m] EXCEPT !.accepted = TRUE]]
                       ELSE voiced
      PROVE  CrewInv'
  <2>1. Consented(collaborator[m], voiced[m]) /\ voiced[m] \in Voice
    BY <1>3 DEF CrewInv
  <2>2. PICK w : w = [collaborator[m] EXCEPT !.status = status]
    OBVIOUS
  <2>3. w \in Crew!CollaboratorRow /\ w.can = collaborator[m].can /\ w.status = status
    BY <2>1, <2>2 DEF Consented, Crew!CollaboratorRow
  <2>4. /\ [voiced[m] EXCEPT !.accepted = TRUE] \in Voice
        /\ [voiced[m] EXCEPT !.accepted = TRUE].accepted
        /\ [voiced[m] EXCEPT !.accepted = TRUE].offered = voiced[m].offered
    BY <2>1 DEF Voice
  <2>5. Louder /\ voiced' \in [Crewmates -> Voice]
    BY <1>3, <2>1, <2>4 DEF CrewInv, Louder
  <2>6. Consented(w, voiced'[m])
    BY <1>3, <2>1, <2>3, <2>4 DEF Consented, CrewInv
  <2> QED
    BY <1>3, <2>2, <2>5, <2>6, SavingConsented
<1>4. ASSUME NEW m \in Crewmates, Crew!Accept(r, m) \/ Crew!Decline(r, m)
                                    \/ \E a : Crew!RevokeCollaborator(r, a, m)
      PROVE  CrewInv'
  BY <1>3, <1>4 DEF Crew!Accept, Crew!Decline, Crew!RevokeCollaborator, Crew!Stands, Crew!Statuses
<1> QED
  BY <1>1, <1>2, <1>4 DEF Crew!Handle

LEMMA SavedConsented ==
  ASSUME CrewInv, NEW r \in Requests, Crew!SaveCollaborator(r)
  PROVE  CrewInv'
<1>1. /\ hand[r].member \in Crewmates /\ Consented(hand[r].row, voiced[hand[r].member])
      /\ voiced' = voiced /\ hand' = [hand EXCEPT ![r] = None]
  BY DEF Crew!SaveCollaborator, CrewInv
<1>2. \/ collaborator' = collaborator
      \/ collaborator' = [collaborator EXCEPT ![hand[r].member] = hand[r].row]
  BY DEF Crew!SaveCollaborator
<1>3. /\ collaborator' \in [Crewmates -> Crew!CollaboratorRow \cup {None}]
      /\ \A m \in Crewmates : collaborator'[m] # None => Consented(collaborator'[m], voiced[m])
  BY <1>1, <1>2 DEF CrewInv, Consented
<1>4. hand' = [q \in Requests |-> hand'[q]] /\ \A q \in Requests : hand'[q] \in {None, hand[q]}
  BY <1>1 DEF CrewInv
<1> QED
  BY <1>1, <1>3, <1>4 DEF CrewInv

LEMMA CrewStep == CrewInv /\ [Crew!Next]_(Crew!vars) => CrewInv'
<1> SUFFICES ASSUME CrewInv, [Crew!Next]_(Crew!vars) PROVE CrewInv'
  OBVIOUS
<1>1. CASE UNCHANGED Crew!vars
  BY <1>1 DEF Crew!vars, CrewInv
<1>2. CASE Crew!Next
  BY <1>2, CrewHandled, SavedConsented DEF Crew!Next
<1> QED
  BY <1>1, <1>2

\* Nobody works on a Story but by an invitation they accepted, with what they were
\* offered by those who could, and nobody but the owner publishes.
THEOREM CrewConsent == SpecAll => []WorksByConsent
<1>1. CrewInv => WorksByConsent
  BY DEF CrewInv, Voice, Consented, WorksByConsent, Crew!WorksByConsent, Crew!Stands
<1> QED
  BY <1>1, CrewInit, CrewStep, CrewSpec, PTL DEF Crew!Spec

--------------------------------------------------------------------------------
(* Appeals are handled as StorytimeReview says.                            *)

LEMMA ReviewSpec == SpecAll => Review!Spec
<1>1. InitAll => Review!Init
  BY DEF InitAll
<1>2. [NextOfPart]_everything => [Review!Next]_(Review!vars)
  BY DEF NextOfPart, everything, review, Review!vars
<1> QED
  BY <1>1, <1>2, PTL DEF SpecAll, Review!Spec

\* The handler is about to save an appeal, a new one if Raising.
Writes(r) == table[r].op \in {"raise", "decide"}
Raising(r) == table[r].op = "raise" /\ table[r].status = "SUBMITTED"

\* An appeal that is about to be stored for the first time is nobody else's.
ReviewInv ==
  /\ appeal \in [Appeals -> Review!AppealStatus \cup {None}]
  /\ table = [r \in Requests |-> table[r]]
  /\ \A r \in Requests :
       /\ Writes(r) => table[r].key \in Appeals
       /\ table[r].op = "raise" => table[r].status \in {"SUBMITTED", "WITHDRAWN"}
       /\ table[r].op = "decide" => table[r].status \in {"UPHELD", "REJECTED"}
       /\ Raising(r) =>
            /\ appeal[table[r].key] = None
            /\ \A q \in Requests : Writes(q) /\ table[q].key = table[r].key => q = r

\* No step puts an answered appeal back.
Final == \A a \in Appeals : appeal'[a] = "SUBMITTED" => appeal[a] \in {None, "SUBMITTED"}

LEMMA ReviewInit == Review!Init => ReviewInv
  BY DEF Review!Init, ReviewInv, Review!Idle, Writes, Raising

\* A handler that writes no appeal, and goes on to write none.
LEMMA OtherAct ==
  ASSUME ReviewInv, NEW r \in Requests, NEW op, NEW key, NEW status, op \notin {"raise", "decide"},
         Review!Hold(r, op, key, status), appeal' = appeal
  PROVE  ReviewInv'
<1>1. \A q \in Requests :
        table'[q] = IF q = r THEN [op |-> op, key |-> key, status |-> status] ELSE table[q]
  BY DEF Review!Hold, ReviewInv
<1>2. table' = [q \in Requests |-> table'[q]]
  BY DEF Review!Hold, ReviewInv
<1> QED
  BY <1>1, <1>2 DEF ReviewInv, Writes, Raising

\* A handler that is going to write an appeal.
LEMMA WriteAct ==
  ASSUME ReviewInv, NEW r \in Requests, NEW op, NEW a \in Appeals, NEW status,
         Review!Hold(r, op, a, status), appeal' = appeal,
         \/ op = "decide" /\ status \in {"UPHELD", "REJECTED"} /\ appeal[a] # None
         \/ op = "raise" /\ status = "WITHDRAWN" /\ appeal[a] # None
         \/ op = "raise" /\ status = "SUBMITTED" /\ appeal[a] = None
              /\ \A q \in Requests : table[q].key # a
  PROVE  ReviewInv'
<1>1. \A q \in Requests :
        table'[q] = IF q = r THEN [op |-> op, key |-> a, status |-> status] ELSE table[q]
  BY DEF Review!Hold, ReviewInv
<1>2. table' = [q \in Requests |-> table'[q]]
  BY DEF Review!Hold, ReviewInv
<1> QED
  BY <1>1, <1>2 DEF ReviewInv, Writes, Raising

\* The save of what a handler holds.
LEMMA SaveAct ==
  ASSUME ReviewInv, NEW r \in Requests, Writes(r), NEW op, NEW key, NEW status,
         op \notin {"raise", "decide"}, Review!Hold(r, op, key, status),
         appeal' = [appeal EXCEPT ![table[r].key] = table[r].status]
  PROVE  ReviewInv' /\ Final
<1>1. \A q \in Requests :
        table'[q] = IF q = r THEN [op |-> op, key |-> key, status |-> status] ELSE table[q]
  BY DEF Review!Hold, ReviewInv
<1>2. table' = [q \in Requests |-> table'[q]]
  BY DEF Review!Hold, ReviewInv
<1>3. /\ table[r].key \in Appeals /\ table[r].status \in Review!AppealStatus
      /\ table[r].status = "SUBMITTED" => appeal[table[r].key] = None
  BY DEF ReviewInv, Writes, Raising, Review!AppealStatus
<1>4. /\ appeal' \in [Appeals -> Review!AppealStatus \cup {None}]
      /\ \A a \in Appeals : appeal'[a] = IF a = table[r].key THEN table[r].status ELSE appeal[a]
  BY <1>3 DEF ReviewInv
<1>5. Final
  BY <1>3, <1>4 DEF Final
<1>6. ASSUME NEW q \in Requests, Raising(q)'
      PROVE  /\ appeal'[table'[q].key] = None
             /\ \A p \in Requests : Writes(p)' /\ table'[p].key = table'[q].key => p = q
  <2>1. q # r /\ table'[q] = table[q] /\ Raising(q)
    BY <1>1, <1>6 DEF Raising
  <2>2. /\ appeal[table[q].key] = None /\ table[q].key \in Appeals
        /\ \A p \in Requests : Writes(p) /\ table[p].key = table[q].key => p = q
    BY <2>1 DEF ReviewInv, Writes, Raising
  <2>3. table[q].key # table[r].key
    BY <2>1, <2>2
  <2> QED
    BY <1>1, <1>4, <2>1, <2>2, <2>3 DEF Writes
<1> QED
  BY <1>1, <1>2, <1>4, <1>5, <1>6 DEF ReviewInv, Writes

LEMMA ReviewHandled ==
  ASSUME ReviewInv, NEW r \in Requests, Review!Handle(r) \/ Review!Fail(r)
  PROVE  ReviewInv' /\ Final
<1>1. ASSUME NEW op, NEW key, NEW status, op \notin {"raise", "decide"},
             Review!Hold(r, op, key, status), appeal' = appeal
      PROVE  ReviewInv' /\ Final
  BY <1>1, OtherAct DEF Final
<1>2. ASSUME Review!Done(r), appeal' = appeal
      PROVE  ReviewInv' /\ Final
  <2>1. Review!Hold(r, "idle", None, None)
    BY <1>2 DEF Review!Done, Review!Hold, Review!Idle
  <2> QED
    BY <1>1, <1>2, <2>1
<1>3. CASE Review!RemoveContent(r) \/ Review!RestoreContent(r) \/ Review!SaveContent(r)
  BY <1>1, <1>3 DEF Review!RemoveContent, Review!RestoreContent, Review!SaveContent,
     Review!Decisions
<1>4. CASE Review!Record(r) \/ Review!RestoreUpheld(r) \/ Review!RecordDecision(r)
  BY <1>1, <1>2, <1>4 DEF Review!Record, Review!RestoreUpheld, Review!RecordDecision,
     Review!Decisions
<1>5. CASE Review!SaveReport(r) \/ Review!Fail(r)
  BY <1>2, <1>5 DEF Review!SaveReport, Review!Fail, Review!Decisions
<1>6. ASSUME NEW p \in Reports, NEW status,
             Review!CreateReport(r, p) \/ Review!ResolveReport(r, p, status)
      PROVE  ReviewInv' /\ Final
  BY <1>1, <1>6 DEF Review!CreateReport, Review!ResolveReport, Review!Decisions
<1>7. ASSUME NEW a \in Appeals, NEW uphold \in BOOLEAN,
             Review!RaiseAppeal(r, a) \/ Review!Withdraw(r, a) \/ Review!Decide(r, a, uphold)
      PROVE  ReviewInv' /\ Final
  <2>1. appeal' = appeal
    BY <1>7 DEF Review!RaiseAppeal, Review!Withdraw, Review!Decide, Review!Decisions
  <2>2. appeal[a] = "SUBMITTED" => appeal[a] # None
    BY DEF Review!AppealStatus
  <2>3. CASE Review!RaiseAppeal(r, a)
    BY <2>1, <2>3, WriteAct DEF Review!RaiseAppeal, Final
  <2>4. CASE Review!Withdraw(r, a)
    BY <2>1, <2>2, <2>4, WriteAct DEF Review!Withdraw, Final
  <2>5. CASE Review!Decide(r, a, uphold)
    BY <2>1, <2>2, <2>5, WriteAct DEF Review!Decide, Final
  <2> QED
    BY <1>7, <2>3, <2>4, <2>5
<1>8. CASE Review!SaveAppeal(r)
  <2>1. Writes(r) /\ Review!Hold(r, "idle", None, None)
    BY <1>8 DEF Review!SaveAppeal, Review!At, Writes, Review!Done, Review!Hold, Review!Idle
  <2> QED
    BY <1>8, <2>1, SaveAct DEF Review!SaveAppeal
<1>9. CASE Review!SaveDecision(r)
  <2>1. Writes(r)
    BY <1>9 DEF Review!SaveDecision, Review!At, Writes
  <2>2. PICK op \in {"restore", "decided"} : Review!Hold(r, op, table[r].key, None)
    BY <1>9 DEF Review!SaveDecision
  <2> QED
    BY <1>9, <2>1, <2>2, SaveAct DEF Review!SaveDecision
<1> QED
  BY <1>3, <1>4, <1>5, <1>6, <1>7, <1>8, <1>9 DEF Review!Handle

\* An answer is final: although answers race with withdrawals and with each other,
\* and handlers fail half way, no appeal is put back to be answered again.
THEOREM AnswersFinal == SpecAll => AnsweredForGood
<1>1. ReviewInv /\ [Review!Next]_(Review!vars) => ReviewInv' /\ [Final]_(Review!vars)
  <2> SUFFICES ASSUME ReviewInv, [Review!Next]_(Review!vars)
               PROVE  ReviewInv' /\ [Final]_(Review!vars)
    OBVIOUS
  <2>1. CASE UNCHANGED Review!vars
    BY <2>1 DEF Review!vars, ReviewInv, Writes, Raising
  <2>2. CASE Review!Next
    BY <2>2, ReviewHandled DEF Review!Next
  <2> QED
    BY <2>1, <2>2
<1>2. SpecAll => [][Final]_(Review!vars)
  BY <1>1, ReviewInit, ReviewSpec, PTL DEF Review!Spec
<1> QED
  BY <1>2 DEF AnsweredForGood, Review!AnsweredForGood, Final
================================================================================
