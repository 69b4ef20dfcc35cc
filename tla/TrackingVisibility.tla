-------------------------- MODULE TrackingVisibility --------------------------
(***************************************************************************)
(* What a visitor is shown of one member's Custom Tracking                 *)
(* (CustomTrackingPublicService): the member, the STO Account, the Captain *)
(* and every level of the definitions has a gate of its own, an            *)
(* administrator may hide a level, and the member edits and answers only   *)
(* under the wording of the agreement that is in force.                    *)
(***************************************************************************)
EXTENDS Naturals, FiniteSets

CONSTANTS
  Sections, Tabs, Fields,
  Parent,        \* the Section of a Tab, the Tab of a Field
  Switchable,    \* the Fields of a type a deployment may switch off (YOUTUBE: a
                 \* record takes its answer all the same)
  MaxWording,    \* bound on the versions of the agreement
  MaxShut        \* bound on the gates shut at a time

Nodes == Sections \cup Tabs \cup Fields

VARIABLES
  scope,         \* what is read: "ACCOUNT" or "CHARACTER"
  standing,      \* of the member: "good", "disabled" or "closed"
  profile,       \* whether the member's profile is public
  sto, captain,  \* the Account and the Captain: "public", "private" or "deleted"
  enabled,       \* the master switch
  typesOff,      \* the Fields whose type is switched off
  wording, accepted,  \* policy versions: current, and accepted (0: never)
  level,         \* the row of every Section, Tab and Field
  answered,      \* the Fields that have an answer
  meant          \* history: what the member and the administrators last said of it

vars == <<scope, standing, profile, sto, captain, enabled, typesOff, wording, accepted,
          level, answered, meant>>

gates == <<scope, standing, profile, sto, captain>>
site  == <<enabled, typesOff, wording>>

Live(n) == ~level[n].deleted

Path(n) == IF n \in Sections THEN {n}
           ELSE IF n \in Tabs THEN {n, Parent[n]}
           ELSE {n, Parent[n], Parent[Parent[n]]}

Below(n) == {m \in Nodes : n \in Path(m)}

\* The guard of every editing handler: the capability, then the agreement.
MayEdit == standing = "good" /\ enabled /\ accepted = wording

\* The wording the page showed must be the one in force.
Accept(shown) ==
  /\ standing = "good" /\ shown = wording
  /\ accepted' = wording
  /\ UNCHANGED <<gates, site, level, answered, meant>>

UpdateLevel(n, public) ==
  /\ MayEdit /\ Live(n)
  /\ level' = [level EXCEPT ![n].public = public]
  /\ meant' = [meant EXCEPT ![n].public = public]
  /\ UNCHANGED <<gates, site, accepted, answered>>

\* publicEmptyMode: whether a Field without an answer is left out.
UpdateEmptyMode(f, hides) ==
  /\ MayEdit /\ Live(f)
  /\ level' = [level EXCEPT ![f].hides = hides]
  /\ UNCHANGED <<gates, site, accepted, answered, meant>>

RemoveLevel(n) ==
  /\ MayEdit /\ Live(n)
  /\ level' = [m \in Nodes |-> IF m \in Below(n) THEN [level[m] EXCEPT !.deleted = TRUE]
                               ELSE level[m]]
  /\ UNCHANGED <<gates, site, accepted, answered, meant>>

\* Against a record that is the member's and still there, and a Field of the live
\* tree, whether its type is switched off or not.
SaveRecord(f, given) ==
  /\ MayEdit /\ sto # "deleted" /\ (scope = "CHARACTER" => captain # "deleted")
  /\ \A n \in Path(f) : Live(n)
  /\ answered' = IF given THEN answered \cup {f} ELSE answered \ {f}
  /\ UNCHANGED <<gates, site, accepted, level, meant>>

\* write: rows that are deleted are matched out.
WriteSuppression(n, hidden) ==
  /\ Live(n)
  /\ level' = [level EXCEPT ![n].suppressed = hidden]
  /\ meant' = [meant EXCEPT ![n].hidden = hidden]
  /\ UNCHANGED <<gates, site, accepted, answered>>

Suppress(n) == WriteSuppression(n, TRUE)

\* Mutant of Restore: what was hidden comes back as a level published anew.
RestorePublishing(n) ==
  /\ Live(n)
  /\ level' = [level EXCEPT ![n].suppressed = FALSE, ![n].public = TRUE]
  /\ meant' = [meant EXCEPT ![n].hidden = FALSE]
  /\ UNCHANGED <<gates, site, accepted, answered>>

Restore(n) == WriteSuppression(n, FALSE)

UpdateProfile(public) ==
  /\ standing = "good" /\ profile' = public
  /\ UNCHANGED <<scope, standing, sto, captain, site, accepted, level, answered, meant>>

\* updateForUser and removeForUser of the Account.
UpdateAccount(to) ==
  /\ standing = "good" /\ sto # "deleted"
  /\ sto' = to
  /\ UNCHANGED <<scope, standing, profile, captain, site, accepted, level, answered, meant>>

\* updateForUser and removeForUser of the Captain, found with its Account.
UpdateCaptain(to) ==
  /\ standing = "good" /\ sto # "deleted" /\ captain # "deleted"
  /\ captain' = to
  /\ UNCHANGED <<scope, standing, profile, sto, site, accepted, level, answered, meant>>

\* disableUser, enableUser and the closing of the account.
SetStanding(to) ==
  /\ standing # "closed" /\ to # standing
  /\ standing = "disabled" => to = "good"
  /\ standing' = to
  /\ UNCHANGED <<scope, profile, sto, captain, site, accepted, level, answered, meant>>

Switch(on) ==
  /\ enabled' = on
  /\ UNCHANGED <<gates, typesOff, wording, accepted, level, answered, meant>>

\* A deployment may switch types off and on, and change the agreement.
Deploy(off, version) ==
  /\ version \in wording..MaxWording
  /\ typesOff' = off /\ wording' = version
  /\ UNCHANGED <<gates, enabled, accepted, level, answered, meant>>

--------------------------------------------------------------------------------
(* What is shown.                                                           *)

FindPublicAccount == sto = "public"
FindPublicCharacterAccount == captain = "public" /\ FindPublicAccount
IsMemberPublic == profile /\ standing = "good"

ResolveOwner ==
  /\ IF scope = "ACCOUNT" THEN FindPublicAccount ELSE FindPublicCharacterAccount
  /\ IsMemberPublic

IsPublic(n) == level[n].public /\ ~level[n].suppressed

\* The live tree, and what filter leaves of it.
Permitted == {f \in Fields : /\ \A n \in Path(f) : Live(n) /\ IsPublic(n)
                             /\ f \notin typesOff}

\* attach: a Field without an answer stays if its owner wants it to.
Attached(fields) == {f \in fields : f \in answered \/ ~level[f].hides}

Projected == IF enabled /\ ResolveOwner THEN Attached(Permitted) ELSE {}

--------------------------------------------------------------------------------

Shut ==
  Cardinality({n \in Nodes : ~level[n].public}) + Cardinality({n \in Nodes : level[n].suppressed})
  + Cardinality({n \in Nodes : level[n].deleted}) + Cardinality(typesOff)
  + Cardinality({g \in {<<1, sto>>, <<2, captain>>} : g[2] # "public"})
  + (IF standing = "good" THEN 0 ELSE 1) + (IF enabled THEN 0 ELSE 1) + (IF profile THEN 0 ELSE 1)

Init ==
  /\ scope \in {"ACCOUNT", "CHARACTER"}
  /\ standing = "good" /\ profile = TRUE /\ sto = "public" /\ captain = "public"
  /\ enabled = TRUE /\ typesOff = {} /\ wording = 1 /\ accepted = 0
  /\ level = [n \in Nodes |-> [public |-> TRUE, suppressed |-> FALSE, hides |-> TRUE,
                               deleted |-> FALSE]]
  /\ answered = {}
  /\ meant = [n \in Nodes |-> [public |-> TRUE, hidden |-> FALSE]]

Operation ==
  \/ \E v \in 1..MaxWording : Accept(v)
  \/ \E n \in Nodes, b \in BOOLEAN : UpdateLevel(n, b)
  \/ \E f \in Fields, b \in BOOLEAN : UpdateEmptyMode(f, b)
  \/ \E n \in Nodes : RemoveLevel(n) \/ Suppress(n) \/ Restore(n)
  \/ \E f \in Fields, b \in BOOLEAN : SaveRecord(f, b)
  \/ \E b \in BOOLEAN : UpdateProfile(b) \/ Switch(b)
  \/ \E to \in {"public", "private", "deleted"} : UpdateAccount(to) \/ UpdateCaptain(to)
  \/ \E to \in {"good", "disabled", "closed"} : SetStanding(to)
  \/ \E off \in SUBSET Switchable, v \in 1..MaxWording : Deploy(off, v)

Next == Operation /\ Shut' <= MaxShut

Spec == Init /\ [][Next]_vars

--------------------------------------------------------------------------------
(* Properties.                                                              *)

\* Nothing shuts anybody out: neither the member nor an administrator hid the
\* level or one above it, whoever of them spoke last.
Open(f) == \A n \in Path(f) : meant[n].public /\ ~meant[n].hidden

\* A visitor sees exactly what was left open at every gate: hiding a level and
\* putting it back shows what its owner meant to be shown, neither more nor less,
\* whatever the owner edited meanwhile, and a disabled or closed member, a private
\* Account or Captain and a switched-off type take everything behind them along.
ShownAsMeant ==
  Projected =
    {f \in Fields : /\ enabled /\ profile /\ standing = "good" /\ sto = "public"
                    /\ scope = "CHARACTER" => captain = "public"
                    /\ Open(f) /\ f \notin typesOff
                    /\ \A n \in Path(f) : ~level[n].deleted
                    /\ level[f].hides => f \in answered}
================================================================================
