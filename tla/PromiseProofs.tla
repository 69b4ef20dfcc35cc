------------------------------ MODULE PromiseProofs ------------------------------
(***************************************************************************)
(* TLAPS proofs that the last decision holds, that links keep leading      *)
(* where they led, that a deletion takes everything below it along, that   *)
(* places and counts are kept and that an answer taken stays one, for      *)
(* every set of members' rows, definitions, titles and catalogues.         *)
(***************************************************************************)
EXTENDS OneAtATime, Sequences, FiniteSetTheorems, WellFoundedInduction, TLAPS

--------------------------------------------------------------------------------
(* What a member may do.                                                   *)

LEMMA AccessSpec == Spec => Access!Spec
<1>1. Init => Access!Init
  BY DEF Init
<1>2. [Next]_vars => [Access!Next]_(Access!vars)
  BY DEF Next, vars, access, Access!vars
<1> QED
  BY <1>1, <1>2, PTL DEF Spec, Access!Spec

SettingRow == Access!OverrideRow(Access!Effects \cup Maxima)

LEMMA NoneIsNoRow == None \notin SettingRow
<1>1. \A w \in SettingRow :
        w \in Access!OverrideRow(Access!Effects) \/ w \in Access!OverrideRow(Maxima)
  BY DEF SettingRow, Access!OverrideRow
<1> QED
  BY <1>1, AccessAssumption

\* A key has one row that is not withdrawn, which says what was decided last, or
\* none and nothing was.
DecisionInv ==
  /\ override \in [Grants -> SettingRow \cup {None}]
  /\ decision \in [Access!Keys -> [setting : Access!Effects \cup Maxima \cup {None},
                                   until : Access!Expiries]]
  /\ \A k \in Access!Keys :
       \/ Access!Existing(k) = {} /\ decision[k] = Access!NoDecision
       \/ \E w \in Grants :
            /\ Access!Existing(k) = {w}
            /\ decision[k] = [setting |-> override[w].setting, until |-> override[w].until]

LEMMA DecisionInit == Access!Init => DecisionInv
  BY DEF Access!Init, DecisionInv, Access!Existing, Access!NoDecision, Access!Expiries

\* Setting an override writes the key's row, and no other's.
LEMMA SetKeeps ==
  ASSUME DecisionInv, NEW k \in Access!Keys, NEW setting \in Access!Effects \cup Maxima,
         NEW until \in Access!Expiries, Access!SetOverride(k, setting, until)
  PROVE  DecisionInv'
<1>1. PICK w \in Grants :
        /\ w \in IF Access!Existing(k) = {} THEN Access!Unused ELSE Access!Existing(k)
        /\ override' = [override EXCEPT ![w] = Access!Written(w, k, setting, until)]
  BY DEF Access!SetOverride, Access!Existing, Access!Unused
<1>2. PICK entity \in SettingRow :
        /\ entity = Access!Written(w, k, setting, until)
        /\ entity.key = k /\ entity.setting = setting /\ entity.until = until /\ ~entity.deleted
  <2>1. [key |-> k, setting |-> setting, until |-> until, deleted |-> FALSE] \in SettingRow
    BY DEF SettingRow, Access!OverrideRow
  <2> QED
    BY <2>1 DEF Access!Written
<1>3. /\ override' \in [Grants -> SettingRow \cup {None}]
      /\ override'[w] = entity /\ entity # None
      /\ \A v \in Grants \ {w} : override'[v] = override[v]
  BY <1>1, <1>2, NoneIsNoRow DEF DecisionInv
<1>4. decision' = [decision EXCEPT ![k] = [setting |-> setting, until |-> until]]
  BY DEF Access!SetOverride
<1>5. decision' \in [Access!Keys -> [setting : Access!Effects \cup Maxima \cup {None},
                                     until : Access!Expiries]]
  BY <1>4 DEF DecisionInv
<1>6. Access!Existing(k)' = {w}
  BY <1>1, <1>2, <1>3 DEF DecisionInv, Access!Existing, Access!Unused
<1>7. ASSUME NEW j \in Access!Keys \ {k} PROVE Access!Existing(j)' = Access!Existing(j)
  BY <1>1, <1>2, <1>3, <1>7 DEF Access!Existing, Access!Unused
<1>8. ASSUME NEW j \in Access!Keys
      PROVE  \/ Access!Existing(j)' = {} /\ decision'[j] = Access!NoDecision
             \/ \E v \in Grants :
                  /\ Access!Existing(j)' = {v}
                  /\ decision'[j] = [setting |-> override'[v].setting, until |-> override'[v].until]
  <2>1. CASE j = k
    BY <1>2, <1>3, <1>4, <1>6, <2>1 DEF DecisionInv
  <2>2. CASE j # k
    <3>1. decision'[j] = decision[j] /\ \A v \in Access!Existing(j) : v # w /\ override'[v] = override[v]
      BY <1>1, <1>3, <1>4, <2>2 DEF DecisionInv, Access!Existing, Access!Unused
    <3> QED
      BY <1>7, <2>2, <3>1 DEF DecisionInv
  <2> QED
    BY <2>1, <2>2
<1> QED
  BY <1>3, <1>5, <1>8 DEF DecisionInv, Access!NoDecision

\* Withdrawing one stamps the key's row.
LEMMA RemoveKeeps ==
  ASSUME DecisionInv, NEW k \in Access!Keys, Access!RemoveOverride(k)
  PROVE  DecisionInv'
<1>1. PICK w \in Access!Existing(k) : override' = [override EXCEPT ![w].deleted = TRUE]
  BY DEF Access!RemoveOverride
<1>2. /\ w \in Grants /\ override[w] \in SettingRow /\ override[w].key = k
      /\ Access!Existing(k) = {w}
  BY <1>1 DEF DecisionInv, Access!Existing
<1>3. PICK entity \in SettingRow :
        entity = [override[w] EXCEPT !.deleted = TRUE] /\ entity.key = k /\ entity.deleted = TRUE
  <2>1. /\ [override[w] EXCEPT !.deleted = TRUE] \in SettingRow
        /\ [override[w] EXCEPT !.deleted = TRUE].key = k
        /\ [override[w] EXCEPT !.deleted = TRUE].deleted = TRUE
    BY <1>2 DEF SettingRow, Access!OverrideRow
  <2> QED
    BY <2>1
<1>4. /\ override' \in [Grants -> SettingRow \cup {None}] /\ override'[w] = entity
      /\ \A v \in Grants \ {w} : override'[v] = override[v]
  BY <1>1, <1>2, <1>3 DEF DecisionInv
<1>5. decision' = [decision EXCEPT ![k] = Access!NoDecision]
  BY DEF Access!RemoveOverride
<1>6. Access!NoDecision \in [setting : Access!Effects \cup Maxima \cup {None}, until : Access!Expiries]
  BY DEF Access!NoDecision, Access!Expiries
<1>7. /\ decision' \in [Access!Keys -> [setting : Access!Effects \cup Maxima \cup {None},
                                        until : Access!Expiries]]
      /\ decision'[k] = Access!NoDecision
      /\ \A j \in Access!Keys \ {k} : decision'[j] = decision[j]
  BY <1>5, <1>6 DEF DecisionInv
<1>8. ASSUME NEW v \in Grants PROVE v \notin Access!Existing(k)'
  <2>1. CASE v = w
    BY <1>3, <1>4, <2>1 DEF Access!Existing
  <2>2. CASE v # w
    <3>1. v \notin Access!Existing(k)
      BY <1>2, <2>2
    <3>2. override'[v] = override[v]
      BY <1>4, <2>2
    <3> QED
      BY <3>1, <3>2 DEF Access!Existing
  <2> QED
    BY <2>1, <2>2
<1>9. ASSUME NEW j \in Access!Keys \ {k}
      PROVE  Access!Existing(j)' = Access!Existing(j)
  <2>1. w \notin Access!Existing(j) /\ w \notin Access!Existing(j)'
    BY <1>2, <1>3, <1>4 DEF Access!Existing
  <2>2. \A v \in Grants \ {w} : v \in Access!Existing(j)' <=> v \in Access!Existing(j)
    BY <1>4 DEF Access!Existing
  <2>3. Access!Existing(j) \subseteq Grants /\ Access!Existing(j)' \subseteq Grants
    BY DEF Access!Existing
  <2> QED
    BY <2>1, <2>2, <2>3
<1>10. ASSUME NEW j \in Access!Keys \ {k}
       PROVE  \/ Access!Existing(j)' = {} /\ decision'[j] = Access!NoDecision
              \/ \E v \in Grants :
                   /\ Access!Existing(j)' = {v}
                   /\ decision'[j] = [setting |-> override'[v].setting, until |-> override'[v].until]
  <2>1. \A v \in Access!Existing(j) : override'[v] = override[v]
    BY <1>2, <1>4 DEF Access!Existing
  <2> QED
    BY <1>7, <1>9, <2>1 DEF DecisionInv
<1>11. Access!Existing(k)' = {}
  BY <1>8 DEF Access!Existing
<1> QED
  BY <1>4, <1>7, <1>10, <1>11 DEF DecisionInv, Access!NoDecision

LEMMA DecisionStep == DecisionInv /\ [Access!Next]_(Access!vars) => DecisionInv'
<1> SUFFICES ASSUME DecisionInv, [Access!Next]_(Access!vars) PROVE DecisionInv'
  OBVIOUS
<1>1. ASSUME UNCHANGED <<override, decision>> PROVE DecisionInv'
  BY <1>1 DEF DecisionInv, Access!Existing
<1>2. ASSUME NEW p \in Permissions, NEW e \in Access!Effects, NEW t \in Access!Expiries,
             Access!SetPermissionOverride(p, e, t)
      PROVE  DecisionInv'
  BY <1>2, SetKeeps DEF Access!SetPermissionOverride, Access!Keys
<1>3. ASSUME NEW l \in Limits, NEW v \in Maxima, NEW t \in Access!Expiries,
             Access!SetLimitOverride(l, v, t)
      PROVE  DecisionInv'
  BY <1>3, SetKeeps DEF Access!SetLimitOverride, Access!Keys
<1>4. ASSUME NEW k \in Access!Keys, Access!RemoveOverride(k) PROVE DecisionInv'
  BY <1>4, RemoveKeeps
<1>5. ASSUME NEW to \in Roles, Access!SetUserRole(to) PROVE DecisionInv'
  BY <1>1, <1>5 DEF Access!SetUserRole
<1>6. ASSUME NEW b \in BOOLEAN, Access!SetDisabled(b) PROVE DecisionInv'
  BY <1>1, <1>6 DEF Access!SetDisabled
<1>7. CASE Access!Tick
  BY <1>1, <1>7 DEF Access!Tick
<1>8. CASE UNCHANGED Access!vars
  BY <1>1, <1>8 DEF Access!vars
<1> QED
  BY <1>2, <1>3, <1>4, <1>5, <1>6, <1>7, <1>8
     DEF Access!Next, Access!RemovePermissionOverride, Access!RemoveLimitOverride, Access!Keys

\* What is in force of a key is what was decided of it, until that expires.
LEMMA InForceAsDecided ==
  ASSUME DecisionInv, NEW k \in Access!Keys
  PROVE  /\ Access!Decided(k) => Access!Overriding(k) = {decision[k].setting}
         /\ ~Access!Decided(k) => Access!Overriding(k) = {}
<1> DEFINE inForce == {w \in Access!Existing(k) : override[w].until = None \/ override[w].until > clock}
<1>1. Access!Overriding(k) = {override[w].setting : w \in inForce}
  BY DEF Access!Overriding, Access!InForce, Access!Existing
<1>2. CASE Access!Existing(k) = {} /\ decision[k] = Access!NoDecision
  BY <1>1, <1>2 DEF Access!Decided, Access!NoDecision
<1>3. ASSUME NEW w \in Grants, Access!Existing(k) = {w},
             decision[k] = [setting |-> override[w].setting, until |-> override[w].until]
      PROVE  /\ Access!Decided(k) => Access!Overriding(k) = {decision[k].setting}
             /\ ~Access!Decided(k) => Access!Overriding(k) = {}
  <2>1. override[w] \in SettingRow
    BY <1>3 DEF DecisionInv, Access!Existing
  <2>2. override[w].setting # None
    BY <2>1, AccessAssumption DEF SettingRow, Access!OverrideRow
  <2> QED
    BY <1>1, <1>3, <2>2 DEF Access!Decided
<1> QED
  BY <1>2, <1>3 DEF DecisionInv

LEMMA AccessDecided == DecisionInv => Access!LastDecisionHolds
<1> SUFFICES ASSUME DecisionInv PROVE Access!LastDecisionHolds
  OBVIOUS
<1>1. ASSUME NEW p \in Permissions
      PROVE  (IF Access!Overriding(p) = {} THEN p \in OfRole[role] ELSE "GRANT" \in Access!Overriding(p))
               <=> (IF Access!Decided(p) THEN decision[p].setting = "GRANT" ELSE p \in OfRole[role])
  BY InForceAsDecided DEF Access!Keys
<1>2. ASSUME NEW l \in Limits, NEW count \in Counts
      PROVE  Access!WithinLimit(l, count) <=>
               count < IF Access!Decided(l) THEN decision[l].setting ELSE Configured[l]
  BY InForceAsDecided DEF Access!Keys, Access!WithinLimit, Access!Limit
<1>3. Access!PermissionCodes =
        IF blocked THEN {}
        ELSE {p \in Permissions : IF Access!Decided(p) THEN decision[p].setting = "GRANT"
                                  ELSE p \in OfRole[role]}
  BY <1>1 DEF Access!PermissionCodes
<1> QED
  BY <1>2, <1>3 DEF Access!LastDecisionHolds

--------------------------------------------------------------------------------
(* What a visitor is shown of a member's definitions.                      *)

LEMMA VisibilitySpec == Spec => Visibility!Spec
<1>1. Init => Visibility!Init
  BY DEF Init
<1>2. [Next]_vars => [Visibility!Next]_(Visibility!vars)
  BY DEF Next, vars, visibility, Visibility!vars, Visibility!gates, Visibility!site
<1> QED
  BY <1>1, <1>2, PTL DEF Spec, Visibility!Spec

LevelRow == [public : BOOLEAN, suppressed : BOOLEAN, hides : BOOLEAN, deleted : BOOLEAN]
Said == [public : BOOLEAN, hidden : BOOLEAN]

\* Every level is as open as was last said of it by each of the two who may say so.
LevelsInv ==
  /\ scope \in {"ACCOUNT", "CHARACTER"}
  /\ branch \in [Visibility!Nodes -> LevelRow]
  /\ meant \in [Visibility!Nodes -> Said]
  /\ \A n \in Visibility!Nodes :
       branch[n].public = meant[n].public /\ branch[n].suppressed = meant[n].hidden

LEMMA PathsWithin ==
  ASSUME NEW f \in Fields
  PROVE  Visibility!Path(f) \subseteq Visibility!Nodes
  BY TreeAssumption DEF Visibility!Path, Visibility!Nodes

LEMMA LevelsInit == Visibility!Init => LevelsInv
<1> DEFINE entity == [public |-> TRUE, suppressed |-> FALSE, hides |-> TRUE, deleted |-> FALSE]
           said == [public |-> TRUE, hidden |-> FALSE]
<1>1. /\ entity \in LevelRow /\ said \in Said
      /\ entity.public = said.public /\ entity.suppressed = said.hidden
  BY DEF LevelRow, Said
<1>2. Visibility!Init => /\ scope \in {"ACCOUNT", "CHARACTER"}
                         /\ branch = [n \in Visibility!Nodes |-> entity]
                         /\ meant = [n \in Visibility!Nodes |-> said]
  BY DEF Visibility!Init
<1> HIDE DEF entity, said
<1> QED
  BY <1>1, <1>2 DEF LevelsInv

\* A handler that writes one level's row, and what is said with it.
LEMMA LevelWritten ==
  ASSUME LevelsInv, NEW n \in Visibility!Nodes, NEW entity \in LevelRow, NEW said \in Said,
         branch' = [branch EXCEPT ![n] = entity], meant' = [meant EXCEPT ![n] = said],
         entity.public = said.public, entity.suppressed = said.hidden, UNCHANGED scope
  PROVE  LevelsInv'
<1>1. branch' \in [Visibility!Nodes -> LevelRow] /\ meant' \in [Visibility!Nodes -> Said]
  BY DEF LevelsInv
<1>2. branch'[n] = entity /\ meant'[n] = said
  BY DEF LevelsInv
<1>3. \A m \in Visibility!Nodes \ {n} : branch'[m] = branch[m] /\ meant'[m] = meant[m]
  BY DEF LevelsInv
<1> QED
  BY <1>1, <1>2, <1>3 DEF LevelsInv

LEMMA LevelsStep == LevelsInv /\ [Visibility!Next]_(Visibility!vars) => LevelsInv'
<1> SUFFICES ASSUME LevelsInv, [Visibility!Next]_(Visibility!vars) PROVE LevelsInv'
  OBVIOUS
<1>1. ASSUME UNCHANGED <<scope, branch, meant>> PROVE LevelsInv'
  BY <1>1 DEF LevelsInv
<1>2. ASSUME NEW n \in Visibility!Nodes, NEW b \in BOOLEAN, Visibility!UpdateLevel(n, b)
    PROVE  LevelsInv'
  <2> DEFINE entity == [branch[n] EXCEPT !.public = b]
             said == [meant[n] EXCEPT !.public = b]
  <2>1. /\ branch[n] \in LevelRow /\ meant[n] \in Said
        /\ branch[n].public = meant[n].public /\ branch[n].suppressed = meant[n].hidden
    BY DEF LevelsInv
  <2>2. /\ entity \in LevelRow /\ said \in Said
        /\ entity.public = said.public /\ entity.suppressed = said.hidden
    BY <2>1 DEF LevelRow, Said
  <2>3. /\ branch' = [branch EXCEPT ![n] = entity] /\ meant' = [meant EXCEPT ![n] = said]
        /\ UNCHANGED scope
    BY <1>2 DEF Visibility!UpdateLevel, Visibility!gates
  <2> HIDE DEF entity, said
  <2> QED
    BY <2>2, <2>3, LevelWritten
<1>3. ASSUME NEW n \in Visibility!Nodes, NEW b \in BOOLEAN, Visibility!WriteSuppression(n, b)
    PROVE  LevelsInv'
  <2> DEFINE entity == [branch[n] EXCEPT !.suppressed = b]
             said == [meant[n] EXCEPT !.hidden = b]
  <2>1. /\ branch[n] \in LevelRow /\ meant[n] \in Said
        /\ branch[n].public = meant[n].public /\ branch[n].suppressed = meant[n].hidden
    BY DEF LevelsInv
  <2>2. /\ entity \in LevelRow /\ said \in Said
        /\ entity.public = said.public /\ entity.suppressed = said.hidden
    BY <2>1 DEF LevelRow, Said
  <2>3. /\ branch' = [branch EXCEPT ![n] = entity] /\ meant' = [meant EXCEPT ![n] = said]
        /\ UNCHANGED scope
    BY <1>3 DEF Visibility!WriteSuppression, Visibility!gates
  <2> HIDE DEF entity, said
  <2> QED
    BY <2>2, <2>3, LevelWritten
<1>4. ASSUME NEW n \in Fields, NEW b \in BOOLEAN, Visibility!UpdateEmptyMode(n, b)
      PROVE  LevelsInv'
  <2>1. n \in Visibility!Nodes
    BY DEF Visibility!Nodes
  <2> DEFINE entity == [branch[n] EXCEPT !.hides = b]
  <2>2. branch[n] \in LevelRow
    BY <2>1 DEF LevelsInv
  <2>3. entity \in LevelRow /\ entity.public = branch[n].public /\ entity.suppressed = branch[n].suppressed
    BY <2>2 DEF LevelRow
  <2>4. branch' = [branch EXCEPT ![n] = entity] /\ meant' = [meant EXCEPT ![n] = meant[n]]
        /\ UNCHANGED scope
    BY <1>4, <2>1 DEF Visibility!UpdateEmptyMode, Visibility!gates, LevelsInv
  <2>5. /\ meant[n] \in Said
        /\ branch[n].public = meant[n].public /\ branch[n].suppressed = meant[n].hidden
    BY <2>1 DEF LevelsInv
  <2> HIDE DEF entity
  <2> QED
    BY <2>1, <2>3, <2>4, <2>5, LevelWritten
<1>5. ASSUME NEW n \in Visibility!Nodes, Visibility!RemoveLevel(n) PROVE LevelsInv'
  <2>1. ASSUME NEW m \in Visibility!Nodes
        PROVE  /\ [branch[m] EXCEPT !.deleted = TRUE] \in LevelRow
               /\ [branch[m] EXCEPT !.deleted = TRUE].public = branch[m].public
               /\ [branch[m] EXCEPT !.deleted = TRUE].suppressed = branch[m].suppressed
    BY DEF LevelsInv, LevelRow
  <2>2. /\ branch' = [m \in Visibility!Nodes |->
                        IF m \in Visibility!Below(n) THEN [branch[m] EXCEPT !.deleted = TRUE]
                        ELSE branch[m]]
        /\ meant' = meant /\ UNCHANGED scope
    BY <1>5 DEF Visibility!RemoveLevel, Visibility!gates
  <2>3. branch' \in [Visibility!Nodes -> LevelRow]
    BY <2>1, <2>2 DEF LevelsInv
  <2> QED
    BY <2>1, <2>2, <2>3 DEF LevelsInv
<1>6. CASE Visibility!Operation
  <2>1. ASSUME NEW f \in Fields, NEW b \in BOOLEAN, Visibility!SaveRecord(f, b) PROVE LevelsInv'
    BY <1>1, <2>1 DEF Visibility!SaveRecord, Visibility!gates
  <2>2. ASSUME NEW v \in 1..MaxWording, Visibility!Accept(v) PROVE LevelsInv'
    BY <1>1, <2>2 DEF Visibility!Accept, Visibility!gates
  <2>3. ASSUME NEW b \in BOOLEAN, Visibility!UpdateProfile(b) \/ Visibility!Switch(b) PROVE LevelsInv'
    BY <1>1, <2>3 DEF Visibility!UpdateProfile, Visibility!Switch, Visibility!gates
  <2>4. ASSUME NEW to \in {"public", "private", "deleted"},
               Visibility!UpdateAccount(to) \/ Visibility!UpdateCaptain(to)
        PROVE  LevelsInv'
    BY <1>1, <2>4 DEF Visibility!UpdateAccount, Visibility!UpdateCaptain
  <2>5. ASSUME NEW to \in {"good", "disabled", "closed"}, Visibility!SetStanding(to) PROVE LevelsInv'
    BY <1>1, <2>5 DEF Visibility!SetStanding
  <2>6. ASSUME NEW off \in SUBSET Switchable, NEW v \in 1..MaxWording, Visibility!Deploy(off, v)
        PROVE  LevelsInv'
    BY <1>1, <2>6 DEF Visibility!Deploy, Visibility!gates
  <2> QED
    BY <1>2, <1>3, <1>4, <1>5, <1>6, <2>1, <2>2, <2>3, <2>4, <2>5, <2>6
       DEF Visibility!Operation, Visibility!Suppress, Visibility!Restore
<1>7. CASE UNCHANGED Visibility!vars
  BY <1>1, <1>7 DEF Visibility!vars
<1> QED
  BY <1>6, <1>7 DEF Visibility!Next

LEMMA ShownAsSaid == LevelsInv => Visibility!ShownAsMeant
<1> SUFFICES ASSUME LevelsInv PROVE Visibility!ShownAsMeant
  OBVIOUS
<1>1. ASSUME NEW f \in Fields
      PROVE  (\A n \in Visibility!Path(f) : Visibility!Live(n) /\ Visibility!IsPublic(n))
               <=> Visibility!Open(f) /\ \A n \in Visibility!Path(f) : ~branch[n].deleted
  BY PathsWithin DEF LevelsInv, Visibility!Live, Visibility!IsPublic, Visibility!Open
<1>2. Visibility!ResolveOwner <=>
        /\ profile /\ standing = "good" /\ sto = "public"
        /\ scope = "CHARACTER" => captain = "public"
  BY DEF LevelsInv, Visibility!ResolveOwner, Visibility!FindPublicAccount,
         Visibility!FindPublicCharacterAccount, Visibility!IsMemberPublic
<1>3. ASSUME NEW f \in Fields
      PROVE  f \in Visibility!Attached(Visibility!Permitted) <=>
               /\ Visibility!Open(f) /\ f \notin typesOff
               /\ \A n \in Visibility!Path(f) : ~branch[n].deleted
               /\ branch[f].hides => f \in answered
  BY <1>1 DEF Visibility!Attached, Visibility!Permitted
<1>4. Visibility!Attached(Visibility!Permitted) \subseteq Fields
  BY DEF Visibility!Attached, Visibility!Permitted
<1> QED
  BY <1>2, <1>3, <1>4 DEF Visibility!ShownAsMeant, Visibility!Projected

--------------------------------------------------------------------------------
(* What a Captain has achieved.                                            *)

LEMMA TrackersSpec == Spec => Trackers!Spec
<1>1. Init => Trackers!Init
  BY DEF Init
<1>2. [Next]_vars => [Trackers!Next]_(Trackers!vars)
  BY DEF Next, vars, trackers, Trackers!vars
<1> QED
  BY <1>1, <1>2, PTL DEF Spec, Trackers!Spec

\* A row says what was recorded, or zero when only its slot was chosen; a slot is
\* held by the specialization last chosen for it and by no other.
ChosenInv ==
  /\ slot \in [Trackers!Specializations -> Trackers!Slots \cup {None}]
  /\ slotted \in [Trackers!Slots -> Trackers!Specializations \cup {None}]
  /\ score \in [Achievements -> Nat \cup {None}]
  /\ recorded \in [Achievements -> Nat \cup {None}]
  /\ \A s \in Trackers!Slots, e \in Trackers!Specializations : slot[e] = s <=> slotted[s] = e
  /\ \A e \in Achievements : score[e] = recorded[e] \/ (score[e] = 0 /\ recorded[e] = None)

LEMMA ChosenInit == Trackers!Init => ChosenInv
<1> SUFFICES ASSUME Trackers!Init PROVE ChosenInv
  OBVIOUS
<1>1. Trackers!Specializations \subseteq Achievements
  BY DEF Trackers!Specializations, Trackers!Of
<1> QED
  BY <1>1, TrackersAssumption DEF Trackers!Init, ChosenInv, Trackers!Slots

LEMMA RecordKeeps ==
  ASSUME ChosenInv, NEW e \in Achievements, NEW n \in 0..e.most, Trackers!Update(e, n)
  PROVE  ChosenInv'
<1>1. n \in Nat
  BY TrackersAssumption
<1>2. /\ score' = [score EXCEPT ![e] = n] /\ recorded' = [recorded EXCEPT ![e] = n]
      /\ UNCHANGED <<slot, slotted>>
  BY DEF Trackers!Update
<1> QED
  BY <1>1, <1>2 DEF ChosenInv

\* The index admits every choice of a slot: the release leaves no other holder.
LEMMA SlotKeeps ==
  ASSUME ChosenInv, NEW e \in Achievements, NEW s \in Trackers!Slots \cup {None},
         Trackers!UpdateSlot(e, s)
  PROVE  ChosenInv'
<1>1. e \in Trackers!Specializations
  BY DEF Trackers!UpdateSlot, Trackers!Specializations, Trackers!Of
<1>2. PICK holders : holders = Trackers!Claimed(s, e)
  OBVIOUS
<1>3. /\ holders \in [Trackers!Specializations -> Trackers!Slots \cup {None}]
      /\ holders[e] = s
      /\ \A x \in Trackers!Specializations \ {e} :
           holders[x] = IF s # None /\ slot[x] = s THEN None ELSE slot[x]
  BY <1>1, <1>2 DEF Trackers!Claimed, Trackers!Released, ChosenInv
<1>4. \A x, y \in Trackers!Specializations : x # y /\ holders[x] # None => holders[x] # holders[y]
  <2> SUFFICES ASSUME NEW x \in Trackers!Specializations, NEW y \in Trackers!Specializations,
                      x # y, holders[x] # None, holders[x] = holders[y]
               PROVE  FALSE
    OBVIOUS
  <2>1. CASE x = e \/ y = e
    BY <1>3, <2>1
  <2>2. CASE x # e /\ y # e
    <3>1. slot[x] = holders[x] /\ slot[y] = holders[x] /\ slot[x] \in Trackers!Slots
      BY <1>3, <2>2 DEF ChosenInv
    <3> QED
      BY <3>1 DEF ChosenInv
  <2> QED
    BY <2>1, <2>2
<1>5. /\ slot' = holders
      /\ score' = [score EXCEPT ![e] = IF score[e] = None THEN 0 ELSE score[e]]
      /\ slotted' = [x \in Trackers!Slots |-> IF x = s THEN e
                                              ELSE IF slotted[x] = e THEN None ELSE slotted[x]]
      /\ UNCHANGED recorded
  BY <1>2, <1>4 DEF Trackers!UpdateSlot, Trackers!Admits
<1>6. ASSUME NEW t \in Trackers!Slots, NEW x \in Trackers!Specializations
      PROVE  slot'[x] = t <=> slotted'[t] = x
  <2>1. t # None /\ x # None
    BY TrackersAssumption DEF Trackers!Slots, Trackers!Specializations, Trackers!Of
  <2>2. slot[x] = t <=> slotted[t] = x
    BY DEF ChosenInv
  <2>3. CASE x = e
    BY <1>1, <1>3, <1>5, <2>1, <2>2, <2>3
  <2>4. CASE x # e
    BY <1>3, <1>5, <2>1, <2>2, <2>4
  <2> QED
    BY <2>3, <2>4
<1>7. /\ slot' \in [Trackers!Specializations -> Trackers!Slots \cup {None}]
      /\ slotted' \in [Trackers!Slots -> Trackers!Specializations \cup {None}]
      /\ score' \in [Achievements -> Nat \cup {None}] /\ recorded' \in [Achievements -> Nat \cup {None}]
  BY <1>1, <1>3, <1>5 DEF ChosenInv
<1>8. \A x \in Achievements : score'[x] = recorded'[x] \/ (score'[x] = 0 /\ recorded'[x] = None)
  BY <1>5 DEF ChosenInv
<1> QED
  BY <1>6, <1>7, <1>8 DEF ChosenInv

LEMMA ChosenStep == ChosenInv /\ [Trackers!Next]_(Trackers!vars) => ChosenInv'
<1> SUFFICES ASSUME ChosenInv, [Trackers!Next]_(Trackers!vars) PROVE ChosenInv'
  OBVIOUS
<1>1. ASSUME UNCHANGED <<score, slot, recorded, slotted>> PROVE ChosenInv'
  BY <1>1 DEF ChosenInv
<1>2. ASSUME NEW f \in Allegiances \cup {None}, Trackers!Change(f) PROVE ChosenInv'
  BY <1>1, <1>2 DEF Trackers!Change
<1>3. CASE UNCHANGED Trackers!vars
  BY <1>1, <1>3 DEF Trackers!vars
<1> QED
  BY <1>2, <1>3, RecordKeeps, SlotKeeps
     DEF Trackers!Next, Trackers!UpdateReputation, Trackers!UpdateSchool, Trackers!UpdateCampaign,
         Trackers!UpdateCommendation, Trackers!UpdateSpecialization

LEMMA AchievedAsChosen == ChosenInv => Trackers!TrackedAsChosen
<1> SUFFICES ASSUME ChosenInv PROVE Trackers!TrackedAsChosen
  OBVIOUS
<1>1. ASSUME NEW s \in Trackers!Slots
      PROVE  Trackers!Named(s) = IF slotted[s] = None THEN {} ELSE {slotted[s]}
  <2>1. \A e \in Trackers!Specializations : e # None
    BY TrackersAssumption DEF Trackers!Specializations, Trackers!Of
  <2>2. slotted[s] \in Trackers!Specializations \cup {None}
    BY DEF ChosenInv
  <2> QED
    BY <2>1, <2>2 DEF ChosenInv, Trackers!Named
<1>2. ASSUME NEW t \in Trackers!Trackers, NEW e \in Trackers!Listed(t)
      PROVE  (IF score[e] = None THEN 0 ELSE score[e]) = (IF recorded[e] = None THEN 0 ELSE recorded[e])
  <2>1. e \in Achievements
    BY DEF Trackers!Listed, Trackers!Of
  <2> QED
    BY <2>1, TrackersAssumption DEF ChosenInv
<1>3. ASSUME NEW t \in Trackers!Trackers
      PROVE  Trackers!Progress(t) =
               [e \in Trackers!Listed(t) |-> IF recorded[e] = None THEN 0 ELSE recorded[e]]
  BY <1>2 DEF Trackers!Progress
<1> QED
  BY <1>1, <1>3 DEF Trackers!TrackedAsChosen

\* In AccessControl a member may do what was last decided until that expires; in
\* TrackingVisibility a visitor is shown what was left open at every gate, whoever
\* spoke last; in CaptainTrackers a slot and a number are those last chosen.
THEOREM DecisionsHold == Spec => []LastDecisionHolds
<1>1. Access!Spec => []DecisionInv
  BY DecisionInit, DecisionStep, PTL DEF Access!Spec
<1>2. Visibility!Spec => []LevelsInv
  BY LevelsInit, LevelsStep, PTL DEF Visibility!Spec
<1>3. Trackers!Spec => []ChosenInv
  BY ChosenInit, ChosenStep, PTL DEF Trackers!Spec
<1>4. DecisionInv /\ LevelsInv /\ ChosenInv => LastDecisionHolds
  BY AccessDecided, ShownAsSaid, AchievedAsChosen DEF LastDecisionHolds
<1> QED
  BY <1>1, <1>2, <1>3, <1>4, AccessSpec, VisibilitySpec, TrackersSpec, PTL

--------------------------------------------------------------------------------
(* Where an address leads.                                                 *)

LEMMA AddressesSpec == Spec => Addresses!Spec
<1>1. Init => Addresses!Init
  BY DEF Init
<1>2. [Next]_vars => [Addresses!Next]_(Addresses!vars)
  BY DEF Next, vars, addresses, Addresses!vars
<1> QED
  BY <1>1, <1>2, PTL DEF Spec, Addresses!Spec

\* Nobody else has the slug of a live item and the history does not name it; every
\* other address the item was reached at is in the history, as the item's.
AddressInv ==
  /\ slug \in [Items -> Addresses!Slugs \cup {None}]
  /\ retired \in [Addresses!Slugs -> Items \cup {None}]
  /\ known \in [Items -> SUBSET Addresses!Slugs]
  /\ \A i, j \in Items : slug[i] # None /\ slug[i] = slug[j] => i = j
  /\ \A i \in Items : slug[i] # None => retired[slug[i]] = None
  /\ \A i \in Items : slug[i] # None => \A s \in known[i] : s = slug[i] \/ retired[s] = i

LEMMA AddressInit == Addresses!Init => AddressInv
  BY DEF Addresses!Init, AddressInv

LEMMA CandidateIsSlug ==
  ASSUME NEW stem \in Stems, NEW n \in 1..MaxAttempts
  PROVE  Addresses!Candidate(stem, n) \in Addresses!Slugs
<1>1. CASE n = 1
  BY <1>1 DEF Addresses!Candidate, Addresses!Slugs
<1>2. CASE n # 1
  <2>1. n \in 2..MaxAttempts
    BY <1>2, LinksAssumption
  <2>2. Addresses!Candidate(stem, n) = Append(stem, n)
    BY <1>2 DEF Addresses!Candidate
  <2> QED
    BY <2>1, <2>2 DEF Addresses!Slugs
<1> QED
  BY <1>1, <1>2

LEMMA LeastOfNaturals ==
  ASSUME NEW S \in SUBSET Nat, S # {}
  PROVE  \E n \in S : \A m \in S : n <= m
<1> DEFINE less == OpToRel(<, Nat)
<1>1. PICK n \in S : \A m \in S : ~(<<m, n>> \in less)
  <2>1. IsWellFoundedOn(less, Nat)
    BY NatLessThanWellFounded
  <2> HIDE DEF less
  <2> QED
    BY <2>1, WFMin
<1>2. ASSUME NEW m \in S PROVE n <= m
  <2> DEFINE pair == <<m, n>>
  <2>1. pair \in Nat \X Nat /\ pair[1] = m /\ pair[2] = n
    OBVIOUS
  <2>2. pair \notin less
    BY <1>1
  <2> HIDE DEF pair
  <2>3. ~(pair[1] < pair[2])
    BY <2>1, <2>2 DEF OpToRel
  <2> QED
    BY <2>1, <2>3
<1> QED
  BY <1>2

\* A generated slug is one that neither a live row nor the history has.
LEMMA GeneratedIsFree ==
  ASSUME NEW i \in Items, NEW stem \in Stems, Addresses!FreeAttempts(i, stem) # {}
  PROVE  /\ Addresses!Generated(i, stem) \in Addresses!Slugs
         /\ ~Addresses!Taken(i, Addresses!Generated(i, stem))
<1> DEFINE free == Addresses!FreeAttempts(i, stem)
           first == CHOOSE n \in free : \A m \in free : n <= m
<1>1. free \subseteq 1..MaxAttempts /\ free \subseteq Nat
  BY LinksAssumption DEF Addresses!FreeAttempts
<1>2. first \in free
  <2>1. \E n \in free : \A m \in free : n <= m
    BY <1>1, LeastOfNaturals
  <2> QED
    BY <2>1
<1>3. Addresses!Generated(i, stem) = Addresses!Candidate(stem, first)
  BY DEF Addresses!Generated
<1>4. first \in 1..MaxAttempts
  BY <1>1, <1>2
<1>5. ~Addresses!Taken(i, Addresses!Candidate(stem, first))
  BY <1>2 DEF Addresses!FreeAttempts
<1> QED
  BY <1>3, <1>4, <1>5, CandidateIsSlug

\* A new item was never reached anywhere.
LEMMA CreateKeeps ==
  ASSUME AddressInv, NEW i \in Items, NEW stem \in Stems, Addresses!Create(i, stem)
  PROVE  AddressInv'
<1> DEFINE new == Addresses!Generated(i, stem)
<1>1. new \in Addresses!Slugs /\ retired[new] = None /\ \A j \in Items \ {i} : slug[j] # new
  BY GeneratedIsFree DEF Addresses!Create, Addresses!Taken, Addresses!TakenLive
<1>2. /\ slug' = [slug EXCEPT ![i] = new] /\ known' = [known EXCEPT ![i] = {slug'[i]}]
      /\ retired' = retired
  BY DEF Addresses!Create
<1> HIDE DEF new
<1>3. slug' \in [Items -> Addresses!Slugs \cup {None}] /\ known' \in [Items -> SUBSET Addresses!Slugs]
  BY <1>1, <1>2 DEF AddressInv
<1>4. slug'[i] = new /\ known'[i] = {new}
  BY <1>2 DEF AddressInv
<1>5. \A j \in Items \ {i} : slug'[j] = slug[j] /\ known'[j] = known[j]
  BY <1>2 DEF AddressInv
<1>6. \A j, k \in Items : slug'[j] # None /\ slug'[j] = slug'[k] => j = k
  BY <1>1, <1>4, <1>5 DEF AddressInv
<1>7. \A j \in Items : slug'[j] # None => retired'[slug'[j]] = None
  BY <1>1, <1>2, <1>4, <1>5 DEF AddressInv
<1>8. \A j \in Items : slug'[j] # None => \A s \in known'[j] : s = slug'[j] \/ retired'[s] = j
  BY <1>2, <1>4, <1>5 DEF AddressInv
<1> QED
  BY <1>2, <1>3, <1>6, <1>7, <1>8 DEF AddressInv

\* What an item gives up is recorded as its own: nobody else had it.
LEMMA RenameKeeps ==
  ASSUME AddressInv, NEW i \in Items, NEW stem \in Stems, Addresses!Resolved(i, stem)
  PROVE  AddressInv'
<1> DEFINE new == Addresses!Generated(i, stem)
           old == slug[i]
<1>1. new \in Addresses!Slugs /\ retired[new] = None /\ \A j \in Items \ {i} : slug[j] # new
  BY GeneratedIsFree DEF Addresses!Resolved, Addresses!Taken, Addresses!TakenLive
<1>2. /\ old \in Addresses!Slugs /\ old # None /\ retired[old] = None
      /\ \A j \in Items \ {i} : slug[j] # old
  BY DEF Addresses!Resolved, AddressInv
<1>3. /\ slug' = [slug EXCEPT ![i] = new] /\ known' = [known EXCEPT ![i] = @ \cup {slug'[i]}]
      /\ retired' = Addresses!Recorded(i, old, slug'[i])
  BY DEF Addresses!Resolved
<1> HIDE DEF new
<1>4. /\ slug'[i] = new /\ known'[i] = known[i] \cup {new}
      /\ \A j \in Items \ {i} : slug'[j] = slug[j] /\ known'[j] = known[j]
  BY <1>3 DEF AddressInv
<1>5. slug' \in [Items -> Addresses!Slugs \cup {None}] /\ known' \in [Items -> SUBSET Addresses!Slugs]
  BY <1>1, <1>3, <1>4 DEF AddressInv
<1>6. /\ retired' \in [Addresses!Slugs -> Items \cup {None}]
      /\ retired'[old] = IF old = new THEN None ELSE i
      /\ \A s \in Addresses!Slugs \ {old} : retired'[s] = retired[s]
  BY <1>2, <1>3, <1>4 DEF AddressInv, Addresses!Recorded
<1>7. \A j, k \in Items : slug'[j] # None /\ slug'[j] = slug'[k] => j = k
  BY <1>1, <1>4 DEF AddressInv
<1>8. \A j \in Items : slug'[j] # None => retired'[slug'[j]] = None
  <2>1. retired'[new] = None
    BY <1>1, <1>6
  <2>2. ASSUME NEW j \in Items \ {i}, slug[j] # None PROVE retired'[slug[j]] = None
    BY <1>2, <1>6, <2>2 DEF AddressInv
  <2> QED
    BY <1>4, <2>1, <2>2
<1>9. ASSUME NEW j \in Items, slug'[j] # None, NEW s \in known'[j]
      PROVE  s = slug'[j] \/ retired'[s] = j
  <2>1. s \in Addresses!Slugs
    BY <1>5
  <2>2. CASE j = i
    <3>1. s = new \/ s = old \/ retired[s] = i
      BY <1>2, <1>4, <1>9, <2>2 DEF AddressInv
    <3> QED
      BY <1>2, <1>4, <1>6, <2>1, <2>2, <3>1
  <2>3. CASE j # i
    <3>1. slug[j] # None /\ (s = slug[j] \/ retired[s] = j)
      BY <1>4, <1>9, <2>3 DEF AddressInv
    <3>2. s = slug[j] \/ s # old
      BY <1>2, <3>1, LinksAssumption
    <3> QED
      BY <1>4, <1>6, <2>1, <2>3, <3>1, <3>2
  <2> QED
    BY <2>2, <2>3
<1> QED
  BY <1>5, <1>6, <1>7, <1>8, <1>9 DEF AddressInv

LEMMA DeleteKeeps ==
  ASSUME AddressInv, NEW i \in Items, Addresses!Delete(i)
  PROVE  AddressInv'
<1>1. /\ slug' = [slug EXCEPT ![i] = None] /\ known' = known /\ retired' = retired
  BY DEF Addresses!Delete
<1>2. /\ slug' \in [Items -> Addresses!Slugs \cup {None}] /\ slug'[i] = None
      /\ \A j \in Items \ {i} : slug'[j] = slug[j]
  BY <1>1 DEF AddressInv
<1> QED
  BY <1>1, <1>2 DEF AddressInv

LEMMA AddressStep == AddressInv /\ [Addresses!Next]_(Addresses!vars) => AddressInv'
<1> SUFFICES ASSUME AddressInv, [Addresses!Next]_(Addresses!vars) PROVE AddressInv'
  OBVIOUS
<1>1. CASE UNCHANGED Addresses!vars
  BY <1>1 DEF Addresses!vars, AddressInv
<1> QED
  BY <1>1, CreateKeeps, RenameKeeps, DeleteKeeps
     DEF Addresses!Next, Addresses!Rename, Addresses!Retype

\* What the history has leads to no live item but its own, and there for a Story.
LEMMA RetiredLeads ==
  ASSUME AddressInv, NEW i \in Items, NEW s \in Addresses!Slugs, retired[s] = i
  PROVE  Addresses!LeadsTo(s) = IF targetType = "STORY" /\ slug[i] # None THEN i ELSE None
<1>1. i # None /\ s # None
  BY LinksAssumption
<1>2. \A j \in Items : slug[j] # s
  BY <1>1 DEF AddressInv
<1> QED
  BY <1>1, <1>2 DEF Addresses!LeadsTo

LEMMA KnownLeadsBack == AddressInv => Addresses!LinksKeepLeading
<1> SUFFICES ASSUME AddressInv, NEW i \in Items, NEW s \in known[i]
             PROVE  /\ slug[i] # None =>
                        Addresses!LeadsTo(s) = IF targetType = "STORY" \/ s = slug[i] THEN i ELSE None
                    /\ retired[s] = i => Addresses!LeadsTo(s) \in {i, None}
  BY DEF Addresses!LinksKeepLeading
<1>1. s \in Addresses!Slugs /\ s # None
  BY LinksAssumption DEF AddressInv
<1>2. CASE s = slug[i]
  <2>1. \A j \in Items : slug[j] = s <=> j = i
    BY <1>1, <1>2 DEF AddressInv
  <2>2. Addresses!LeadsTo(s) = i
    BY <2>1 DEF Addresses!LeadsTo
  <2> QED
    BY <1>2, <2>2
<1>3. CASE s # slug[i]
  <2>1. slug[i] # None => retired[s] = i
    BY <1>3 DEF AddressInv
  <2>2. retired[s] = i =>
          Addresses!LeadsTo(s) = IF targetType = "STORY" /\ slug[i] # None THEN i ELSE None
    BY <1>1, RetiredLeads
  <2> QED
    BY <1>3, <2>1, <2>2
<1> QED
  BY <1>2, <1>3

--------------------------------------------------------------------------------
(* The Spotlight.                                                          *)

LEMMA SpotlightSpec == Spec => Spotlight!Spec
<1>1. Init => Spotlight!Init
  BY DEF Init
<1>2. [Next]_vars => [Spotlight!Next]_(Spotlight!vars)
  BY DEF Next, vars, spotlight, Spotlight!vars
<1> QED
  BY <1>1, <1>2, PTL DEF Spec, Spotlight!Spec

\* A period ends after it starts, however the entry came by it.
PeriodInv ==
  /\ entry \in [Entries -> Spotlight!SpotlightRow \cup {None}]
  /\ date \in Spotlight!Dates
  /\ \A e \in Entries :
       entry[e] # None => Spotlight!AssertPeriod(entry[e].startsAt, entry[e].endsAt)

LEMMA PeriodInit == Spotlight!Init => PeriodInv
  BY SpotlightAssumption DEF Spotlight!Init, PeriodInv, Spotlight!Dates

\* A handler that writes one entry's row, or deletes it.
LEMMA EntryWritten ==
  ASSUME PeriodInv, NEW e \in Entries, NEW r \in Spotlight!SpotlightRow \cup {None},
         r # None => Spotlight!AssertPeriod(r.startsAt, r.endsAt),
         entry' = [entry EXCEPT ![e] = r], UNCHANGED date
  PROVE  PeriodInv'
<1>1. /\ entry' \in [Entries -> Spotlight!SpotlightRow \cup {None}] /\ entry'[e] = r
      /\ \A f \in Entries \ {e} : entry'[f] = entry[f]
  BY DEF PeriodInv
<1>2. ASSUME NEW f \in Entries, entry'[f] # None
      PROVE  Spotlight!AssertPeriod(entry'[f].startsAt, entry'[f].endsAt)
  <2>1. CASE f = e
    BY <1>1, <1>2, <2>1
  <2>2. CASE f # e
    BY <1>1, <1>2, <2>2 DEF PeriodInv
  <2> QED
    BY <2>1, <2>2
<1>3. date' \in Spotlight!Dates
  BY DEF PeriodInv
<1> QED
  BY <1>1, <1>2, <1>3 DEF PeriodInv, Spotlight!AssertPeriod

LEMMA PeriodStep == PeriodInv /\ [Spotlight!Next]_(Spotlight!vars) => PeriodInv'
<1> SUFFICES ASSUME PeriodInv, [Spotlight!Next]_(Spotlight!vars) PROVE PeriodInv'
  OBVIOUS
<1>1. ASSUME NEW e \in Entries, NEW w \in Featured, NEW starts \in Spotlight!Dates,
             NEW ends \in Spotlight!Ends, NEW b \in BOOLEAN, Spotlight!AssertPeriod(starts, ends),
             entry' = [entry EXCEPT ![e] = [work |-> w, startsAt |-> starts, endsAt |-> ends,
                                            isPublished |-> b]],
             UNCHANGED date
      PROVE  PeriodInv'
  <2> DEFINE r == [work |-> w, startsAt |-> starts, endsAt |-> ends, isPublished |-> b]
  <2>1. r \in Spotlight!SpotlightRow /\ r.startsAt = starts /\ r.endsAt = ends
    BY DEF Spotlight!SpotlightRow
  <2>2. entry' = [entry EXCEPT ![e] = r]
    BY <1>1
  <2> HIDE DEF r
  <2> QED
    BY <1>1, <2>1, <2>2, EntryWritten
<1>2. ASSUME NEW e \in Entries, entry[e] # None, NEW b \in BOOLEAN,
             entry' = [entry EXCEPT ![e].isPublished = b], UNCHANGED date
      PROVE  PeriodInv'
  <2> DEFINE r == [entry[e] EXCEPT !.isPublished = b]
  <2>1. /\ entry[e] \in Spotlight!SpotlightRow
        /\ Spotlight!AssertPeriod(entry[e].startsAt, entry[e].endsAt)
    BY <1>2 DEF PeriodInv
  <2>2. r \in Spotlight!SpotlightRow /\ r.startsAt = entry[e].startsAt /\ r.endsAt = entry[e].endsAt
    BY <2>1 DEF Spotlight!SpotlightRow
  <2>3. entry' = [entry EXCEPT ![e] = r]
    BY <1>2
  <2> HIDE DEF r
  <2> QED
    BY <1>2, <2>1, <2>2, <2>3, EntryWritten
<1>3. ASSUME NEW e \in Entries, NEW w \in Featured, NEW starts \in Spotlight!Dates,
             NEW ends \in Spotlight!Ends,
             \/ Spotlight!Create(e, w, starts, ends)
             \/ \E b \in BOOLEAN : Spotlight!Update(e, w, starts, ends, b)
      PROVE  PeriodInv'
  BY <1>1, <1>3 DEF Spotlight!Create, Spotlight!Update
<1>4. ASSUME NEW e \in Entries, Spotlight!Publish(e) \/ Spotlight!Unpublish(e) PROVE PeriodInv'
  BY <1>2, <1>4 DEF Spotlight!Publish, Spotlight!Unpublish
<1>5. ASSUME NEW e \in Entries, Spotlight!Remove(e) PROVE PeriodInv'
  BY <1>5, EntryWritten DEF Spotlight!Remove
<1>6. ASSUME UNCHANGED entry, date' \in Spotlight!Dates PROVE PeriodInv'
  BY <1>6 DEF PeriodInv
<1>7. ASSUME NEW w \in Featured, NEW to \in {"listed", "unlisted", "gone"}, Spotlight!WorkChanges(w, to)
      PROVE  PeriodInv'
  BY <1>6, <1>7 DEF Spotlight!WorkChanges, PeriodInv
<1>8. CASE Spotlight!Pass
  BY <1>6, <1>8, SpotlightAssumption DEF Spotlight!Pass, PeriodInv, Spotlight!Dates
<1>9. CASE UNCHANGED Spotlight!vars
  BY <1>6, <1>9 DEF Spotlight!vars, PeriodInv
<1> QED
  BY <1>3, <1>4, <1>5, <1>7, <1>8, <1>9 DEF Spotlight!Next

LEMMA PartedByPeriod == PeriodInv => Spotlight!EveryEntryInOnePlace
<1> SUFFICES ASSUME PeriodInv PROVE Spotlight!EveryEntryInOnePlace
  OBVIOUS
<1> DEFINE begun(e) == entry[e].startsAt <= date
           over(e) == entry[e].endsAt # None /\ entry[e].endsAt <= date
<1>1. ASSUME NEW e \in Entries, entry[e] # None
      PROVE  /\ over(e) => begun(e)
             /\ ~over(e) <=> (entry[e].endsAt = None \/ entry[e].endsAt > date)
  <2>1. entry[e] \in Spotlight!SpotlightRow
    BY <1>1 DEF PeriodInv
  <2>2. entry[e].startsAt \in Nat /\ entry[e].endsAt \in Nat \cup {None} /\ date \in Nat
    BY <2>1, SpotlightAssumption DEF Spotlight!SpotlightRow, Spotlight!Dates, Spotlight!Ends, PeriodInv
  <2>3. entry[e].endsAt # None => entry[e].endsAt > entry[e].startsAt
    BY <1>1 DEF PeriodInv, Spotlight!AssertPeriod
  <2> QED
    BY <2>2, <2>3
<1> DEFINE read(e) == e \in Spotlight!Published /\ Spotlight!Listed(entry[e].work)
<1>2. \A e \in Entries : e \in Spotlight!FindShowing <=> read(e) /\ begun(e) /\ ~over(e)
  BY <1>1 DEF Spotlight!FindShowing, Spotlight!WithTargets, Spotlight!Published
<1>3. \A e \in Entries : e \in Spotlight!FindArchive <=> read(e) /\ over(e)
  BY DEF Spotlight!FindArchive, Spotlight!WithTargets, Spotlight!Published
<1>4. \A e \in Entries : Spotlight!FindBySlug(e) = IF read(e) /\ begun(e) THEN {e} ELSE {}
  BY DEF Spotlight!FindBySlug, Spotlight!WithTargets, Spotlight!Published
<1>5. Spotlight!FindShowing \subseteq Entries /\ Spotlight!FindArchive \subseteq Entries
  BY DEF Spotlight!FindShowing, Spotlight!FindArchive, Spotlight!WithTargets, Spotlight!Published
<1>6. \A e \in Entries : read(e) /\ over(e) => begun(e)
  BY <1>1 DEF Spotlight!Published
<1> HIDE DEF read, begun, over
<1>7. Spotlight!FindShowing \cap Spotlight!FindArchive = {}
  BY <1>2, <1>3, <1>5
<1>8. ASSUME NEW e \in Entries
      PROVE  Spotlight!FindBySlug(e) = {e} \cap (Spotlight!FindShowing \cup Spotlight!FindArchive)
  BY <1>2, <1>3, <1>4, <1>6
<1> QED
  BY <1>7, <1>8 DEF Spotlight!EveryEntryInOnePlace

--------------------------------------------------------------------------------
(* The feed, and what readers are offered.                                 *)

WorkRow == [status : {"PUBLISHED", "UNPUBLISHED"}, visibility : {"PUBLIC", "UNLISTED", "PRIVATE"},
            moderation : {"ACTIVE", "REMOVED"}]

WorksInv == story \in WorkRow /\ chapter \in WorkRow /\ arc \in WorkRow

\* The index has the title, and nothing else below a Story without a tag.
IndexInv == tagged \in BOOLEAN /\ title \in vector /\ (~tagged => vector = {title})

LEMMA WorksInit == Init => WorksInv /\ IndexInv
<1> SUFFICES ASSUME Init PROVE WorksInv /\ IndexInv
  OBVIOUS
<1>1. Feed!Draft \in WorkRow /\ [Feed!Draft EXCEPT !.status = "PUBLISHED"] \in WorkRow
  BY DEF Feed!Draft, WorkRow
<1>2. WorksInv
  BY <1>1 DEF Init, Feed!Init, WorksInv
<1>3. tagged = FALSE /\ vector = {title}
  BY DEF Init, Readers!Init
<1>4. IndexInv
  BY <1>3 DEF IndexInv
<1> QED
  BY <1>2, <1>4

LEMMA WorkChanged ==
  ASSUME NEW w \in WorkRow
  PROVE  /\ [w EXCEPT !.status = "PUBLISHED"] \in WorkRow
         /\ Feed!Changed(w) \subseteq WorkRow /\ Feed!Shown(w) \subseteq WorkRow
<1>1. [w EXCEPT !.status = "PUBLISHED"] \in WorkRow /\ [w EXCEPT !.status = "UNPUBLISHED"] \in WorkRow
  BY DEF WorkRow
<1>2. \A m \in {"ACTIVE", "REMOVED"} : [w EXCEPT !.moderation = m] \in WorkRow
  BY DEF WorkRow
<1>3. \A v \in {"PUBLIC", "UNLISTED", "PRIVATE"} : [w EXCEPT !.visibility = v] \in WorkRow
  BY DEF WorkRow
<1> QED
  BY <1>1, <1>2, <1>3 DEF Feed!Changed, Feed!Shown

\* Whatever happens to the works, in the feed's run or in the readers'.
LEMMA FeedKeeps == WorksInv /\ Feed!Next => WorksInv'
<1> SUFFICES ASSUME WorksInv, Feed!Next PROVE WorksInv'
  OBVIOUS
<1>1. ASSUME UNCHANGED <<story, chapter, arc>> PROVE WorksInv'
  BY <1>1 DEF WorksInv
<1>2. CASE Feed!PublishStory
  BY <1>2, WorkChanged DEF WorksInv, Feed!PublishStory
<1>3. CASE Feed!PublishChapter
  BY <1>3, WorkChanged DEF WorksInv, Feed!PublishChapter
<1>4. CASE Feed!PublishArc
  BY <1>4, WorkChanged DEF WorksInv, Feed!PublishArc
<1>5. CASE Feed!ChangeWork
  BY <1>5, WorkChanged DEF WorksInv, Feed!ChangeWork
<1>6. CASE Feed!OpenMembership \/ Feed!Decline
  BY <1>1, <1>6 DEF Feed!OpenMembership, Feed!Decline
<1>7. ASSUME NEW t \in Feed!Targets, Feed!Follow(t) \/ Feed!Unfollow(t) PROVE WorksInv'
  BY <1>1, <1>7 DEF Feed!Follow, Feed!Unfollow
<1>8. ASSUME NEW by \in {"author", "curator"}, Feed!Join(by) \/ Feed!Leave(by) PROVE WorksInv'
  BY <1>1, <1>8 DEF Feed!Join, Feed!Leave
<1> QED
  BY <1>2, <1>3, <1>4, <1>5, <1>6, <1>7, <1>8 DEF Feed!Next

LEMMA WorksKeep == WorksInv /\ Readers!Works!Next => WorksInv'
<1> SUFFICES ASSUME WorksInv, Readers!Works!Next PROVE WorksInv'
  OBVIOUS
<1> DEFINE Changed(w) == Readers!Works!Changed(w) \cup Readers!Works!Shown(w)
<1>1. ASSUME UNCHANGED <<story, chapter, arc>> PROVE WorksInv'
  BY <1>1 DEF WorksInv
<1>2. ASSUME NEW w \in WorkRow PROVE Changed(w) \subseteq WorkRow
  BY WorkChanged DEF Readers!Works!Changed, Readers!Works!Shown, Feed!Changed, Feed!Shown
<1>3. CASE Readers!Works!PublishStory
  BY <1>3, WorkChanged DEF WorksInv, Readers!Works!PublishStory
<1>4. CASE Readers!Works!PublishChapter
  BY <1>4, WorkChanged DEF WorksInv, Readers!Works!PublishChapter
<1>5. CASE Readers!Works!PublishArc
  BY <1>5, WorkChanged DEF WorksInv, Readers!Works!PublishArc
<1>6. CASE Readers!Works!ChangeWork
  <2>1. /\ story' \in Changed(story) \cup {story} /\ chapter' \in Changed(chapter) \cup {chapter}
        /\ arc' \in Changed(arc) \cup {arc}
    BY <1>6 DEF Readers!Works!ChangeWork
  <2> HIDE DEF Changed
  <2> QED
    BY <1>2, <2>1 DEF WorksInv
<1>7. CASE Readers!Works!OpenMembership \/ Readers!Works!Decline
  BY <1>1, <1>7 DEF Readers!Works!OpenMembership, Readers!Works!Decline
<1>8. ASSUME NEW t \in Readers!Works!Targets, Readers!Works!Follow(t) \/ Readers!Works!Unfollow(t)
      PROVE  WorksInv'
  BY <1>1, <1>8 DEF Readers!Works!Follow, Readers!Works!Unfollow
<1>9. ASSUME NEW by \in {"author", "curator"}, Readers!Works!Join(by) \/ Readers!Works!Leave(by)
      PROVE  WorksInv'
  BY <1>1, <1>9 DEF Readers!Works!Join, Readers!Works!Leave
<1> QED
  BY <1>3, <1>4, <1>5, <1>6, <1>7, <1>8, <1>9 DEF Readers!Works!Next

\* Every write of the title, of the tags or of the Story's row indexes it again;
\* what becomes of the tag itself does not.
LEMMA IndexKeeps == WorksInv /\ IndexInv /\ Readers!Next => WorksInv' /\ IndexInv'
<1> SUFFICES ASSUME WorksInv, IndexInv, Readers!Next PROVE WorksInv' /\ IndexInv'
  OBVIOUS
<1>1. ASSUME UNCHANGED <<story, chapter, arc>> PROVE WorksInv'
  BY <1>1 DEF WorksInv
<1>2. \A w, b, name : w \in Readers!Indexed(w, b, name) /\ (~b => Readers!Indexed(w, b, name) = {w})
  BY DEF Readers!Indexed
<1>3. CASE Readers!ChangeWorks
  <2>1. WorksInv'
    BY <1>3, WorksKeep DEF Readers!ChangeWorks
  <2>2. /\ UNCHANGED <<title, tagged>>
        /\ vector' = vector \/ vector' = Readers!Indexed(title, tagged, tag.name)
    BY <1>3 DEF Readers!ChangeWorks
  <2> QED
    BY <1>2, <2>1, <2>2 DEF IndexInv
<1>4. ASSUME NEW w \in Words, Readers!Retitle(w) PROVE WorksInv' /\ IndexInv'
  BY <1>1, <1>2, <1>4 DEF IndexInv, Readers!Retitle, Readers!works
<1>5. ASSUME UNCHANGED <<story, chapter, arc, title, tagged, vector>> PROVE WorksInv' /\ IndexInv'
  BY <1>1, <1>5 DEF IndexInv
<1>6. ASSUME NEW w \in Words, Readers!CreateTag(w) \/ Readers!UpdateTag(w)
      PROVE  WorksInv' /\ IndexInv'
  BY <1>5, <1>6 DEF Readers!CreateTag, Readers!UpdateTag, Readers!works
<1>7. ASSUME NEW b \in BOOLEAN, Readers!SetTags(b) PROVE WorksInv' /\ IndexInv'
  <2>1. /\ UNCHANGED <<story, chapter, arc, title>> /\ tagged' = b
        /\ vector' = IF tagged \/ b THEN Readers!Indexed(title, b, tag.name) ELSE vector
    BY <1>7 DEF Readers!SetTags, Readers!works
  <2>2. CASE tagged \/ b
    BY <1>1, <1>2, <2>1, <2>2 DEF IndexInv
  <2>3. CASE ~tagged /\ ~b
    BY <1>1, <2>1, <2>3 DEF IndexInv
  <2> QED
    BY <2>2, <2>3
<1>8. ASSUME NEW b \in BOOLEAN, Readers!SetAppearances(b) PROVE WorksInv' /\ IndexInv'
  BY <1>5, <1>8 DEF Readers!SetAppearances, Readers!works
<1>9. CASE Readers!RemoveTag \/ Readers!RemoveCharacter \/ Readers!ModerateCharacter
  BY <1>5, <1>9 DEF Readers!RemoveTag, Readers!RemoveCharacter, Readers!ModerateCharacter, Readers!works
<1>10. ASSUME NEW target, Readers!Recommend(target) \/ Readers!Withdraw(target)
       PROVE  WorksInv' /\ IndexInv'
  BY <1>5, <1>10 DEF Readers!Recommend, Readers!Withdraw, Readers!works
<1> QED
  BY <1>3, <1>4, <1>6, <1>7, <1>8, <1>9, <1>10 DEF Readers!Next

LEMMA WorksStep == WorksInv /\ IndexInv /\ [Next]_vars => WorksInv' /\ IndexInv'
<1> SUFFICES ASSUME WorksInv, IndexInv, [Next]_vars PROVE WorksInv' /\ IndexInv'
  OBVIOUS
<1>1. CASE UNCHANGED readers /\ UNCHANGED feed
  BY <1>1 DEF WorksInv, IndexInv, readers, feed
<1>2. CASE UNCHANGED readers /\ Feed!Next
  BY <1>2, FeedKeeps DEF IndexInv, readers
<1>3. CASE Readers!Next
  BY <1>3, IndexKeeps
<1> QED
  BY <1>1, <1>2, <1>3 DEF Next, vars

LEMMA FeedOpens == WorksInv => Feed!ShownCanBeOpened
  BY DEF WorksInv, WorkRow, Feed!ShownCanBeOpened, Feed!Feed, Feed!StoryShown, Feed!ChapterShown,
         Feed!StoryOpens, Feed!ChapterOpens, Feed!Published, Feed!Active

\* What each place offers, and what the page it leads to answers.
LEMMA ReadersOpen == WorksInv /\ IndexInv => Readers!OffersOpen
<1> SUFFICES ASSUME WorksInv, IndexInv PROVE Readers!OffersOpen
  OBVIOUS
<1> DEFINE listed == Readers!Works!Published(story) /\ story.visibility = "PUBLIC" /\ Readers!Works!Active(story)
           opens == Readers!Works!StoryOpens
           chapterOut == Readers!Works!Published(chapter) /\ Readers!Works!Active(chapter)
<1>1. listed => opens
  BY DEF Readers!Works!StoryOpens
<1>2. Readers!StoryPage = "OK" <=> opens
  BY DEF Readers!StoryPage, Readers!Works!StoryOpens, Readers!Works!Active
<1>3. Readers!ChapterPage = "OK" <=> opens /\ chapterOut
  BY <1>2 DEF Readers!ChapterPage
<1>4. Readers!CharacterPage = "OK" <=> opens /\ person = "ACTIVE"
  BY <1>2 DEF Readers!CharacterPage
<1>5. Readers!ArcPage = "OK" <=> Readers!Works!ArcOpens
  BY DEF Readers!ArcPage, Readers!Works!ArcOpens, Readers!Works!Active
<1>6. Readers!Discoverable => Readers!Works!ArcOpens /\ arc.visibility = "PUBLIC"
  BY DEF Readers!Discoverable, Readers!Works!ArcOpens
<1> HIDE DEF listed, opens, chapterOut
<1>7. Readers!StoryListing = IF listed THEN {"story"} ELSE {}
  BY DEF Readers!StoryListing, Readers!If, listed
<1>8. Readers!ReadableChapters = IF chapterOut THEN {"chapter"} ELSE {}
  BY DEF Readers!ReadableChapters, Readers!If, chapterOut
<1>9. ASSUME NEW w
      PROVE  \A target \in Readers!Search(w) :
               \/ target \in {"story", "chapter", "character"} /\ listed /\ Readers!Page[target] = "OK"
               \/ target = "arc" /\ Readers!Discoverable
  <2>1. Readers!StoryListing # {} <=> listed
    BY <1>7
  <2>2. Readers!ReadableChapters # {} <=> chapterOut
    BY <1>8
  <2> QED
    BY <1>1, <1>2, <1>3, <1>4, <2>1, <2>2
       DEF Readers!Search, Readers!If, Readers!ArcListing, Readers!Page
<1>10. \A target \in Readers!Discovered :
         \/ target \in {"story", "chapter", "character"} /\ listed /\ Readers!Page[target] = "OK"
         \/ target = "arc" /\ Readers!Discoverable
  BY <1>1, <1>2, <1>7, <1>9
     DEF Readers!Discovered, Readers!ArcListing, Readers!StoryArcs, Readers!If, Readers!Page
<1>11. \A target \in Readers!Discovered : Readers!Page[target] = "OK"
  BY <1>5, <1>6, <1>10 DEF Readers!Page
<1>12. \A target \in Readers!StoryChapters \cup Readers!StoryCast \cup Readers!AppearsIn :
         Readers!Page[target] = "OK"
  BY <1>2, <1>3, <1>4, <1>8
     DEF Readers!StoryChapters, Readers!StoryCast, Readers!AppearsIn, Readers!If, Readers!Page
<1>13. \A target \in Readers!ArcStories \cup Readers!ReadingList : Readers!Page[target] = "OK"
  BY <1>2, <1>5 DEF Readers!ArcStories, Readers!ReadingList, Readers!If, Readers!Page, opens
<1>14. \A target \in Readers!Offered : Readers!Page[target] = "OK"
  BY <1>11, <1>12, <1>13 DEF Readers!Offered
<1>15. {"story", "chapter", "character"} \cap Readers!Discovered # {} => story.visibility = "PUBLIC"
  BY <1>10 DEF listed
<1>16. "arc" \in Readers!Discovered => arc.visibility = "PUBLIC"
  BY <1>6, <1>10
<1> QED
  BY <1>14, <1>15, <1>16 DEF Readers!OffersOpen, IndexInv

\* In StorytimeAddresses an address a Story was reached at leads to it while it is
\* there, and one of anything else to it or nowhere; in StorytimeSpotlight an entry is
\* on one of two pages and opens from it; in StorytimeFeed and StorytimeReaders
\* whatever names a work leads to a page that opens, and what is unlisted is in no
\* listing and no search.
THEOREM LinksLead == Spec => []LinksKeepLeading
<1>1. Addresses!Spec => []AddressInv
  BY AddressInit, AddressStep, PTL DEF Addresses!Spec
<1>2. Spotlight!Spec => []PeriodInv
  BY PeriodInit, PeriodStep, PTL DEF Spotlight!Spec
<1>3. Spec => [](WorksInv /\ IndexInv)
  BY WorksInit, WorksStep, PTL DEF Spec
<1>4. AddressInv /\ PeriodInv /\ WorksInv /\ IndexInv => LinksKeepLeading
  BY KnownLeadsBack, PartedByPeriod, FeedOpens, ReadersOpen DEF LinksKeepLeading
<1> QED
  BY <1>1, <1>2, <1>3, <1>4, AddressesSpec, SpotlightSpec, PTL

--------------------------------------------------------------------------------
(* Deletions in a member's definitions.                                    *)

LEMMA TrackingSpec == Spec => Tracking!Init /\ [][Tracking!Serial]_(Tracking!vars)
<1>1. Init => Tracking!Init
  BY DEF Init
<1>2. [Next]_vars => [Tracking!Serial]_(Tracking!vars)
  BY DEF Next, vars, tracking, Tracking!vars
<1> QED
  BY <1>1, <1>2, PTL DEF Spec

Moments == Nat \cup {None, Absent}
HasParent == Tabs \cup Fields \cup FieldOptions

\* A row below another is gone, or has a live parent, or was deleted no later.
Outlived(k, p) == k = Absent \/ p = None \/ (k \in Nat /\ p \in Nat /\ k <= p)
TreeKept(at) == \A k \in HasParent : Outlived(at[k], at[Parent[k]])

\* What a handler read it can still rely on: the row it will insert is not there and
\* its parent is live, the row it will save is live, and what it will stamp is live
\* and leaves no live Tab or Field below it out.
HoldsNodes(sl, at) ==
  /\ sl.op = "read" =>
       sl = [op |-> sl.op, node |-> sl.node, kids |-> sl.kids, picture |-> sl.picture,
             image |-> sl.image, options |-> sl.options, todo |-> sl.todo]
  /\ sl.op = "insert" =>
       /\ sl.node \in Tracking!Nodes /\ at[sl.node] = Absent
       /\ sl.node \notin Sections => at[Parent[sl.node]] = None
  /\ sl.op = "save" => sl.node \in Tracking!Nodes /\ at[sl.node] = None
  /\ sl.op = "stamp" =>
       /\ sl.node \in Tracking!Nodes /\ at[sl.node] = None
       /\ sl.kids \subseteq Tracking!Nodes /\ \A k \in sl.kids : at[k] = None
       /\ \A k \in Tabs \cup Fields :
            at[k] = None /\ Parent[k] \in sl.kids \cup {sl.node} => k \in sl.kids

\* Every row was deleted by today and no later than what is above it, and an answer
\* that selects an Option is of a Field that is there.
TreeInv ==
  /\ deletedAt \in [Tracking!Nodes -> Moments] /\ day \in Nat
  /\ \A n \in Tracking!Nodes : deletedAt[n] \in Nat => deletedAt[n] <= day
  /\ TreeKept(deletedAt)
  /\ chosen = [f \in Tracking!ChoiceFields |-> chosen[f]]
  /\ \A f \in Tracking!ChoiceFields : chosen[f] # {} => deletedAt[f] # Absent
  /\ slots = [s \in Tracking!Slots |-> slots[s]]
  /\ \A r \in Requests : HoldsNodes(slots[r], deletedAt)

\* The four levels, each below the one before.
LEMMA Levels ==
  /\ HasParent \subseteq Tracking!Nodes /\ DOMAIN Parent = HasParent
  /\ \A k \in HasParent : Parent[k] \in Tracking!Nodes \ FieldOptions
  /\ \A t \in Tabs : Parent[t] \in Sections
  /\ \A f \in Fields : Parent[f] \in Tabs
  /\ \A o \in FieldOptions : Parent[o] \in Fields
  /\ Sections \cap HasParent = {} /\ Tabs \cap (Fields \cup FieldOptions) = {}
  /\ Fields \cap FieldOptions = {}
  BY TreeAssumption DEF HasParent, Tracking!Nodes

\* What holds of a row and of every row whose parent it holds of, holds below it.
LEMMA BelowWithin ==
  ASSUME NEW G, NEW X \in SUBSET G, \A k \in HasParent : Parent[k] \in G => k \in G
  PROVE  Tracking!Below(X) \subseteq G
<1>1. \A S \in SUBSET G : Tracking!Kids(S) \subseteq G
  BY Levels DEF Tracking!Kids
<1> QED
  BY <1>1 DEF Tracking!Below

\* Four levels are three generations of children.
LEMMA BelowClosed ==
  ASSUME NEW X \in SUBSET Tracking!Nodes, NEW k \in HasParent, Parent[k] \in X \cup Tracking!Below(X)
  PROVE  k \in Tracking!Below(X)
<1>1. \A S : Tracking!Kids(S) \subseteq HasParent
  BY Levels DEF Tracking!Kids
<1>2. Tracking!Kids(Tracking!Kids(X)) \subseteq Fields \cup FieldOptions
  BY <1>1, Levels DEF Tracking!Kids, HasParent
<1>3. Tracking!Kids(Tracking!Kids(Tracking!Kids(X))) \subseteq FieldOptions
  BY <1>2, Levels DEF Tracking!Kids, HasParent
<1>4. Parent[k] \notin Tracking!Kids(Tracking!Kids(Tracking!Kids(X)))
  BY <1>3, Levels
<1>5. \A S : Parent[k] \in S => k \in Tracking!Kids(S)
  BY Levels DEF Tracking!Kids
<1> QED
  BY <1>4, <1>5 DEF Tracking!Below

LEMMA TreeInit == Tracking!Init => TreeInv
<1> SUFFICES ASSUME Tracking!Init PROVE TreeInv
  OBVIOUS
<1>1. deletedAt = [n \in Tracking!Nodes |-> Absent] /\ day = 0
  BY DEF Tracking!Init, Tracking!Quiet
<1>2. chosen = [f \in Tracking!ChoiceFields |-> {}] /\ slots = [s \in Tracking!Slots |-> Tracking!Idle]
  BY DEF Tracking!Init, Tracking!Quiet
<1>3. TreeKept(deletedAt)
  BY <1>1, Levels DEF TreeKept, Outlived
<1>4. \A r \in Requests : HoldsNodes(slots[r], deletedAt)
  BY <1>2 DEF HoldsNodes, Tracking!Idle, Tracking!Slots
<1> QED
  BY <1>1, <1>2, <1>3, <1>4, TrackingAssumption DEF TreeInv, Moments

\* A step of a handler or of the job that leaves rows and answers alone.
LEMMA SlotMoves ==
  ASSUME TreeInv, NEW s \in Tracking!Slots, NEW new,
         s \in Requests => HoldsNodes(new, deletedAt),
         Tracking!Hold(s, new), UNCHANGED <<deletedAt, chosen, day>>
  PROVE  TreeInv'
<1>1. slots' = [t \in Tracking!Slots |-> IF t = s THEN new ELSE slots[t]]
  BY DEF TreeInv, Tracking!Hold
<1>2. \A r \in Requests : HoldsNodes(slots'[r], deletedAt)
  BY <1>1 DEF TreeInv, Tracking!Slots
<1> QED
  BY <1>1, <1>2 DEF TreeInv

\* A handler that writes rows and is done; there is one.
LEMMA RowsWritten ==
  ASSUME TreeInv, NEW r \in Requests, slots' = [slots EXCEPT ![r] = Tracking!Idle],
         UNCHANGED <<chosen, day>>, deletedAt' \in [Tracking!Nodes -> Moments],
         \A n \in Tracking!Nodes : deletedAt'[n] \in Nat => deletedAt'[n] <= day,
         TreeKept(deletedAt'),
         \A n \in Tracking!Nodes : deletedAt[n] # Absent => deletedAt'[n] # Absent
  PROVE  TreeInv'
<1>1. slots' = [t \in Tracking!Slots |-> IF t = r THEN Tracking!Idle ELSE slots[t]]
  BY DEF TreeInv
<1>2. \A q \in Requests : q = r
  BY SlotAssumption
<1>3. \A q \in Requests : HoldsNodes(slots'[q], deletedAt')
  BY <1>1, <1>2 DEF HoldsNodes, Tracking!Idle, Tracking!Slots
<1>4. \A f \in Tracking!ChoiceFields : chosen'[f] # {} => deletedAt'[f] # Absent
  BY DEF TreeInv, Tracking!ChoiceFields, Tracking!Nodes
<1> QED
  BY <1>1, <1>3, <1>4 DEF TreeInv

LEMMA CreateHolds ==
  ASSUME TreeInv, NEW r \in Requests, NEW n \in Tracking!Nodes, Tracking!CreateNode(r, n),
         n \notin Sections => deletedAt[Parent[n]] = None
  PROVE  TreeInv'
<1> DEFINE new == [Tracking!Idle EXCEPT !.op = "insert", !.node = n]
<1>1. new.op = "insert" /\ new.node = n
  BY DEF Tracking!Idle
<1>2. deletedAt[n] = Absent /\ Tracking!Hold(r, new) /\ UNCHANGED <<deletedAt, chosen, day>>
  BY DEF Tracking!CreateNode, Tracking!Tree, Tracking!Answers, Tracking!Clock
<1> HIDE DEF new
<1>3. HoldsNodes(new, deletedAt)
  BY <1>1, <1>2 DEF HoldsNodes
<1> QED
  BY <1>2, <1>3, SlotMoves DEF Tracking!Slots

LEMMA LoadHolds ==
  ASSUME TreeInv, NEW r \in Requests, NEW n \in Tracking!Nodes, Tracking!LoadNode(r, n)
  PROVE  TreeInv'
<1> DEFINE new == [Tracking!Idle EXCEPT !.op = "save", !.node = n]
<1>1. new.op = "save" /\ new.node = n
  BY DEF Tracking!Idle
<1>2. deletedAt[n] = None /\ Tracking!Hold(r, new) /\ UNCHANGED <<deletedAt, chosen, day>>
  BY DEF Tracking!LoadNode, Tracking!Owned, Tracking!Live, Tracking!Tree, Tracking!Answers, Tracking!Clock
<1> HIDE DEF new
<1>3. HoldsNodes(new, deletedAt)
  BY <1>1, <1>2 DEF HoldsNodes
<1> QED
  BY <1>2, <1>3, SlotMoves DEF Tracking!Slots

LEMMA StampingHolds ==
  ASSUME TreeInv, NEW r \in Requests, NEW n \in Tracking!Nodes, NEW kids \in SUBSET Tracking!Nodes,
         Tracking!Stamping(r, n, kids), \A k \in kids : deletedAt[k] = None,
         \A k \in Tabs \cup Fields : deletedAt[k] = None /\ Parent[k] \in kids \cup {n} => k \in kids
  PROVE  TreeInv'
<1> DEFINE new == [Tracking!Idle EXCEPT !.op = "stamp", !.node = n, !.kids = kids]
<1>1. new.op = "stamp" /\ new.node = n /\ new.kids = kids
  BY DEF Tracking!Idle
<1>2. deletedAt[n] = None /\ Tracking!Hold(r, new) /\ UNCHANGED <<deletedAt, chosen, day>>
  BY DEF Tracking!Stamping, Tracking!Owned, Tracking!Live, Tracking!Tree, Tracking!Answers, Tracking!Clock
<1> HIDE DEF new
<1>3. HoldsNodes(new, deletedAt)
  BY <1>1, <1>2 DEF HoldsNodes
<1> QED
  BY <1>2, <1>3, SlotMoves DEF Tracking!Slots

\* What each deletion reads is everything live below it.
LEMMA RemoveHolds ==
  ASSUME TreeInv, NEW r \in Requests,
         \/ \E s \in Sections : Tracking!RemoveSection(r, s)
         \/ \E t \in Tabs : Tracking!RemoveTab(r, t)
         \/ \E f \in Fields : Tracking!RemoveField(r, f)
  PROVE  TreeInv'
<1>1. Sections \subseteq Tracking!Nodes /\ Tabs \subseteq Tracking!Nodes /\ Fields \subseteq Tracking!Nodes
  BY DEF Tracking!Nodes
<1>2. ASSUME NEW s \in Sections, Tracking!RemoveSection(r, s) PROVE TreeInv'
  <2> DEFINE tabs == Tracking!LiveTabs(s)
             kids == tabs \cup Tracking!LiveFields(tabs)
  <2>1. tabs = {t \in Tabs : deletedAt[t] = None /\ Parent[t] = s}
    BY DEF Tracking!LiveTabs, Tracking!Live
  <2>2. Tracking!LiveFields(tabs) = {f \in Fields : deletedAt[f] = None /\ Parent[f] \in tabs}
    BY DEF Tracking!LiveFields, Tracking!Live
  <2>3. Tracking!Stamping(r, s, kids)
    BY <1>2 DEF Tracking!RemoveSection
  <2> HIDE DEF tabs
  <2>4. kids \in SUBSET Tracking!Nodes /\ \A k \in kids : deletedAt[k] = None
    BY <1>1, <2>1, <2>2
  <2>5. ASSUME NEW k \in Tabs, deletedAt[k] = None, Parent[k] \in kids \cup {s} PROVE k \in kids
    BY <2>1, <2>2, <2>5, Levels DEF HasParent
  <2>6. ASSUME NEW k \in Fields, deletedAt[k] = None, Parent[k] \in kids \cup {s} PROVE k \in kids
    BY <2>1, <2>2, <2>6, Levels DEF HasParent
  <2> HIDE DEF kids
  <2> QED
    BY <1>1, <2>3, <2>4, <2>5, <2>6, StampingHolds
<1>3. ASSUME NEW t \in Tabs, Tracking!RemoveTab(r, t) PROVE TreeInv'
  <2> DEFINE kids == Tracking!LiveFields({t})
  <2>1. kids = {f \in Fields : deletedAt[f] = None /\ Parent[f] = t}
    BY DEF Tracking!LiveFields, Tracking!Live
  <2>2. Tracking!Stamping(r, t, kids)
    BY <1>3 DEF Tracking!RemoveTab
  <2> HIDE DEF kids
  <2>3. kids \in SUBSET Tracking!Nodes /\ \A k \in kids : deletedAt[k] = None
    BY <1>1, <2>1
  <2>4. ASSUME NEW k \in Tabs \cup Fields, deletedAt[k] = None, Parent[k] \in kids \cup {t}
        PROVE  k \in kids
    BY <2>1, <2>4, Levels DEF HasParent
  <2> QED
    BY <1>1, <2>2, <2>3, <2>4, StampingHolds
<1>4. ASSUME NEW f \in Fields, Tracking!RemoveField(r, f) PROVE TreeInv'
  <2>1. \A k \in Tabs \cup Fields : Parent[k] # f
    BY Levels DEF HasParent
  <2> QED
    BY <1>1, <1>4, <2>1, StampingHolds DEF Tracking!RemoveField
<1> QED
  BY <1>2, <1>3, <1>4

\* The parent it asked for is still live, and the new row has none below it.
LEMMA InsertKeeps ==
  ASSUME TreeInv, NEW r \in Requests, Tracking!InsertNode(r)
  PROVE  TreeInv'
<1> DEFINE n == slots[r].node
<1>1. /\ n \in Tracking!Nodes /\ deletedAt[n] = Absent
      /\ n \notin Sections => deletedAt[Parent[n]] = None
  BY DEF Tracking!InsertNode, TreeInv, HoldsNodes
<1>2. /\ deletedAt' = IF n \in Sections \/ deletedAt[Parent[n]] # Absent
                      THEN [deletedAt EXCEPT ![n] = None] ELSE deletedAt
      /\ slots' = [slots EXCEPT ![r] = Tracking!Idle] /\ UNCHANGED <<chosen, day>>
  BY DEF Tracking!InsertNode, Tracking!Hold, Tracking!Answers, Tracking!Clock
<1> HIDE DEF n
<1>3. deletedAt' = [deletedAt EXCEPT ![n] = None]
  BY <1>1, <1>2, TrackingAssumption
<1>4. /\ deletedAt' \in [Tracking!Nodes -> Moments] /\ deletedAt'[n] = None
      /\ \A m \in Tracking!Nodes \ {n} : deletedAt'[m] = deletedAt[m]
  BY <1>1, <1>3 DEF TreeInv, Moments
<1>5. ASSUME NEW k \in HasParent PROVE Outlived(deletedAt'[k], deletedAt'[Parent[k]])
  <2>1. k \in Tracking!Nodes /\ Parent[k] \in Tracking!Nodes
    BY Levels
  <2>2. Outlived(deletedAt[k], deletedAt[Parent[k]])
    BY DEF TreeInv, TreeKept
  <2>3. CASE Parent[k] = n
    BY <1>4, <2>3 DEF Outlived
  <2>4. CASE Parent[k] # n /\ k = n
    <3>1. n \notin Sections
      BY <2>4, Levels
    <3> QED
      BY <1>1, <1>4, <2>1, <2>4, <3>1 DEF Outlived
  <2>5. CASE Parent[k] # n /\ k # n
    BY <1>4, <2>1, <2>2, <2>5
  <2> QED
    BY <2>3, <2>4, <2>5
<1>6. TreeKept(deletedAt')
  BY <1>5 DEF TreeKept
<1>7. \A m \in Tracking!Nodes : deletedAt'[m] \in Nat => deletedAt'[m] <= day
  BY <1>4, TrackingAssumption DEF TreeInv
<1>8. \A m \in Tracking!Nodes : deletedAt[m] # Absent => deletedAt'[m] # Absent
  BY <1>4, TrackingAssumption
<1> QED
  BY <1>2, <1>4, <1>6, <1>7, <1>8, RowsWritten

\* It writes back what the row still is.
LEMMA SaveKeeps ==
  ASSUME TreeInv, NEW r \in Requests, Tracking!SaveNode(r)
  PROVE  TreeInv'
<1>1. slots[r].node \in Tracking!Nodes /\ deletedAt[slots[r].node] = None
  BY DEF Tracking!SaveNode, TreeInv, HoldsNodes
<1>2. deletedAt' = deletedAt
  BY <1>1 DEF Tracking!SaveNode, TreeInv
<1>3. Tracking!Hold(r, Tracking!Idle) /\ UNCHANGED <<chosen, day>>
  BY DEF Tracking!SaveNode, Tracking!Answers, Tracking!Clock
<1>4. HoldsNodes(Tracking!Idle, deletedAt)
  BY DEF HoldsNodes, Tracking!Idle
<1> QED
  BY <1>2, <1>3, <1>4, SlotMoves DEF Tracking!Slots

\* Stamping live rows today, and with each of them every live row below it.
LEMMA StampedTogether ==
  ASSUME TreeInv, NEW r \in Requests, NEW stamped \in SUBSET Tracking!Nodes,
         \A n \in stamped : deletedAt[n] = None,
         \A k \in HasParent : deletedAt[k] = None /\ Parent[k] \in stamped => k \in stamped,
         deletedAt' = [n \in Tracking!Nodes |-> IF n \in stamped THEN day ELSE deletedAt[n]],
         slots' = [slots EXCEPT ![r] = Tracking!Idle], UNCHANGED <<chosen, day>>
  PROVE  TreeInv'
<1>1. deletedAt' \in [Tracking!Nodes -> Moments] /\ day \in Nat
  BY DEF TreeInv, Moments
<1>2. ASSUME NEW k \in HasParent PROVE Outlived(deletedAt'[k], deletedAt'[Parent[k]])
  <2>1. k \in Tracking!Nodes /\ Parent[k] \in Tracking!Nodes
    BY Levels
  <2>2. /\ Outlived(deletedAt[k], deletedAt[Parent[k]])
        /\ deletedAt[k] \in Moments /\ (deletedAt[k] \in Nat => deletedAt[k] <= day)
    BY <2>1 DEF TreeInv, TreeKept
  <2>3. CASE Parent[k] \in stamped /\ k \in stamped
    BY <1>1, <2>1, <2>3 DEF Outlived
  <2>4. CASE Parent[k] \in stamped /\ k \notin stamped
    BY <1>1, <2>1, <2>2, <2>4 DEF Outlived, Moments
  <2>5. CASE Parent[k] \notin stamped /\ k \in stamped
    <3>1. deletedAt[Parent[k]] = None
      BY <2>2, <2>5, TrackingAssumption DEF Outlived
    <3> QED
      BY <2>1, <2>5, <3>1 DEF Outlived
  <2>6. CASE Parent[k] \notin stamped /\ k \notin stamped
    BY <2>1, <2>2, <2>6
  <2> QED
    BY <2>3, <2>4, <2>5, <2>6
<1>3. TreeKept(deletedAt')
  BY <1>2 DEF TreeKept
<1>4. \A n \in Tracking!Nodes : deletedAt'[n] \in Nat => deletedAt'[n] <= day
  BY <1>1 DEF TreeInv
<1>5. \A n \in Tracking!Nodes : deletedAt[n] # Absent => deletedAt'[n] # Absent
  BY <1>1, TrackingAssumption
<1> QED
  BY <1>1, <1>3, <1>4, <1>5, RowsWritten

LEMMA StampKeeps ==
  ASSUME TreeInv, NEW r \in Requests, Tracking!Stamp(r)
  PROVE  TreeInv'
<1> DEFINE down == slots[r].kids \cup {slots[r].node}
           options == {o \in FieldOptions : deletedAt[o] = None /\ Parent[o] \in down}
<1>1. /\ down \subseteq Tracking!Nodes /\ \A n \in down : deletedAt[n] = None
      /\ \A k \in Tabs \cup Fields : deletedAt[k] = None /\ Parent[k] \in down => k \in down
  <2>1. HoldsNodes(slots[r], deletedAt) /\ slots[r].op = "stamp"
    BY DEF Tracking!Stamp, TreeInv
  <2>2. /\ slots[r].node \in Tracking!Nodes /\ deletedAt[slots[r].node] = None
        /\ slots[r].kids \subseteq Tracking!Nodes /\ \A k \in slots[r].kids : deletedAt[k] = None
    BY <2>1 DEF HoldsNodes
  <2>3. \A k \in Tabs \cup Fields : deletedAt[k] = None /\ Parent[k] \in down => k \in down
    BY <2>1 DEF HoldsNodes
  <2> QED
    BY <2>2, <2>3
<1>2. /\ deletedAt' = [n \in Tracking!Nodes |-> IF n \in down \cup options THEN day ELSE deletedAt[n]]
      /\ slots' = [slots EXCEPT ![r] = Tracking!Idle] /\ UNCHANGED <<chosen, day>>
  BY DEF Tracking!Stamp, Tracking!Live, Tracking!Hold, Tracking!Answers, Tracking!Clock
<1> HIDE DEF down
<1>3. options \subseteq Tracking!Nodes /\ \A n \in options : deletedAt[n] = None
  BY DEF Tracking!Nodes
<1>4. ASSUME NEW k \in HasParent, deletedAt[k] = None, Parent[k] \in down \cup options
      PROVE  k \in down \cup options
  <2>1. Parent[k] \in down
    BY <1>4, Levels
  <2> QED
    BY <1>1, <1>4, <2>1 DEF HasParent
<1> HIDE DEF options
<1> QED
  BY <1>1, <1>2, <1>3, <1>4, StampedTogether

\* An Option has nothing below it.
LEMMA RemoveOptionKeeps ==
  ASSUME TreeInv, NEW r \in Requests, NEW o \in FieldOptions, Tracking!RemoveOption(r, o)
  PROVE  TreeInv'
<1>1. o \in Tracking!Nodes /\ deletedAt[o] = None /\ slots[r] = Tracking!Idle
  BY DEF Tracking!RemoveOption, Tracking!Nodes, Tracking!Owned, Tracking!Live, Tracking!Free
<1>2. deletedAt' = [deletedAt EXCEPT ![o] = day] /\ UNCHANGED <<slots, chosen, day>>
  BY DEF Tracking!RemoveOption, Tracking!Answers, Tracking!Clock
<1>3. deletedAt' = [n \in Tracking!Nodes |-> IF n \in {o} THEN day ELSE deletedAt[n]]
  BY <1>2 DEF TreeInv
<1>4. slots' = [slots EXCEPT ![r] = Tracking!Idle]
  BY <1>1, <1>2 DEF TreeInv
<1>5. \A k \in HasParent : Parent[k] # o
  BY Levels
<1> DEFINE it == {o}
<1>6. /\ it \in SUBSET Tracking!Nodes /\ \A n \in it : deletedAt[n] = None
      /\ \A k \in HasParent : deletedAt[k] = None /\ Parent[k] \in it => k \in it
  BY <1>1, <1>5
<1>7. deletedAt' = [n \in Tracking!Nodes |-> IF n \in it THEN day ELSE deletedAt[n]]
  BY <1>3
<1>8. UNCHANGED <<chosen, day>>
  BY <1>2
<1> HIDE DEF it
<1> QED
  BY <1>4, <1>6, <1>7, <1>8, StampedTogether

LEMMA WriteAnswerKeeps ==
  ASSUME TreeInv, NEW r \in Requests, Tracking!WriteAnswer(r)
  PROVE  TreeInv'
<1> DEFINE f == slots[r].node
           refused == \E n \in slots[r].options \cup {f} : deletedAt[n] = Absent
<1>1. /\ chosen' = IF f \in PictureFields \/ refused THEN chosen
                   ELSE [chosen EXCEPT ![f] = slots[r].options]
      /\ slots' = [slots EXCEPT ![r] = Tracking!Idle] /\ UNCHANGED <<deletedAt, day>>
  BY DEF Tracking!WriteAnswer, Tracking!Hold, Tracking!Tree, Tracking!Clock
<1>2. ~refused => deletedAt[f] # Absent
  OBVIOUS
<1> HIDE DEF f, refused
<1>3. /\ chosen' = [g \in Tracking!ChoiceFields |-> chosen'[g]]
      /\ \A g \in Tracking!ChoiceFields : chosen'[g] # chosen[g] => g = f /\ ~refused
  BY <1>1 DEF TreeInv
<1>4. \A g \in Tracking!ChoiceFields : chosen'[g] # {} => deletedAt'[g] # Absent
  BY <1>1, <1>2, <1>3 DEF TreeInv
<1>5. slots' = [t \in Tracking!Slots |-> IF t = r THEN Tracking!Idle ELSE slots[t]]
  BY <1>1 DEF TreeInv
<1>6. \A q \in Requests : HoldsNodes(slots'[q], deletedAt')
  <2>1. HoldsNodes(Tracking!Idle, deletedAt)
    BY DEF HoldsNodes, Tracking!Idle
  <2> QED
    BY <1>1, <1>5, <2>1 DEF TreeInv, Tracking!Slots
<1> QED
  BY <1>1, <1>3, <1>4, <1>5, <1>6 DEF TreeInv

\* What leaves the handler with nothing it could write to a definition.
LEMMA PicturesHold ==
  ASSUME TreeInv, NEW r \in Requests,
         \/ \E f \in Fields, O \in SUBSET FieldOptions : Tracking!AnswerField(r, f, O)
         \/ \E f \in PictureFields : Tracking!UploadPicture(r, f) \/ Tracking!RemovePicture(r, f)
         \/ Tracking!ReadPicture(r) \/ Tracking!WritePicture(r)
         \/ Tracking!AbandonUpload(r) \/ Tracking!DropPicture(r)
  PROVE  TreeInv'
<1>1. UNCHANGED <<deletedAt, day>> /\ chosen' = chosen
  BY DEF Tracking!AnswerField, Tracking!UploadPicture, Tracking!RemovePicture, Tracking!ReadPicture,
         Tracking!WritePicture, Tracking!AbandonUpload, Tracking!DropPicture, Tracking!Tree,
         Tracking!Answers, Tracking!Clock
<1> DEFINE Light(new) == HoldsNodes(new, deletedAt)
<1>2. \A ps, q : Light(Tracking!Flushing(ps, q))
  BY DEF HoldsNodes, Tracking!Flushing, Tracking!Idle
<1>3. \A f, O : Light([Tracking!Idle EXCEPT !.op = "answer", !.node = f, !.options = O])
  BY DEF HoldsNodes, Tracking!Idle
<1>4. ASSUME NEW f, NEW p PROVE Light([Tracking!Idle EXCEPT !.op = "read", !.node = f, !.picture = p])
  <2>1. PICK new : new = [Tracking!Idle EXCEPT !.op = "read", !.node = f, !.picture = p]
    OBVIOUS
  <2>2. /\ new.op = "read"
        /\ new = [op |-> new.op, node |-> new.node, kids |-> new.kids, picture |-> new.picture,
                  image |-> new.image, options |-> new.options, todo |-> new.todo]
    BY <2>1 DEF Tracking!Idle
  <2>3. Light(new)
    BY <2>2 DEF HoldsNodes
  <2> QED
    BY <2>1, <2>3
<1>5. \A f, i : Light([Tracking!Idle EXCEPT !.op = "drop", !.node = f, !.image = i])
  BY DEF HoldsNodes, Tracking!Idle
<1>6. slots[r].op = "read" => Light([slots[r] EXCEPT !.op = "write", !.image = image[slots[r].node]])
  <2> SUFFICES ASSUME slots[r].op = "read"
               PROVE  Light([slots[r] EXCEPT !.op = "write", !.image = image[slots[r].node]])
    OBVIOUS
  <2>1. HoldsNodes(slots[r], deletedAt)
    BY DEF TreeInv
  <2>2. slots[r] = [op |-> slots[r].op, node |-> slots[r].node, kids |-> slots[r].kids,
                    picture |-> slots[r].picture, image |-> slots[r].image,
                    options |-> slots[r].options, todo |-> slots[r].todo]
    BY <2>1 DEF HoldsNodes
  <2>3. [slots[r] EXCEPT !.op = "write", !.image = image[slots[r].node]].op = "write"
    BY <2>2
  <2> QED
    BY <2>3 DEF HoldsNodes
<1> HIDE DEF Light
<1>7. \E new : Tracking!Hold(r, new) /\ Light(new)
  <2>1. CASE \E f \in Fields, O \in SUBSET FieldOptions : Tracking!AnswerField(r, f, O)
    BY <1>3, <2>1 DEF Tracking!AnswerField
  <2>2. CASE \E f \in PictureFields : Tracking!UploadPicture(r, f) \/ Tracking!RemovePicture(r, f)
    BY <1>4, <1>5, <2>2 DEF Tracking!UploadPicture, Tracking!RemovePicture
  <2>3. CASE Tracking!ReadPicture(r)
    BY <1>6, <2>3 DEF Tracking!ReadPicture
  <2>4. CASE Tracking!WritePicture(r)
    BY <1>2, <2>4 DEF Tracking!WritePicture
  <2>5. CASE Tracking!AbandonUpload(r)
    BY <1>2, <2>5 DEF Tracking!AbandonUpload
  <2>6. CASE Tracking!DropPicture(r)
    BY <1>2, <2>6 DEF Tracking!DropPicture
  <2> QED
    BY <2>1, <2>2, <2>3, <2>4, <2>5, <2>6
<1> QED
  BY <1>1, <1>7, SlotMoves DEF Light, Tracking!Slots

LEMMA AttemptHolds ==
  ASSUME TreeInv, NEW s \in Tracking!Slots, Tracking!Attempt(s)
  PROVE  TreeInv'
<1>1. UNCHANGED <<deletedAt, chosen, day>>
  BY DEF Tracking!Attempt, Tracking!Unqueue, Tracking!Release, Tracking!Refuse, Tracking!Tree,
         Tracking!Answers, Tracking!Clock
<1> DEFINE Light(new) == s \in Requests => HoldsNodes(new, deletedAt)
<1>2. \A left, op : op \in {"idle", "flush"} => Light([Tracking!Idle EXCEPT !.op = op, !.todo = left])
  BY DEF HoldsNodes, Tracking!Idle
<1>3. ASSUME NEW p, Tracking!Release(s, p) PROVE TreeInv'
  <2> DEFINE new == [slots[s] EXCEPT !.op = "unqueue", !.picture = p]
  <2>1. \A op : op = "flush" => op \notin {"read", "insert", "save", "stamp"}
    OBVIOUS
  <2>2. Tracking!Hold(s, new)
    BY <1>3 DEF Tracking!Release
  <2>3. new.op \in {"unqueue", slots[s].op} /\ slots[s].op = "flush"
    BY <1>3 DEF Tracking!Release
  <2> HIDE DEF new
  <2>4. HoldsNodes(new, deletedAt)
    BY <2>3 DEF HoldsNodes
  <2> QED
    BY <1>1, <2>2, <2>4, SlotMoves
<1>4. ASSUME NEW p, Tracking!Attempted(s, p) PROVE TreeInv'
  BY <1>1, <1>2, <1>4, SlotMoves DEF Tracking!Attempted
<1> QED
  BY <1>3, <1>4 DEF Tracking!Attempt, Tracking!Unqueue, Tracking!Refuse

\* Nothing live is above what is not, so a purge of deleted rows takes none.
LEMMA DeadBelowDead ==
  ASSUME TreeInv, NEW X \in SUBSET Tracking!Nodes, \A n \in X : deletedAt[n] # None
  PROVE  \A n \in Tracking!Below(X) : n \in Tracking!Nodes /\ deletedAt[n] # None
<1> DEFINE G == {n \in Tracking!Nodes : deletedAt[n] # None}
<1>1. ASSUME NEW k \in HasParent, Parent[k] \in G PROVE k \in G
  <2>1. k \in Tracking!Nodes
    BY Levels
  <2>2. Outlived(deletedAt[k], deletedAt[Parent[k]])
    BY DEF TreeInv, TreeKept
  <2> QED
    BY <1>1, <2>1, <2>2, TrackingAssumption DEF Outlived
<1>2. X \in SUBSET G
  OBVIOUS
<1> HIDE DEF G
<1>3. Tracking!Below(X) \subseteq G
  BY <1>1, <1>2, BelowWithin
<1> QED
  BY <1>3 DEF G

\* A purge takes the rows named and everything below them, and nothing else.
LEMMA PurgeKeeps ==
  ASSUME TreeInv, NEW fields \in SUBSET Fields, NEW others \in SUBSET Tracking!Nodes,
         Tracking!Purge(fields, others), UNCHANGED day,
         slots' = [s \in Tracking!Slots |-> slots'[s]],
         \A r \in Requests :
           \/ slots'[r] = Tracking!Idle
           \/ slots'[r] = slots[r] /\ \A n \in fields \cup others : deletedAt[n] # None
  PROVE  TreeInv'
<1> DEFINE X == fields \cup others
           taken == X \cup Tracking!Below(X)
<1>1. X \in SUBSET Tracking!Nodes
  BY DEF Tracking!Nodes
<1>2. /\ deletedAt' = [n \in Tracking!Nodes |-> IF n \in taken THEN Absent ELSE deletedAt[n]]
      /\ chosen' = [f \in Tracking!ChoiceFields |-> IF f \in taken THEN {} ELSE chosen[f]]
  BY DEF Tracking!Purge
<1>3. \A k \in HasParent : Parent[k] \in taken => k \in taken
  BY <1>1, BelowClosed
<1>4. ASSUME \A n \in X : deletedAt[n] # None PROVE \A n \in taken : deletedAt[n] # None
  BY <1>1, <1>4, DeadBelowDead
<1> HIDE DEF X, taken
<1>5. deletedAt' \in [Tracking!Nodes -> Moments]
  BY <1>2 DEF TreeInv, Moments
<1>6. \A n \in Tracking!Nodes : deletedAt'[n] \in Nat => deletedAt'[n] <= day
  BY <1>2, TrackingAssumption DEF TreeInv
<1>7. ASSUME NEW k \in HasParent PROVE Outlived(deletedAt'[k], deletedAt'[Parent[k]])
  <2>1. k \in Tracking!Nodes /\ Parent[k] \in Tracking!Nodes
    BY Levels
  <2>2. Outlived(deletedAt[k], deletedAt[Parent[k]])
    BY DEF TreeInv, TreeKept
  <2>3. CASE k \in taken
    BY <1>2, <2>1, <2>3 DEF Outlived
  <2>4. CASE k \notin taken
    <3>1. Parent[k] \notin taken
      BY <1>3, <2>4
    <3> QED
      BY <1>2, <2>1, <2>2, <2>4, <3>1
  <2> QED
    BY <2>3, <2>4
<1>8. \A f \in Tracking!ChoiceFields : chosen'[f] # {} => deletedAt'[f] # Absent
  BY <1>2 DEF TreeInv, Tracking!ChoiceFields, Tracking!Nodes
<1>9. ASSUME NEW r \in Requests PROVE HoldsNodes(slots'[r], deletedAt')
  <2>1. HoldsNodes(slots[r], deletedAt)
    BY DEF TreeInv
  <2>2. CASE slots'[r] = Tracking!Idle
    BY <2>2 DEF HoldsNodes, Tracking!Idle
  <2>3. CASE slots'[r] = slots[r] /\ \A n \in X : deletedAt[n] # None
    <3>1. \A n \in Tracking!Nodes :
            /\ deletedAt[n] = None <=> deletedAt'[n] = None
            /\ deletedAt[n] = Absent => deletedAt'[n] = Absent
      BY <1>2, <1>4, <2>3, TrackingAssumption
    <3>2. slots[r].node \in Tracking!Nodes \ Sections => Parent[slots[r].node] \in Tracking!Nodes
      BY Levels DEF Tracking!Nodes, HasParent
    <3>3. Tabs \cup Fields \subseteq Tracking!Nodes
      BY DEF Tracking!Nodes
    <3> QED
      BY <2>1, <2>3, <3>1, <3>2, <3>3 DEF HoldsNodes
  <2> QED
    BY <2>2, <2>3 DEF X
<1>10. chosen' = [f \in Tracking!ChoiceFields |-> chosen'[f]]
  BY <1>2
<1> QED
  BY <1>5, <1>6, <1>7, <1>8, <1>9, <1>10 DEF TreeInv, TreeKept

LEMMA PurgeExpiredKeeps == TreeInv /\ Tracking!PurgeExpired => TreeInv'
<1> SUFFICES ASSUME TreeInv, Tracking!PurgeExpired PROVE TreeInv'
  OBVIOUS
<1>1. PICK ss \in Tracking!Batches(Sections), ts \in Tracking!Batches(Tabs),
           fs \in Tracking!Batches(Fields), os \in Tracking!Batches(FieldOptions) :
        Tracking!Purge(fs, ss \cup ts \cup Tracking!Unreferenced(os, fs))
  BY DEF Tracking!PurgeExpired
<1>2. \A T : \A B \in Tracking!Batches(T) : B \subseteq T /\ \A n \in B : deletedAt[n] # None
  BY DEF Tracking!Batches, Tracking!Expired
<1>3. Tracking!Unreferenced(os, fs) \subseteq os
  BY DEF Tracking!Unreferenced
<1>4. /\ fs \in SUBSET Fields /\ ss \cup ts \cup Tracking!Unreferenced(os, fs) \in SUBSET Tracking!Nodes
      /\ \A n \in fs \cup (ss \cup ts \cup Tracking!Unreferenced(os, fs)) : deletedAt[n] # None
  <2>1. fs \subseteq Fields /\ ss \subseteq Sections /\ ts \subseteq Tabs /\ os \subseteq FieldOptions
    BY <1>2
  <2>2. \A n \in fs \cup ss \cup ts \cup os : deletedAt[n] # None
    BY <1>2
  <2> QED
    BY <1>3, <2>1, <2>2 DEF Tracking!Nodes
<1>5. /\ UNCHANGED day
      /\ slots' = [slots EXCEPT ![Job] = Tracking!Reconcile(queue')]
  BY DEF Tracking!PurgeExpired, Tracking!Hold, Tracking!Clock
<1>6. slots' = [s \in Tracking!Slots |-> slots'[s]] /\ \A r \in Requests : slots'[r] = slots[r]
  BY <1>5, TrackingAssumption DEF TreeInv, Tracking!Slots
<1> DEFINE others == ss \cup ts \cup Tracking!Unreferenced(os, fs)
<1>7. /\ fs \in SUBSET Fields /\ others \in SUBSET Tracking!Nodes /\ Tracking!Purge(fs, others)
      /\ \A n \in fs \cup others : deletedAt[n] # None
  BY <1>1, <1>4
<1> HIDE DEF others
<1>8. \A r \in Requests :
        \/ slots'[r] = Tracking!Idle
        \/ slots'[r] = slots[r] /\ \A n \in fs \cup others : deletedAt[n] # None
  BY <1>6, <1>7
<1>9. UNCHANGED day /\ slots' = [s \in Tracking!Slots |-> slots'[s]]
  BY <1>5, <1>6
<1> QED
  BY <1>7, <1>8, <1>9, PurgeKeeps

LEMMA PurgeUserKeeps == TreeInv /\ Tracking!PurgeUser => TreeInv'
<1> SUFFICES ASSUME TreeInv, Tracking!PurgeUser PROVE TreeInv'
  OBVIOUS
<1> DEFINE fields == {f \in Fields : deletedAt[f] # Absent}
           others == {n \in Tracking!Nodes : deletedAt[n] # Absent}
<1>1. Tracking!Purge(fields, others) /\ UNCHANGED <<day, slots>>
  BY DEF Tracking!PurgeUser
<1>2. \A r \in Requests : slots[r] = Tracking!Idle
  BY DEF Tracking!PurgeUser, Tracking!Busy, Tracking!Slots
<1>3. fields \in SUBSET Fields /\ others \in SUBSET Tracking!Nodes
  OBVIOUS
<1>4. slots' = [s \in Tracking!Slots |-> slots'[s]]
  BY <1>1 DEF TreeInv
<1> HIDE DEF fields, others
<1> QED
  BY <1>1, <1>2, <1>3, <1>4, PurgeKeeps

LEMMA RequestKeeps ==
  ASSUME TreeInv, NEW r \in Requests, Tracking!Request(r)
  PROVE  TreeInv'
<1>1. /\ Sections \subseteq Tracking!Nodes /\ Tabs \subseteq Tracking!Nodes
      /\ Fields \subseteq Tracking!Nodes /\ FieldOptions \subseteq Tracking!Nodes
  BY DEF Tracking!Nodes
<1>2. ASSUME NEW s \in Sections, Tracking!CreateSection(r, s) PROVE TreeInv'
  BY <1>1, <1>2, CreateHolds DEF Tracking!CreateSection
<1>3. ASSUME NEW t \in Tabs, Tracking!CreateTab(r, t) PROVE TreeInv'
  BY <1>1, <1>3, CreateHolds DEF Tracking!CreateTab, Tracking!Owned, Tracking!Live
<1>4. ASSUME NEW f \in Fields, Tracking!CreateField(r, f) PROVE TreeInv'
  BY <1>1, <1>4, CreateHolds DEF Tracking!CreateField, Tracking!Owned, Tracking!Live
<1>5. ASSUME NEW o \in FieldOptions, Tracking!CreateOption(r, o) PROVE TreeInv'
  BY <1>1, <1>5, CreateHolds DEF Tracking!CreateOption, Tracking!Owned, Tracking!Live
<1>6. ASSUME NEW n \in Tracking!Nodes,
             \/ Tracking!UpdateSection(r, n) \/ Tracking!UpdateTab(r, n)
             \/ Tracking!UpdateField(r, n) \/ Tracking!UpdateOption(r, n)
      PROVE  TreeInv'
  BY <1>6, LoadHolds
     DEF Tracking!UpdateSection, Tracking!UpdateTab, Tracking!UpdateField, Tracking!UpdateOption
<1> QED
  BY <1>1, <1>2, <1>3, <1>4, <1>5, <1>6, RemoveHolds, RemoveOptionKeeps, PicturesHold
     DEF Tracking!Request

LEMMA TreeStep == TreeInv /\ [Tracking!Serial]_(Tracking!vars) => TreeInv'
<1> SUFFICES ASSUME TreeInv, [Tracking!Serial]_(Tracking!vars) PROVE TreeInv'
  OBVIOUS
<1>1. ASSUME NEW r \in Requests, Tracking!Statement(r) PROVE TreeInv'
  BY <1>1, InsertKeeps, SaveKeeps, StampKeeps, WriteAnswerKeeps, PicturesHold DEF Tracking!Statement
<1>2. CASE Tracking!NextDay
  <2>1. UNCHANGED <<deletedAt, chosen, slots>> /\ day' = day + 1
    BY <1>2 DEF Tracking!NextDay, Tracking!Tree, Tracking!Answers
  <2>2. \A n \in Tracking!Nodes : deletedAt[n] \in Nat => deletedAt[n] <= day + 1
    BY DEF TreeInv
  <2> QED
    BY <2>1, <2>2 DEF TreeInv
<1>3. CASE UNCHANGED Tracking!vars
  BY <1>3 DEF Tracking!vars, TreeInv
<1> QED
  BY <1>1, <1>2, <1>3, RequestKeeps, AttemptHolds, PurgeExpiredKeeps, PurgeUserKeeps
     DEF Tracking!Serial, Tracking!Work

LEMMA NoneLiveBelow == TreeInv => Tracking!NothingLiveBelowDeleted
<1> SUFFICES ASSUME TreeInv, NEW n \in Tracking!Nodes, ~Tracking!Live(n),
                    NEW k \in Tracking!Below({n})
             PROVE  ~Tracking!Live(k)
  BY DEF Tracking!NothingLiveBelowDeleted
<1> QED
  BY DeadBelowDead DEF Tracking!Live

\* What is below an expired row expired as well, or is not there.
LEMMA ExpiredBelowExpired ==
  ASSUME TreeInv, NEW X \in SUBSET Tracking!Nodes,
         \A n \in X : n \in Tracking!Expired(Tracking!Nodes)
  PROVE  \A n \in Tracking!Below(X) :
           n \in Tracking!Nodes /\ (deletedAt[n] = Absent \/ n \in Tracking!Expired(Tracking!Nodes))
<1> DEFINE G == {n \in Tracking!Nodes : deletedAt[n] = Absent \/ n \in Tracking!Expired(Tracking!Nodes)}
<1>1. ASSUME NEW k \in HasParent, Parent[k] \in G PROVE k \in G
  <2>1. k \in Tracking!Nodes /\ Parent[k] \in Tracking!Nodes
    BY Levels
  <2>2. /\ Outlived(deletedAt[k], deletedAt[Parent[k]])
        /\ deletedAt[k] \in Moments /\ deletedAt[Parent[k]] \in Moments /\ day \in Nat
    BY <2>1 DEF TreeInv, TreeKept
  <2>3. CASE deletedAt[k] = Absent
    BY <2>1, <2>3
  <2>4. CASE deletedAt[k] # Absent
    <3>1. deletedAt[Parent[k]] \in Nat /\ deletedAt[Parent[k]] + Retention < day
      BY <1>1, <2>2, <2>4, TrackingAssumption DEF Outlived, Moments, Tracking!Expired
    <3>2. deletedAt[k] \in Nat /\ deletedAt[k] <= deletedAt[Parent[k]]
      BY <2>2, <2>4, <3>1, TrackingAssumption DEF Outlived
    <3> QED
      BY <2>1, <2>2, <3>1, <3>2, TrackingAssumption DEF Tracking!Expired
  <2> QED
    BY <2>3, <2>4
<1>2. X \in SUBSET G
  OBVIOUS
<1> HIDE DEF G
<1>3. Tracking!Below(X) \subseteq G
  BY <1>1, <1>2, BelowWithin
<1> QED
  BY <1>3 DEF G

LEMMA SameCount == \A S : Tracking!Cardinality(S) = Cardinality(S)
  BY DEF Tracking!Cardinality, Cardinality

LEMMA BatchTakesAll ==
  ASSUME Cardinality(Tracking!Expired(Fields)) <= PurgeBatch, NEW fs \in Tracking!Batches(Fields)
  PROVE  fs = Tracking!Expired(Fields)
<1> DEFINE all == Tracking!Expired(Fields)
<1>1. /\ fs \subseteq all /\ Cardinality(fs) <= PurgeBatch
      /\ Cardinality(fs) < PurgeBatch => fs = all
  BY SameCount DEF Tracking!Batches
<1>2. IsFiniteSet(all)
  BY TrackingAssumption, FS_Subset DEF Tracking!Expired
<1>3. /\ IsFiniteSet(fs) /\ Cardinality(fs) <= Cardinality(all)
      /\ Cardinality(fs) = Cardinality(all) => fs = all
  BY <1>1, <1>2, FS_Subset
<1>4. Cardinality(fs) \in Nat /\ Cardinality(all) \in Nat
  BY <1>2, <1>3, FS_CardinalityType
<1> HIDE DEF all
<1>5. Cardinality(all) <= PurgeBatch
  BY DEF all
<1>6. fs = all
  BY <1>1, <1>3, <1>4, <1>5, TrackingAssumption
<1> QED
  BY <1>6 DEF all

LEMMA NoneRefused == TreeInv => Tracking!BatchNeverRefused
<1> SUFFICES ASSUME TreeInv, Tracking!Cardinality(Tracking!Expired(Fields)) <= PurgeBatch,
                    NEW ss \in Tracking!Batches(Sections), NEW ts \in Tracking!Batches(Tabs),
                    NEW fs \in Tracking!Batches(Fields),
                    NEW f \in (Tracking!ChoiceFields \cap Tracking!Below(ss \cup ts)) \ fs,
                    chosen[f] # {}
             PROVE  FALSE
  BY DEF Tracking!BatchNeverRefused, Tracking!Restricted
<1>1. fs = Tracking!Expired(Fields)
  BY BatchTakesAll, SameCount
<1>2. /\ ss \cup ts \in SUBSET Tracking!Nodes
      /\ \A n \in ss \cup ts : n \in Tracking!Expired(Tracking!Nodes)
  BY DEF Tracking!Batches, Tracking!Expired, Tracking!Nodes
<1>3. deletedAt[f] = Absent \/ f \in Tracking!Expired(Tracking!Nodes)
  BY <1>2, ExpiredBelowExpired
<1>4. f \in Fields /\ deletedAt[f] # Absent
  BY DEF TreeInv, Tracking!ChoiceFields
<1> QED
  BY <1>1, <1>3, <1>4 DEF Tracking!Expired

LEMMA TreeHolds == Spec => []TreeInv
  BY TreeInit, TreeStep, TrackingSpec, PTL

\* CustomTrackingSectionService.remove and its like read the live rows below what they
\* delete; with one request or run of the job at a time, nothing live is left below a
\* row that was deleted or purged, in a tree of any size.
THEOREM NothingLiveBelow == Spec => []NothingLiveBelowDeleted
<1>1. TreeInv => NothingLiveBelowDeleted
  BY NoneLiveBelow DEF NothingLiveBelowDeleted
<1> QED
  BY <1>1, TreeHolds, PTL

\* The purge meets no answer that still refers to what it takes, provided that one
\* batch holds every expired Field.
THEOREM PurgeAdmitted == Spec => []BatchNeverRefused
<1>1. TreeInv => BatchNeverRefused
  BY NoneRefused DEF BatchNeverRefused
<1> QED
  BY <1>1, TreeHolds, PTL

--------------------------------------------------------------------------------
(* Places and counts.                                                      *)

\* A finite set of numbers that is not empty has a highest: of the sets that have
\* none, take one with the fewest elements.
LEMMA HighestOfFinite ==
  ASSUME NEW S \in SUBSET Nat, IsFiniteSet(S), S # {}
  PROVE  \E x \in S : \A y \in S : x >= y
<1> DEFINE Without(T) == T # {} /\ IsFiniteSet(T) /\ \A x \in T : \E y \in T : ~(x >= y)
           Sizes == {n \in Nat : \E T \in SUBSET Nat : Without(T) /\ Cardinality(T) = n}
<1>1. ASSUME Sizes # {} PROVE FALSE
  <2>1. PICK n \in Sizes : \A m \in Sizes : n <= m
    BY <1>1, LeastOfNaturals
  <2>2. PICK T \in SUBSET Nat : Without(T) /\ Cardinality(T) = n
    BY <2>1
  <2>3. PICK x \in T : TRUE
    BY <2>2
  <2>4. /\ IsFiniteSet(T \ {x}) /\ Cardinality(T \ {x}) = n - 1
        /\ n \in Nat /\ Cardinality(T \ {x}) \in Nat
    BY <2>1, <2>2, <2>3, FS_RemoveElement, FS_CardinalityType
  <2>5. n - 1 \notin Sizes
    <3> HIDE DEF Sizes
    <3> QED
      BY <2>1, <2>4
  <2>6. T \ {x} \in SUBSET Nat /\ ~Without(T \ {x})
    BY <2>4, <2>5
  <2>7. CASE T \ {x} = {}
    <3>1. x \in Nat /\ \A y \in T : y = x
      BY <2>3, <2>7
    <3> QED
      BY <2>2, <2>3, <3>1
  <2>8. CASE T \ {x} # {}
    <3>1. PICK m \in T \ {x} : \A y \in T \ {x} : m >= y
      BY <2>4, <2>6, <2>8
    <3>2. x \in Nat /\ m \in Nat /\ T \subseteq Nat
      BY <2>3, <3>1
    <3>3. CASE x >= m
      <4>1. \A y \in T : x >= y
        BY <3>1, <3>2, <3>3
      <4> QED
        BY <2>2, <2>3, <4>1
    <3>4. CASE m >= x
      <4>1. \A y \in T : m >= y
        BY <3>1, <3>2, <3>4
      <4> QED
        BY <2>2, <3>1, <4>1
    <3> QED
      BY <3>2, <3>3, <3>4
  <2> QED
    BY <2>7, <2>8
<1>2. ~Without(S)
  <2>1. Cardinality(S) \in Nat
    BY FS_CardinalityType
  <2> QED
    BY <1>1, <2>1
<1> QED
  BY <1>2

\* An enumeration of a finite set without repetition reaches each of its elements.
LEMMA EveryPosition ==
  ASSUME NEW S, IsFiniteSet(S), NEW f \in [1..Cardinality(S) -> S],
         \A p, q \in 1..Cardinality(S) : p # q => f[p] # f[q]
  PROVE  \A x \in S : \E p \in 1..Cardinality(S) : f[p] = x
<1> DEFINE n == Cardinality(S)
<1>1. n \in Nat
  BY FS_CardinalityType
<1>2. IsFiniteSet(1..n) /\ Cardinality(1..n) = n
  BY <1>1, FS_Interval
<1>3. f \in Injection(1..n, S)
  BY DEF Injection, IsInjective
<1>4. f \in Surjection(1..n, S)
  <2> HIDE DEF n
  <2>1. Cardinality(1..n) = Cardinality(S)
    BY <1>2 DEF n
  <2> QED
    BY <1>3, <2>1, FS_Injection
<1> QED
  BY <1>4 DEF Surjection

LEMMA OrderSpec == Spec => Order!Spec
<1>1. Init => Order!Init
  BY DEF Init
<1>2. [Next]_vars => [Order!Next]_(Order!vars)
  BY DEF Next, vars, order, Order!vars
<1> QED
  BY <1>1, <1>2, PTL DEF Spec, Order!Spec

\* An item that left an Arc keeps its row; elsewhere every row is in the collection.
PlacesInv ==
  /\ place \in [Items -> Nat \cup {None}]
  /\ joined \subseteq Order!There
  /\ kind # "memberships" => joined = Order!There
  /\ \A i, j \in Order!There : place[i] = place[j] => i = j

LEMMA PlacesInit == Order!Init => PlacesInv
  BY DEF Order!Init, PlacesInv, Order!There

LEMMA RowsFinite ==
  ASSUME PlacesInv
  PROVE  /\ IsFiniteSet(Order!There) /\ IsFiniteSet(Order!Places) /\ Order!Places \subseteq Nat
         /\ Cardinality(Order!Places) = Cardinality(Order!There)
<1>1. IsFiniteSet(Order!There)
  BY CollectionsAssumption, FS_Subset DEF Order!There
<1> DEFINE f == [i \in Order!There |-> place[i]]
<1>2. f \in Bijection(Order!There, Order!Places)
  <2>1. f \in [Order!There -> Order!Places]
    BY DEF Order!Places
  <2>2. IsInjective(f)
    BY DEF IsInjective, PlacesInv
  <2>3. \A p \in Order!Places : \E i \in Order!There : f[i] = p
    BY DEF Order!Places
  <2> QED
    BY <2>1, <2>2, <2>3 DEF Bijection, Injection, Surjection
<1>3. ExistsBijection(Order!There, Order!Places)
  BY <1>2 DEF ExistsBijection
<1>4. Order!Places \subseteq Nat
  BY DEF PlacesInv, Order!Places, Order!There
<1> QED
  BY <1>1, <1>3, <1>4, FS_Bijection

\* What is appended comes after every row there is.
LEMMA NextIsFree ==
  ASSUME PlacesInv
  PROVE  Order!NextPlace(Order!Places) \in Nat \ Order!Places
<1>1. CASE Order!Places = {}
  BY <1>1 DEF Order!NextPlace
<1>2. CASE Order!Places # {}
  <2> DEFINE S == Order!Places
  <2>1. \E x \in S : \A y \in S : x >= y
    BY <1>2, RowsFinite, HighestOfFinite
  <2>2. Order!Max(S) \in S /\ \A y \in S : Order!Max(S) >= y
    BY <2>1 DEF Order!Max
  <2>3. S \subseteq Nat
    BY RowsFinite
  <2>4. Order!NextPlace(S) = Order!Max(S) + 1
    BY <1>2 DEF Order!NextPlace
  <2> HIDE DEF S
  <2>5. Order!Max(S) \in Nat
    BY <2>2, <2>3
  <2>6. \A y \in S : y # Order!Max(S) + 1
    BY <2>2, <2>3, <2>5
  <2>7. Order!NextPlace(S) \in Nat \ S
    BY <2>4, <2>5, <2>6
  <2> QED
    BY <2>7 DEF S
<1> QED
  BY <1>1, <1>2

LEMMA AddKeeps ==
  ASSUME PlacesInv, NEW i \in Items, Order!Add(i)
  PROVE  PlacesInv'
<1> DEFINE next == Order!NextPlace(Order!Places)
<1>1. next \in Nat /\ next \notin Order!Places
  BY NextIsFree
<1>2. place' = [place EXCEPT ![i] = next] /\ joined' = joined \cup {i} /\ kind' = kind
  BY DEF Order!Add
<1> HIDE DEF next
<1>3. /\ place' \in [Items -> Nat \cup {None}] /\ place'[i] = next /\ next # None
      /\ \A j \in Items \ {i} : place'[j] = place[j]
  BY <1>1, <1>2, TrackersAssumption DEF PlacesInv
<1>4. Order!There' = Order!There \cup {i} /\ i \notin Order!There
  BY <1>3 DEF Order!There, Order!Add
<1>5. \A j \in Order!There : place'[j] = place[j] /\ place[j] # next
  BY <1>1, <1>3, <1>4 DEF Order!There, Order!Places
<1> QED
  BY <1>2, <1>3, <1>4, <1>5 DEF PlacesInv

LEMMA RemoveKeepsPlaces ==
  ASSUME PlacesInv, NEW i \in Items, Order!Delete(i)
  PROVE  PlacesInv'
<1>1. place' = [place EXCEPT ![i] = None] /\ joined' = joined \ {i} /\ kind' = kind /\ kind # "memberships"
  BY DEF Order!Delete
<1>2. /\ place' \in [Items -> Nat \cup {None}] /\ place'[i] = None
      /\ \A j \in Items \ {i} : place'[j] = place[j]
  BY <1>1 DEF PlacesInv
<1>3. Order!There' = Order!There \ {i}
  BY <1>2 DEF Order!There
<1> QED
  BY <1>1, <1>2, <1>3 DEF PlacesInv

\* An order names every item of the collection at a place of its own.
LEMMA PlacesOfOrder ==
  ASSUME PlacesInv, NEW o \in Order!SetToSeqs(joined)
  PROVE  /\ \A i \in joined : Order!Renumbered(o, i) \in Nat
         /\ \A i, j \in joined : Order!Renumbered(o, i) = Order!Renumbered(o, j) => i = j
<1> DEFINE n == Cardinality(joined)
<1>1. IsFiniteSet(joined)
  BY RowsFinite, FS_Subset DEF PlacesInv
<1>2. /\ o \in [1..n -> joined] /\ DOMAIN o = 1..n
      /\ \A p, q \in 1..n : p # q => o[p] # o[q]
  BY DEF Order!SetToSeqs, Order!Cardinality, Cardinality
<1>3. \A i \in joined : \E p \in 1..n : o[p] = i
  BY <1>1, <1>2, EveryPosition
<1> HIDE DEF n
<1>4. ASSUME NEW i \in joined
      PROVE  Order!Renumbered(o, i) \in 1..n /\ o[Order!Renumbered(o, i)] = i
  BY <1>2, <1>3 DEF Order!Renumbered
<1>5. n \in Nat
  BY <1>1, FS_CardinalityType DEF n
<1> QED
  BY <1>4, <1>5

\* A row that is not reordered is one that left an Arc, whose index sees it.
LEMMA ReorderKeeps ==
  ASSUME PlacesInv, NEW o \in Order!SetToSeqs(joined), Order!Reorder(o)
  PROVE  PlacesInv'
<1>1. kind' = kind /\ joined' = joined
  BY DEF Order!Reorder
<1>2. CASE place' = place
  BY <1>1, <1>2 DEF PlacesInv, Order!There
<1>3. CASE /\ \A i \in joined : ~Order!Refuses(o, i)
           /\ place' = [i \in Items |-> IF i \in joined THEN Order!Renumbered(o, i) ELSE place[i]]
  <2>1. /\ \A i \in joined : Order!Renumbered(o, i) \in Nat
        /\ \A i, j \in joined : Order!Renumbered(o, i) = Order!Renumbered(o, j) => i = j
    BY PlacesOfOrder
  <2>2. /\ place' \in [Items -> Nat \cup {None}]
        /\ \A i \in joined : i \in Items /\ place'[i] = Order!Renumbered(o, i)
        /\ \A i \in Items \ joined : place'[i] = place[i]
    BY <1>3, <2>1 DEF PlacesInv, Order!There
  <2>3. Order!There' = Order!There
    BY <2>1, <2>2, TrackersAssumption DEF PlacesInv, Order!There
  <2>4. ASSUME NEW i \in joined, NEW j \in Order!There \ joined
        PROVE  place[j] # Order!Renumbered(o, i)
    <3>1. kind \in Order!Indexed
      BY <2>4 DEF PlacesInv, Order!Indexed
    <3>2. j \in Items \ (Order!Updated(o, i) \cup {i})
      BY <2>4 DEF Order!Updated, Order!There
    <3> QED
      BY <1>3, <3>1, <3>2 DEF Order!Refuses
  <2>5. ASSUME NEW i \in Order!There, NEW j \in Order!There, place'[i] = place'[j]
        PROVE  i = j
    <3>1. CASE i \in joined /\ j \in joined
      BY <2>1, <2>2, <2>5, <3>1
    <3>2. CASE i \in joined /\ j \notin joined
      BY <2>2, <2>4, <2>5, <3>2 DEF Order!There
    <3>3. CASE i \notin joined /\ j \in joined
      BY <2>2, <2>4, <2>5, <3>3 DEF Order!There
    <3>4. CASE i \notin joined /\ j \notin joined
      BY <2>2, <2>5, <3>4 DEF PlacesInv, Order!There
    <3> QED
      BY <3>1, <3>2, <3>3, <3>4
  <2> QED
    BY <1>1, <2>2, <2>3, <2>5 DEF PlacesInv
<1> QED
  BY <1>2, <1>3 DEF Order!Reorder

LEMMA PlacesStep == PlacesInv /\ [Order!Next]_(Order!vars) => PlacesInv'
<1> SUFFICES ASSUME PlacesInv, [Order!Next]_(Order!vars) PROVE PlacesInv'
  OBVIOUS
<1>1. CASE UNCHANGED Order!vars
  BY <1>1 DEF Order!vars, PlacesInv, Order!There
<1>2. ASSUME NEW i \in Items, Order!Add(i) PROVE PlacesInv'
  BY <1>2, AddKeeps
<1>3. ASSUME NEW i \in Items, Order!Delete(i) PROVE PlacesInv'
  BY <1>3, RemoveKeepsPlaces
<1>4. ASSUME NEW i \in Items, Order!Leave(i) \/ Order!Reopen(i) PROVE PlacesInv'
  BY <1>4 DEF Order!Leave, Order!Reopen, PlacesInv, Order!There
<1>5. ASSUME NEW o \in Order!SetToSeqs(joined), Order!Reorder(o) PROVE PlacesInv'
  BY <1>5, ReorderKeeps
<1> QED
  BY <1>1, <1>2, <1>3, <1>4, <1>5 DEF Order!Next

\* StorytimeOrderingService.nextIndex and every reorder: however rows are added,
\* deleted, left, reopened and renumbered, whichever order the database applies the
\* rows in and whether or not an index refuses one, no two rows share a place and the
\* next one is free.
THEOREM PlacesStayApart == Spec => []PlacesApart
<1>1. PlacesInv => PlacesApart
  BY RowsFinite, NextIsFree DEF PlacesApart, Order!PlacesApart, Order!Cardinality, Cardinality
<1> QED
  BY <1>1, PlacesInit, PlacesStep, OrderSpec, PTL DEF Order!Spec

LEMMA SocialSpec == Spec => Social!SerialSpec
<1>1. Init => Social!Init
  BY DEF Init
<1>2. [Next]_vars => [Social!Serial]_(Social!vars)
  BY DEF Next, vars, social, Social!vars
<1> QED
  BY <1>1, <1>2, PTL DEF Spec, Social!SerialSpec

\* What a transaction about to commit has counted is what there will be once it has.
VotesInv ==
  /\ voting = [r \in Requests |-> voting[r]]
  /\ counts = Social!Tally(vote)
  /\ \A r \in Requests :
       voting[r].op = "commit" =>
         voting[r].counts = Social!Tally([vote EXCEPT ![voting[r].key] = voting[r].value])

LEMMA VotesInit == Social!Init => VotesInv
<1> SUFFICES ASSUME Social!Init PROVE VotesInv
  OBVIOUS
<1>1. /\ voting = [r \in Requests |-> Social!Idle]
      /\ vote = [u \in Members |-> None] /\ counts = [up |-> 0, down |-> 0]
  BY DEF Social!Init
<1>2. \A value \in Social!Reactions : Social!Of(vote, value) = 0
  <2>1. ASSUME NEW value \in Social!Reactions PROVE {u \in Members : vote[u] = value} = {}
    BY <1>1, <2>1, VotersAssumption
  <2> QED
    BY <2>1, FS_EmptySet DEF Social!Of, Social!Cardinality, Cardinality
<1>3. counts = Social!Tally(vote)
  BY <1>1, <1>2 DEF Social!Tally, Social!Reactions
<1> QED
  BY <1>1, <1>3 DEF VotesInv, Social!Idle

LEMMA VotesStep == VotesInv /\ [Social!Serial]_(Social!vars) => VotesInv'
<1> SUFFICES ASSUME VotesInv, [Social!Serial]_(Social!vars) PROVE VotesInv'
  OBVIOUS
<1>1. CASE UNCHANGED Social!vars
  BY <1>1 DEF VotesInv, Social!vars
<1>2. CASE Social!Next
  <2>1. PICK r \in Requests : Social!Handle(r)
    BY <1>2 DEF Social!Next
  <2>2. Requests = {r}
    BY <2>1, SlotAssumption
  <2>3. ASSUME NEW u \in Members, Social!RemoveVote(r, u) PROVE VotesInv'
    BY <2>2, <2>3 DEF VotesInv, Social!RemoveVote, Social!Hold
  <2>4. ASSUME NEW u \in Members, NEW value \in Social!Reactions, Social!React(r, u, value)
        PROVE  VotesInv'
    BY <2>2, <2>4 DEF VotesInv, Social!React, Social!Hold
  <2>5. CASE Social!WriteVote(r)
    <3>1. CASE Social!Done(r) /\ UNCHANGED <<vote, counts>>
      BY <2>2, <3>1 DEF VotesInv, Social!Done, Social!Idle
    <3>2. CASE /\ Social!Hold(r, "commit", voting[r].key, voting[r].value, FALSE,
                              Social!Tally([vote EXCEPT ![voting[r].key] = voting[r].value]))
               /\ UNCHANGED <<vote, counts>>
      <4> DEFINE counted == Social!Tally([vote EXCEPT ![voting[r].key] = voting[r].value])
      <4>1. /\ voting'[r].key = voting[r].key /\ voting'[r].value = voting[r].value
            /\ voting'[r].counts = counted /\ voting' = [q \in Requests |-> voting'[q]]
        BY <3>2 DEF VotesInv, Social!Hold
      <4> QED
        BY <2>2, <3>2, <4>1 DEF VotesInv, Social!Tally, Social!Of
    <3> QED
      BY <2>5, <3>1, <3>2 DEF Social!WriteVote
  <2>6. CASE Social!CommitVote(r)
    <3>1. /\ vote' = [vote EXCEPT ![voting[r].key] = voting[r].value]
          /\ counts' = voting[r].counts /\ voting[r].op = "commit" /\ Social!Done(r)
      BY <2>6 DEF Social!CommitVote
    <3>2. voting[r].counts = Social!Tally([vote EXCEPT ![voting[r].key] = voting[r].value])
      BY <3>1 DEF VotesInv
    <3>3. Social!Tally(vote)' = voting[r].counts
      BY <3>1, <3>2 DEF Social!Tally, Social!Of
    <3>4. /\ voting' = [q \in Requests |-> voting'[q]] /\ voting'[r] = Social!Idle
      BY <3>1 DEF VotesInv, Social!Done
    <3>5. voting'[r].op # "commit"
      BY <3>4 DEF Social!Idle
    <3> QED
      BY <2>2, <3>1, <3>3, <3>4, <3>5 DEF VotesInv
  <2>7. CASE Social!SaveComment(r)
    BY <2>2, <2>7 DEF VotesInv, Social!SaveComment, Social!Done, Social!Idle
  <2>8. ASSUME NEW c \in Comments, NEW parent \in Comments \cup {None}, Social!PostComment(r, c, parent)
        PROVE  VotesInv'
    BY <2>8 DEF VotesInv, Social!PostComment
  <2>9. ASSUME NEW c \in Comments, NEW row1, Social!Load(r, c, row1) PROVE VotesInv'
    BY <2>2, <2>9 DEF VotesInv, Social!Load, Social!Idle
  <2>10. ASSUME NEW c \in Comments,
                \/ Social!EditComment(r, c) \/ Social!DeleteOwn(r, c) \/ Social!HideComment(r, c)
                \/ Social!UnhideComment(r, c) \/ Social!RemoveAsAdmin(r, c)
         PROVE  VotesInv'
    BY <2>9, <2>10 DEF Social!EditComment, Social!DeleteOwn, Social!HideComment,
                       Social!UnhideComment, Social!RemoveAsAdmin
  <2> QED
    BY <2>1, <2>3, <2>4, <2>5, <2>6, <2>7, <2>8, <2>10 DEF Social!Handle
<1> QED
  BY <1>1, <1>2 DEF Social!Serial

LEMMA ListsSpec == Spec => Lists!Spec
<1>1. Init => Lists!Init
  BY DEF Init
<1>2. [Next]_vars => [Lists!Next]_(Lists!vars)
  BY DEF Next, vars, lists, Lists!vars
<1> QED
  BY <1>1, <1>2, PTL DEF Spec, Lists!Spec

\* Before there is a list there is nothing on it.
ListInv ==
  /\ list \in Lists!ListRow \cup {None}
  /\ index \in [Items -> Nat \cup {None}]
  /\ \A v, w \in Lists!Held : index[v] = index[w] => v = w
  /\ lost \in Nat
  /\ IF list = None THEN Lists!Held = {} /\ lost = 0
     ELSE /\ list.itemCount = Cardinality(Lists!Held) + lost
          /\ Cardinality(Lists!Held) <= MaxListed

LEMMA ListInit == Lists!Init => ListInv
  BY DEF Lists!Init, ListInv, Lists!Held

LEMMA HeldFinite ==
  ASSUME ListInv
  PROVE  /\ IsFiniteSet(Lists!Held) /\ Cardinality(Lists!Held) \in Nat
         /\ IsFiniteSet(Lists!Indexes) /\ Lists!Indexes \subseteq Nat
         /\ Cardinality(Lists!Indexes) = Cardinality(Lists!Held)
<1>1. IsFiniteSet(Lists!Held) /\ Cardinality(Lists!Held) \in Nat
  BY CollectionsAssumption, FS_Subset, FS_CardinalityType DEF Lists!Held
<1> DEFINE f == [w \in Lists!Held |-> index[w]]
<1>2. f \in Bijection(Lists!Held, Lists!Indexes)
  <2>1. f \in [Lists!Held -> Lists!Indexes]
    BY DEF Lists!Indexes
  <2>2. IsInjective(f)
    BY DEF IsInjective, ListInv
  <2>3. \A p \in Lists!Indexes : \E w \in Lists!Held : f[w] = p
    BY DEF Lists!Indexes
  <2> QED
    BY <2>1, <2>2, <2>3 DEF Bijection, Injection, Surjection
<1>3. ExistsBijection(Lists!Held, Lists!Indexes)
  BY <1>2 DEF ExistsBijection
<1>4. Lists!Indexes \subseteq Nat
  BY DEF ListInv, Lists!Indexes, Lists!Held
<1> QED
  BY <1>1, <1>3, <1>4, FS_Bijection

\* A recount saves the number of items that are left.
LEMMA RecountKeeps ==
  ASSUME list \in Lists!ListRow, Lists!Recount(index'), index' \in [Items -> Nat \cup {None}],
         \A v, w \in Lists!Held' : index'[v] = index'[w] => v = w,
         IsFiniteSet(Lists!Held'), Cardinality(Lists!Held') <= MaxListed
  PROVE  ListInv'
<1> DEFINE n == Cardinality(Lists!Held')
<1>1. n \in Nat
  BY FS_CardinalityType
<1>2. list' = [list EXCEPT !.itemCount = n] /\ lost' = 0
  BY DEF Lists!Recount, Lists!Held, Lists!Cardinality, Cardinality
<1> HIDE DEF n
<1>3. list' \in Lists!ListRow /\ list'.itemCount = n /\ list' # None
  BY <1>1, <1>2, CollectionsAssumption DEF Lists!ListRow
<1>4. list'.itemCount = Cardinality(Lists!Held') + lost'
  BY <1>1, <1>2, <1>3 DEF n
<1> QED
  BY <1>2, <1>3, <1>4 DEF ListInv

LEMMA AddItemKeeps ==
  ASSUME ListInv, NEW w \in Items, Lists!AddItem(w)
  PROVE  ListInv'
<1> DEFINE next == Lists!NextIndex
<1>1. next \in Nat \ Lists!Indexes
  <2>1. CASE Lists!Held = {}
    BY <2>1 DEF Lists!NextIndex, Lists!Indexes
  <2>2. CASE Lists!Held # {}
    <3> DEFINE S == Lists!Indexes
    <3>1. S # {} /\ IsFiniteSet(S) /\ S \subseteq Nat
      BY <2>2, HeldFinite DEF Lists!Indexes
    <3>2. next = Lists!Max(S) + 1
      BY <2>2 DEF Lists!NextIndex
    <3> HIDE DEF S, next
    <3>3. \E x \in S : \A y \in S : x >= y
      BY <3>1, HighestOfFinite
    <3>4. Lists!Max(S) \in S /\ \A y \in S : Lists!Max(S) >= y
      BY <3>3 DEF Lists!Max
    <3>5. Lists!Max(S) \in Nat
      BY <3>1, <3>4
    <3>6. next \in Nat \ S
      BY <3>1, <3>2, <3>4, <3>5
    <3> QED
      BY <3>6 DEF S
  <2> QED
    BY <2>1, <2>2
<1>2. /\ list # None /\ index[w] = None /\ list.itemCount < MaxListed
      /\ index' = [index EXCEPT ![w] = next] /\ Lists!Recount(index')
  BY DEF Lists!AddItem, Lists!Open
<1> HIDE DEF next
<1>3. next # None
  BY <1>1, TrackersAssumption
<1>4. /\ index' \in [Items -> Nat \cup {None}] /\ index'[w] = next
      /\ \A v \in Items \ {w} : index'[v] = index[v]
  BY <1>1, <1>2 DEF ListInv
<1>5. Lists!Held' = Lists!Held \cup {w} /\ w \notin Lists!Held
  BY <1>2, <1>3, <1>4 DEF Lists!Held
<1>6. \A v \in Lists!Held : index'[v] = index[v] /\ index[v] # next
  BY <1>1, <1>4, <1>5 DEF Lists!Held, Lists!Indexes
<1>7. IsFiniteSet(Lists!Held') /\ Cardinality(Lists!Held') = Cardinality(Lists!Held) + 1
  BY <1>5, HeldFinite, FS_AddElement
<1>8. Cardinality(Lists!Held') <= MaxListed
  <2>1. list.itemCount = Cardinality(Lists!Held) + lost /\ lost \in Nat
    BY <1>2 DEF ListInv
  <2> QED
    BY <1>2, <1>7, <2>1, HeldFinite, CollectionsAssumption
<1>9. list \in Lists!ListRow
  BY <1>2 DEF ListInv
<1>10. \A u, v \in Lists!Held' : index'[u] = index'[v] => u = v
  BY <1>4, <1>5, <1>6 DEF ListInv
<1> QED
  BY <1>2, <1>4, <1>7, <1>8, <1>9, <1>10, RecountKeeps

\* What leaves the list, taken off it or purged.
LEMMA TakenOff ==
  ASSUME ListInv, NEW w \in Items, index' = [index EXCEPT ![w] = None]
  PROVE  /\ index' \in [Items -> Nat \cup {None}] /\ Lists!Held' = Lists!Held \ {w}
         /\ \A u, v \in Lists!Held' : index'[u] = index'[v] => u = v
         /\ IsFiniteSet(Lists!Held') /\ Cardinality(Lists!Held') \in Nat
         /\ Cardinality(Lists!Held) = Cardinality(Lists!Held') + IF w \in Lists!Held THEN 1 ELSE 0
<1>1. /\ index' \in [Items -> Nat \cup {None}] /\ index'[w] = None
      /\ \A v \in Items \ {w} : index'[v] = index[v]
  BY DEF ListInv
<1>2. Lists!Held' = Lists!Held \ {w}
  BY <1>1 DEF Lists!Held
<1>3. \A u, v \in Lists!Held' : index'[u] = index'[v] => u = v
  BY <1>1, <1>2 DEF ListInv, Lists!Held
<1>4. /\ IsFiniteSet(Lists!Held')
      /\ Cardinality(Lists!Held') = IF w \in Lists!Held THEN Cardinality(Lists!Held) - 1
                                    ELSE Cardinality(Lists!Held)
  BY <1>2, HeldFinite, FS_RemoveElement
<1>5. Cardinality(Lists!Held') \in Nat
  BY <1>4, FS_CardinalityType
<1> QED
  BY <1>1, <1>2, <1>3, <1>4, <1>5, HeldFinite

LEMMA NoMoreHeld ==
  ASSUME ListInv, NEW w \in Items, index' = [index EXCEPT ![w] = None],
         Cardinality(Lists!Held) <= MaxListed
  PROVE  Cardinality(Lists!Held') <= MaxListed
<1>1. /\ Cardinality(Lists!Held) \in Nat /\ Cardinality(Lists!Held') \in Nat
      /\ Cardinality(Lists!Held) = Cardinality(Lists!Held') + IF w \in Lists!Held THEN 1 ELSE 0
  BY TakenOff, HeldFinite
<1> QED
  BY <1>1, CollectionsAssumption

LEMMA RemoveItemKeeps ==
  ASSUME ListInv, NEW w \in Items, Lists!RemoveItem(w)
  PROVE  ListInv'
<1>1. list # None /\ index' = [index EXCEPT ![w] = None] /\ Lists!Recount(index')
  BY DEF Lists!RemoveItem, Lists!Open
<1>2. Cardinality(Lists!Held) <= MaxListed
  BY <1>1 DEF ListInv
<1>3. Cardinality(Lists!Held') <= MaxListed
  BY <1>1, <1>2, NoMoreHeld
<1>4. list \in Lists!ListRow
  BY <1>1 DEF ListInv
<1> QED
  BY <1>1, <1>3, <1>4, TakenOff, RecountKeeps

LEMMA ReorderItemsKeeps ==
  ASSUME ListInv, NEW o \in Lists!SetToSeqs(Lists!Held), Lists!ReorderItems(o)
  PROVE  ListInv'
<1> DEFINE n == Cardinality(Lists!Held)
           Position(w) == CHOOSE p \in DOMAIN o : o[p] = w
<1>1. /\ o \in [1..n -> Lists!Held] /\ DOMAIN o = 1..n
      /\ \A p, q \in 1..n : p # q => o[p] # o[q]
  BY DEF Lists!SetToSeqs, Lists!Cardinality, Cardinality
<1>2. \A w \in Lists!Held : \E p \in 1..n : o[p] = w
  BY <1>1, HeldFinite, EveryPosition
<1>3. /\ index' = [w \in Items |-> IF w \in Lists!Held THEN Position(w) - 1 ELSE None]
      /\ list' = list /\ lost' = lost
  BY DEF Lists!ReorderItems
<1>4. n \in Nat
  BY HeldFinite
<1> HIDE DEF n
<1>5. \A w \in Lists!Held : Position(w) \in 1..n /\ o[Position(w)] = w
  BY <1>1, <1>2
<1> HIDE DEF Position
<1>6. \A w \in Lists!Held : Position(w) - 1 \in Nat
  BY <1>4, <1>5
<1>7. /\ index' \in [Items -> Nat \cup {None}]
      /\ \A w \in Lists!Held : w \in Items /\ index'[w] = Position(w) - 1
      /\ \A w \in Items \ Lists!Held : index'[w] = None
  BY <1>3, <1>6 DEF Lists!Held
<1>8. Lists!Held' = Lists!Held
  BY <1>6, <1>7, TrackersAssumption DEF Lists!Held
<1>9. ASSUME NEW v \in Lists!Held, NEW w \in Lists!Held, index'[v] = index'[w] PROVE v = w
  <2>1. Position(v) = Position(w)
    BY <1>4, <1>5, <1>7, <1>9
  <2> QED
    BY <1>5, <2>1
<1> QED
  BY <1>3, <1>7, <1>8, <1>9 DEF ListInv

\* Nobody recounts, but what was lost is not what the list may hold.
LEMMA PurgeWorkKeeps ==
  ASSUME ListInv, NEW w \in Items, Lists!PurgeWork(w)
  PROVE  ListInv'
<1>1. /\ index' = [index EXCEPT ![w] = None] /\ list' = list
      /\ lost' = lost + Cardinality({w} \cap Lists!Held)
  BY DEF Lists!PurgeWork, Lists!Cardinality, Cardinality
<1>2. Cardinality({w} \cap Lists!Held) = IF w \in Lists!Held THEN 1 ELSE 0
  <2>1. CASE w \in Lists!Held
    <3>1. {w} \cap Lists!Held = {w}
      BY <2>1
    <3> QED
      BY <2>1, <3>1, FS_Singleton
  <2>2. CASE w \notin Lists!Held
    <3>1. {w} \cap Lists!Held = {}
      BY <2>2
    <3> QED
      BY <2>2, <3>1, FS_EmptySet
  <2> QED
    BY <2>1, <2>2
<1>3. lost' \in Nat /\ Cardinality(Lists!Held) + lost = Cardinality(Lists!Held') + lost'
  <2>1. /\ Cardinality(Lists!Held) \in Nat /\ Cardinality(Lists!Held') \in Nat
        /\ Cardinality(Lists!Held) = Cardinality(Lists!Held') + IF w \in Lists!Held THEN 1 ELSE 0
    BY <1>1, TakenOff, HeldFinite
  <2>2. lost \in Nat
    BY DEF ListInv
  <2> QED
    BY <1>1, <1>2, <2>1, <2>2
<1>4. CASE list = None
  <2>1. Lists!Held = {} /\ lost = 0
    BY <1>4 DEF ListInv
  <2>2. Lists!Held' = {} /\ lost' = 0
    BY <1>1, <1>2, <2>1, TakenOff
  <2> QED
    BY <1>1, <1>4, <2>2, TakenOff DEF ListInv
<1>5. CASE list # None
  <2>1. Cardinality(Lists!Held) <= MaxListed
    BY <1>5 DEF ListInv
  <2>2. Cardinality(Lists!Held') <= MaxListed
    BY <1>1, <2>1, NoMoreHeld
  <2>3. list.itemCount = Cardinality(Lists!Held) + lost
    BY <1>5 DEF ListInv
  <2>4. /\ index' \in [Items -> Nat \cup {None}]
        /\ \A u, v \in Lists!Held' : index'[u] = index'[v] => u = v
    BY <1>1, TakenOff
  <2>5. list' \in Lists!ListRow \cup {None} /\ list' # None
    BY <1>1, <1>5 DEF ListInv
  <2>6. list'.itemCount = Cardinality(Lists!Held') + lost'
    BY <1>1, <1>3, <2>3
  <2> QED
    BY <1>3, <2>2, <2>4, <2>5, <2>6 DEF ListInv
<1> QED
  BY <1>4, <1>5

LEMMA ListStep == ListInv /\ [Lists!Next]_(Lists!vars) => ListInv'
<1> SUFFICES ASSUME ListInv, [Lists!Next]_(Lists!vars) PROVE ListInv'
  OBVIOUS
<1>1. ASSUME UNCHANGED <<list, index, lost>> PROVE ListInv'
  BY <1>1 DEF ListInv, Lists!Held
<1>2. ASSUME NEW public \in BOOLEAN, Lists!CreateList(public) PROVE ListInv'
  <2>1. /\ list = None /\ list' = [isPublic |-> public, itemCount |-> 0, deleted |-> FALSE]
        /\ UNCHANGED <<index, lost>>
    BY <1>2 DEF Lists!CreateList
  <2>2. list' \in Lists!ListRow /\ list'.itemCount = 0 /\ list' # None
    <3> DEFINE fresh == [isPublic |-> public, itemCount |-> 0, deleted |-> FALSE]
    <3>1. fresh \in Lists!ListRow /\ fresh.itemCount = 0
      <4>1. 0 \in Nat /\ FALSE \in BOOLEAN
        OBVIOUS
      <4> QED
        BY <4>1, Zenon DEF Lists!ListRow
    <3> HIDE DEF fresh
    <3>2. list' = fresh
      BY <2>1 DEF fresh
    <3> QED
      BY <3>1, <3>2, CollectionsAssumption
  <2>3. Lists!Held' = {} /\ lost' = 0
    BY <2>1 DEF ListInv, Lists!Held
  <2>4. Cardinality(Lists!Held') = 0
    BY <2>3, FS_EmptySet
  <2> QED
    BY <2>1, <2>2, <2>3, <2>4, CollectionsAssumption DEF ListInv
<1>3. ASSUME NEW public \in BOOLEAN, Lists!UpdateList(public) \/ Lists!RemoveList PROVE ListInv'
  <2>1. /\ list \in Lists!ListRow
        /\ list' = [list EXCEPT !.isPublic = public] \/ list' = [list EXCEPT !.deleted = TRUE]
        /\ UNCHANGED <<index, lost>>
    BY <1>3 DEF Lists!UpdateList, Lists!RemoveList, Lists!Open, ListInv
  <2>2. list' \in Lists!ListRow /\ list'.itemCount = list.itemCount
    <3>1. CASE list' = [list EXCEPT !.isPublic = public]
      BY <2>1, <3>1 DEF Lists!ListRow
    <3>2. CASE list' = [list EXCEPT !.deleted = TRUE]
      BY <2>1, <3>2 DEF Lists!ListRow
    <3> QED
      BY <2>1, <3>1, <3>2
  <2>3. list' # None /\ list # None
    BY <2>1, <2>2, CollectionsAssumption
  <2> QED
    BY <2>1, <2>2, <2>3 DEF ListInv, Lists!Held
<1>4. ASSUME NEW w \in Items, Lists!AddItem(w) PROVE ListInv'
  BY <1>4, AddItemKeeps
<1>5. ASSUME NEW w \in Items, Lists!RemoveItem(w) PROVE ListInv'
  BY <1>5, RemoveItemKeeps
<1>6. ASSUME NEW w \in Items, Lists!Withdraw(w) \/ Lists!Return(w) PROVE ListInv'
  BY <1>1, <1>6 DEF Lists!Withdraw, Lists!Return
<1>7. ASSUME NEW w \in Items, Lists!PurgeWork(w) PROVE ListInv'
  BY <1>7, PurgeWorkKeeps
<1>8. ASSUME NEW o \in Lists!SetToSeqs(Lists!Held), Lists!ReorderItems(o) PROVE ListInv'
  BY <1>8, ReorderItemsKeeps
<1>9. CASE UNCHANGED Lists!vars
  BY <1>1, <1>9 DEF Lists!vars
<1> QED
  BY <1>2, <1>3, <1>4, <1>5, <1>6, <1>7, <1>8, <1>9 DEF Lists!Next

LEMMA ListAgrees == ListInv => Lists!ListCounted
  BY HeldFinite DEF ListInv, Lists!ListCounted, Lists!Cardinality, Cardinality

\* StorytimeReactionService counts in the transaction that writes the vote and
\* StorytimeReadingListService.recount after every change of a list: through any
\* sequence of votes, withdrawals, additions, reorderings and purges the counts are
\* those of the rows, and a list never holds more than it may.
THEOREM CountsHold == Spec => []CountsKept
<1>1. VotesInv => Social!VotesCounted
  BY DEF VotesInv, Social!VotesCounted
<1>2. VotesInv /\ ListInv => CountsKept
  BY <1>1, ListAgrees DEF CountsKept
<1>3. Spec => []VotesInv
  BY VotesInit, VotesStep, SocialSpec, PTL DEF Social!SerialSpec
<1>4. Spec => []ListInv
  BY ListInit, ListStep, ListsSpec, PTL DEF Lists!Spec
<1> QED
  BY <1>2, <1>3, <1>4, PTL

--------------------------------------------------------------------------------
(* The answer of a custom Field.                                           *)

LEMMA AnswersSpec == Spec => Answers!Spec
<1>1. Init => Answers!Init
  BY DEF Init
<1>2. [Next]_vars => [Answers!Next]_(Answers!vars)
  BY DEF Next, vars, answers, Answers!vars
<1> QED
  BY <1>1, <1>2, PTL DEF Spec, Answers!Spec

\* The rank of an element of a finite set of numbers, and the element of a rank.
Rank(F, n) == Cardinality({m \in F : m <= n})

LEMMA EveryRank ==
  ASSUME NEW F \in SUBSET Nat, IsFiniteSet(F)
  PROVE  /\ \A n \in F : Rank(F, n) \in 1..Cardinality(F)
         /\ \A a, b \in F : Rank(F, a) = Rank(F, b) => a = b
         /\ \A k \in 1..Cardinality(F) : \E n \in F : Rank(F, n) = k
<1> DEFINE Below(n) == {m \in F : m <= n}
           N == Cardinality(F)
<1>1. ASSUME NEW n \in F
      PROVE  IsFiniteSet(Below(n)) /\ Rank(F, n) \in 1..N
  <2>1. IsFiniteSet(Below(n)) /\ Cardinality(Below(n)) <= N
    BY FS_Subset
  <2>2. n \in Below(n)
    OBVIOUS
  <2>3. Cardinality(Below(n)) # 0 /\ Cardinality(Below(n)) \in Nat /\ N \in Nat
    BY <2>1, <2>2, FS_EmptySet, FS_CardinalityType
  <2> HIDE DEF N
  <2>4. Cardinality(Below(n)) \in 1..N
    BY <2>1, <2>3 DEF N
  <2> QED
    BY <2>1, <2>4 DEF Rank
<1>2. ASSUME NEW a \in F, NEW b \in F, a < b
      PROVE  Rank(F, a) # Rank(F, b)
  <2>1. Below(a) \subseteq Below(b) /\ b \in Below(b) /\ b \notin Below(a)
    <3>1. a \in Nat /\ b \in Nat /\ \A m \in F : m \in Nat
      OBVIOUS
    <3>2. ASSUME NEW m \in Below(a) PROVE m \in Below(b)
      BY <1>2, <3>1
    <3>3. b <= b /\ ~(b <= a)
      BY <1>2, <3>1
    <3> QED
      BY <3>2, <3>3
  <2>2. IsFiniteSet(Below(b))
    BY <1>1
  <2>3. Cardinality(Below(a)) # Cardinality(Below(b))
    BY <2>1, <2>2, FS_Subset
  <2> QED
    BY <2>3 DEF Rank
<1>3. \A a, b \in F : Rank(F, a) = Rank(F, b) => a = b
  <2> SUFFICES ASSUME NEW a \in F, NEW b \in F, a # b PROVE Rank(F, a) # Rank(F, b)
    OBVIOUS
  <2>1. a < b \/ b < a
    OBVIOUS
  <2> QED
    BY <1>2, <2>1
<1> DEFINE f == [n \in F |-> Rank(F, n)]
<1>4. f \in Injection(F, 1..N)
  BY <1>1, <1>3 DEF Injection, IsInjective
<1>5. f \in Surjection(F, 1..N)
  <2>1. N \in Nat
    BY FS_CardinalityType
  <2> HIDE DEF N
  <2>2. IsFiniteSet(1..N) /\ Cardinality(1..N) = N
    BY <2>1, FS_Interval
  <2>3. Cardinality(F) = Cardinality(1..N)
    BY <2>2 DEF N
  <2> HIDE DEF f
  <2> QED
    BY <1>4, <2>2, <2>3, FS_Injection
<1>6. \A k \in 1..N : \E n \in F : f[n] = k
  BY <1>5 DEF Surjection
<1> QED
  BY <1>1, <1>3, <1>6

Firsts(ids) == {n \in DOMAIN ids : \A m \in 1..(n - 1) : ids[m] # ids[n]}

LEMMA DistinctByRank ==
  ASSUME NEW ids
  PROVE  Answers!Distinct(ids) =
           [k \in 1..Cardinality(Firsts(ids)) |->
              ids[CHOOSE n \in Firsts(ids) : Rank(Firsts(ids), n) = k]]
  BY DEF Answers!Distinct, Answers!Cardinality, Cardinality, Rank, Firsts

\* The distinct ids are ids of the list, without repetition.
LEMMA DistinctIds ==
  ASSUME NEW S, NEW n \in Nat, NEW ids \in [1..n -> S]
  PROVE  /\ Cardinality(Firsts(ids)) \in Nat
         /\ Answers!Distinct(ids) \in [1..Cardinality(Firsts(ids)) -> S]
         /\ \A j, k \in 1..Cardinality(Firsts(ids)) :
              Answers!Distinct(ids)[j] = Answers!Distinct(ids)[k] => j = k
<1> DEFINE F == Firsts(ids)
           N == Cardinality(F)
           At(k) == CHOOSE m \in F : Rank(F, m) = k
<1>1. F \in SUBSET (1..n)
  BY DEF Firsts
<1>2. IsFiniteSet(F) /\ F \in SUBSET Nat /\ N \in Nat
  <2> HIDE DEF F
  <2>1. IsFiniteSet(1..n)
    BY FS_Interval
  <2>2. IsFiniteSet(F)
    BY <1>1, <2>1, FS_Subset
  <2>3. F \in SUBSET Nat
    BY <1>1
  <2> QED
    BY <2>2, <2>3, FS_CardinalityType
<1>3. \A k \in 1..N : At(k) \in F /\ Rank(F, At(k)) = k
  <2> HIDE DEF F, N
  <2>1. \A k \in 1..N : \E m \in F : Rank(F, m) = k
    BY <1>2, EveryRank DEF N
  <2> QED
    BY <2>1
<1>4. \A a, b \in F : ids[a] = ids[b] => a = b
  <2> SUFFICES ASSUME NEW a \in F, NEW b \in F, ids[a] = ids[b], a # b PROVE FALSE
    OBVIOUS
  <2>1. a \in 1..n /\ b \in 1..n
    BY <1>1
  <2>2. CASE a < b
    BY <2>1, <2>2 DEF Firsts
  <2>3. CASE b < a
    BY <2>1, <2>3 DEF Firsts
  <2> QED
    BY <2>1, <2>2, <2>3
<1>5. Answers!Distinct(ids) = [k \in 1..N |-> ids[At(k)]]
  BY DistinctByRank
<1> HIDE DEF F, N, At
<1>6. Answers!Distinct(ids) \in [1..N -> S]
  BY <1>1, <1>3, <1>5
<1>7. ASSUME NEW j \in 1..N, NEW k \in 1..N, Answers!Distinct(ids)[j] = Answers!Distinct(ids)[k]
      PROVE  j = k
  <2>1. ids[At(j)] = ids[At(k)]
    BY <1>5, <1>7
  <2> QED
    BY <1>3, <1>4, <2>1
<1> QED
  BY <1>2, <1>6, <1>7 DEF F, N

\* A list without repetition is its own distinct ids.
LEMMA DistinctAgain ==
  ASSUME NEW S, NEW n \in Nat, NEW ids \in [1..n -> S],
         \A j, k \in 1..n : ids[j] = ids[k] => j = k
  PROVE  Answers!Distinct(ids) = ids
<1> DEFINE At(k) == CHOOSE m \in 1..n : Rank(1..n, m) = k
<1>1. Firsts(ids) = 1..n
  BY DEF Firsts
<1>2. Cardinality(1..n) = n
  BY FS_Interval
<1>3. ASSUME NEW m \in 1..n PROVE Rank(1..n, m) = m
  <2>1. {l \in 1..n : l <= m} = 1..m
    OBVIOUS
  <2>2. Cardinality(1..m) = m
    BY FS_Interval
  <2> QED
    BY <2>1, <2>2 DEF Rank
<1>4. \A k \in 1..n : At(k) = k
  BY <1>3
<1>5. Answers!Distinct(ids) = [k \in 1..n |-> ids[At(k)]]
  <2> DEFINE Listed(F, l) == [k \in 1..l |-> ids[CHOOSE m \in F : Rank(F, m) = k]]
  <2>1. Answers!Distinct(ids) = Listed(Firsts(ids), Cardinality(Firsts(ids)))
    BY DistinctByRank
  <2>2. Listed(1..n, n) = [k \in 1..n |-> ids[At(k)]]
    OBVIOUS
  <2> HIDE DEF Listed
  <2> QED
    BY <1>1, <1>2, <2>1, <2>2
<1> HIDE DEF At
<1> QED
  BY <1>4, <1>5

\* Most answers are stored as they are sent, and judged by the configuration alone.
AsSent ==
  {"TEXT", "INTEGER", "RANGE", "DECIMAL", "PERCENTAGE", "RATING", "PROGRESS", "DATE", "YEAR",
   "DATE_RANGE", "COLOUR"}

LEMMA TakenAsSent ==
  ASSUME NEW f, f.type \in AsSent, NEW s, s # None, NEW g, NEW p,
         Answers!Validate(f, s, g, p) \notin {Refused, Cleared}
  PROVE  /\ Answers!Validate(f, s, g, p) = s
         /\ \A h, q : Answers!Validate(f, s, h, q) = s
<1>1. CASE f.type = "TEXT"
  BY <1>1 DEF Answers!Validate, Answers!Text, Answers!Take
<1>2. CASE f.type \in {"INTEGER", "RANGE"}
  BY <1>2 DEF Answers!Validate, Answers!Integer, Answers!Take
<1>3. CASE f.type \in {"DECIMAL", "PERCENTAGE"}
  BY <1>3 DEF Answers!Validate, Answers!Decimal, Answers!Take
<1>4. CASE f.type = "RATING"
  BY <1>4 DEF Answers!Validate, Answers!Rating, Answers!Take
<1>5. CASE f.type = "PROGRESS"
  BY <1>5 DEF Answers!Validate, Answers!Progress, Answers!Take
<1>6. CASE f.type \in {"DATE", "YEAR"}
  BY <1>6 DEF Answers!Validate, Answers!WithinBounds, Answers!Take
<1>7. CASE f.type = "DATE_RANGE"
  BY <1>7 DEF Answers!Validate, Answers!DateRange, Answers!Take
<1>8. CASE f.type = "COLOUR"
  BY <1>8 DEF Answers!Validate, Answers!Colour, Answers!Take
<1> QED
  BY <1>1, <1>2, <1>3, <1>4, <1>5, <1>6, <1>7, <1>8 DEF AsSent

\* The instant found for a local time is one that shows as it.
LEMMA InstantShows ==
  ASSUME NEW local \in Int, NEW zone, Answers!ToUtcInstant(local, zone) # None
  PROVE  /\ Answers!ToUtcInstant(local, zone) \in Int
         /\ Answers!ToLocal(Answers!ToUtcInstant(local, zone), zone) = local
<1> DEFINE x == local - Answers!OffsetAt(local - Answers!Day, zone)
           y == local - Answers!OffsetAt(local + Answers!Day, zone)
           valid == {c \in {x, y} : Answers!ToLocal(c, zone) = local}
<1>1. x \in Int /\ y \in Int
  BY DEF Answers!OffsetAt
<1>2. Answers!ToUtcInstant(local, zone) = IF valid = {} THEN None ELSE Answers!Min(valid)
  BY DEF Answers!ToUtcInstant
<1> HIDE DEF x, y
<1>3. ASSUME valid # {} PROVE \E c \in valid : \A d \in valid : c <= d
  <2>1. CASE x \in valid /\ y \in valid
    <3>1. x <= y \/ y <= x
      BY <1>1
    <3> QED
      BY <1>1, <2>1, <3>1
  <2>2. CASE x \notin valid \/ y \notin valid
    <3>1. PICK c \in valid : \A d \in valid : d = c
      BY <1>3, <2>2
    <3>2. c \in Int
      BY <1>1
    <3> QED
      BY <3>1, <3>2
  <2> QED
    BY <2>1, <2>2
<1>4. valid # {} /\ Answers!ToUtcInstant(local, zone) = Answers!Min(valid)
  BY <1>2
<1>5. Answers!Min(valid) \in valid
  <2> HIDE DEF valid
  <2> QED
    BY <1>3, <1>4 DEF Answers!Min
<1> QED
  BY <1>1, <1>4, <1>5

LEMMA DateTimeAgain ==
  ASSUME NEW f, f.type = "DATE_TIME", NEW s \in [local : Int, zone : Answers!Zones],
         NEW g, NEW p, NEW a, a = Answers!Validate(f, s, g, p), a \notin {Refused, Cleared}, NEW h, NEW q
  PROVE  Answers!Validate(f, [local |-> Answers!ToLocal(a.instant, a.zone), zone |-> a.zone], h, q) = a
<1> DEFINE i == Answers!ToUtcInstant(s.local, s.zone)
           sent == [local |-> Answers!ToLocal(a.instant, a.zone), zone |-> a.zone]
<1>1. s # None
  BY AnswersAssumption
<1>2. a = Answers!DateTime(s)
  BY <1>1 DEF Answers!Validate
<1>3. i # None /\ a = [instant |-> i, zone |-> s.zone]
  BY <1>2 DEF Answers!DateTime, Answers!Take
<1>4. Answers!ToLocal(i, s.zone) = s.local
  BY <1>3, InstantShows
<1>5. sent = [local |-> s.local, zone |-> s.zone]
  BY <1>3, <1>4
<1>6. sent = s
  BY <1>5
<1>7. Answers!Validate(f, s, h, q) = Answers!DateTime(s)
  BY <1>1 DEF Answers!Validate
<1> QED
  BY <1>2, <1>6, <1>7

AsShown(a) == [a EXCEPT !.start = Answers!ToLocal(@, a.zone), !.end = Answers!ToLocal(@, a.zone)]

LEMMA DateTimeRangeAgain ==
  ASSUME NEW f, f.type = "DATE_TIME_RANGE", NEW s \in [start : Int, end : Int, zone : Answers!Zones],
         NEW g, NEW p, NEW a, a = Answers!Validate(f, s, g, p), a \notin {Refused, Cleared}, NEW h, NEW q
  PROVE  Answers!Validate(f, AsShown(a), h, q) = a
<1> DEFINE i == Answers!ToUtcInstant(s.start, s.zone)
           j == Answers!ToUtcInstant(s.end, s.zone)
           sent == AsShown(a)
<1>1. s # None
  BY AnswersAssumption
<1>2. a = Answers!DateTimeRange(s)
  BY <1>1 DEF Answers!Validate
<1>3. i # None /\ j # None /\ a = [start |-> i, end |-> j, zone |-> s.zone]
  BY <1>2 DEF Answers!DateTimeRange, Answers!Take
<1>4. Answers!ToLocal(i, s.zone) = s.start /\ Answers!ToLocal(j, s.zone) = s.end
  BY <1>3, InstantShows
<1>5. sent = [start |-> s.start, end |-> s.end, zone |-> s.zone]
  <2>1. a.start = i /\ a.end = j /\ a.zone = s.zone
    BY <1>3
  <2>2. sent = [[a EXCEPT !.start = s.start] EXCEPT !.end = s.end]
    BY <1>4, <2>1 DEF AsShown
  <2> HIDE DEF i, j, sent
  <2>3. PICK b : b = [start |-> s.start, end |-> j, zone |-> s.zone]
    OBVIOUS
  <2>4. [a EXCEPT !.start = s.start] = b
    BY <1>3, <2>3
  <2>5. [b EXCEPT !.end = s.end] = [start |-> s.start, end |-> s.end, zone |-> s.zone]
    BY <2>3
  <2> QED
    BY <2>2, <2>4, <2>5
<1>6. sent = s
  BY <1>5
<1>7. Answers!Validate(f, s, h, q) = Answers!DateTimeRange(s)
  BY <1>1 DEF Answers!Validate
<1> QED
  BY <1>2, <1>6, <1>7

LEMMA DurationAgain ==
  ASSUME NEW f, f.type = "DURATION", NEW s, s # None, NEW g, NEW p, NEW a,
         a = Answers!Validate(f, s, g, p), a \notin {Refused, Cleared, None}, NEW h, NEW q
  PROVE  Answers!Validate(f, a, h, q) = a
<1> DEFINE Units == {"hours", "minutes"}
           Full(t) == [u \in Units |-> Answers!Or(t[u], 0)]
           Fits(t) == \A u \in Units : t[u] \in 0..MaxComponent /\ (u \notin f.configuration.units => t[u] = 0)
<1>1. ASSUME NEW t, t # None, NEW k, NEW r
      PROVE  Answers!Validate(f, t, k, r) = IF Fits(Full(t)) THEN Full(t) ELSE Refused
  BY <1>1 DEF Answers!Validate, Answers!Duration, Answers!Take
<1>2. a = Full(s) /\ Fits(a)
  BY <1>1
<1>3. \A u \in Units : a[u] # None
  BY <1>2, AnswersAssumption
<1>4. Full(a) = a
  BY <1>2, <1>3 DEF Answers!Or
<1> HIDE DEF Full, Fits
<1> QED
  BY <1>1, <1>2, <1>4

\* Options that were withdrawn meanwhile are taken as they were chosen before.
LEMMA ChoiceAgain ==
  ASSUME NEW f, f.type \in {"CHOICE", "CHOICES"}, NEW n \in Nat, NEW s \in [1..n -> Options],
         NEW g, NEW p, NEW a, a = Answers!Validate(f, s, g, p), a \notin {Refused, Cleared, None}, NEW h
  PROVE  Answers!Validate(f, a, h, Answers!ToSet(a)) = a
<1> DEFINE ids == Answers!Distinct(s)
           N == Cardinality(Firsts(s))
<1>1. s # None
  BY DEF Answers!Validate
<1>2. a = ids /\ ids # <<>>
  BY <1>1 DEF Answers!Validate, Answers!SingleChoice, Answers!MultipleChoice, Answers!Take
<1>3. /\ N \in Nat /\ a \in [1..N -> Options]
      /\ \A j, k \in 1..N : a[j] = a[k] => j = k
  <2>1. /\ N \in Nat /\ ids \in [1..N -> Options]
        /\ \A j, k \in 1..N : ids[j] = ids[k] => j = k
    BY DistinctIds
  <2> HIDE DEF ids, N
  <2> QED
    BY <1>2, <2>1
<1>4. Answers!Distinct(a) = a
  BY <1>3, DistinctAgain
<1>5. Answers!Choosable(a, h, Answers!ToSet(a))
  BY <1>3 DEF Answers!Choosable, Answers!ToSet
<1> HIDE DEF ids, N
<1>6. CASE f.type = "CHOICE"
  <2>1. Answers!Len(a) = 1
    BY <1>1, <1>2, <1>6 DEF Answers!Validate, Answers!SingleChoice, Answers!Take, ids
  <2> QED
    BY <1>2, <1>4, <1>5, <1>6, <2>1 DEF Answers!Validate, Answers!SingleChoice, Answers!Take
<1>7. CASE f.type = "CHOICES"
  <2>1. Answers!Within(Answers!Len(a), f.configuration)
    BY <1>1, <1>2, <1>7 DEF Answers!Validate, Answers!MultipleChoice, Answers!Take, ids
  <2> QED
    BY <1>2, <1>4, <1>5, <1>7, <2>1 DEF Answers!Validate, Answers!MultipleChoice, Answers!Take
<1> QED
  BY <1>6, <1>7

LEMMA MultipleLeavesNothing ==
  ASSUME NEW q \in Int, NEW d \in Nat \ {0}
  PROVE  (q * d) % d = 0
<1> DEFINE x == q * d
           r == x % d
           k == q - (x \div d)
<1>1. x \in Int
  OBVIOUS
<1>2. r \in Int /\ 0 <= r /\ r < d /\ x \div d \in Int /\ x = d * (x \div d) + r
  <2> HIDE DEF x
  <2> QED
    BY <1>1
<1>3. k \in Int /\ k * d = r
  BY <1>2
<1> HIDE DEF k, r, x
<1>4. CASE k >= 1
  <2>1. k * d >= d
    BY <1>3, <1>4
  <2> QED
    BY <1>2, <1>3, <2>1
<1>5. CASE k <= -1
  <2>1. k * d < 0
    BY <1>3, <1>5
  <2> QED
    BY <1>2, <1>3, <2>1
<1>6. CASE k = 0
  BY <1>3, <1>6 DEF r, x
<1> QED
  BY <1>3, <1>4, <1>5, <1>6

\* Saved again, whichever Options are withdrawn by then, the answer stands.
AnswerInv ==
  /\ withdrawn \subseteq Options
  /\ field # None =>
       /\ field.type \in Answers!FieldTypes
       /\ field.type \in {"INTEGER", "RANGE"} =>
            /\ field.configuration.step \in (Nat \ {0}) \cup {None}
            /\ field.configuration.minimum \in Int \cup {None}
  /\ answer # None /\ upToDate =>
       /\ field # None
       /\ \A off \in SUBSET Options :
            Answers!Validate(field, Answers!Sent, off, Answers!Chosen) = answer
       /\ Answers!AnswerFits

LEMMA AnswerInit == Answers!Init => AnswerInv
  BY DEF Answers!Init, AnswerInv

LEMMA SteppedConfiguration ==
  ASSUME NEW type \in {"INTEGER", "RANGE"}, NEW c \in Answers!Configurations(type)
  PROVE  /\ Answers!Normalised(type, c) = c
         /\ c.step \in (Nat \ {0}) \cup {None} /\ c.minimum \in Int \cup {None}
<1>1. Answers!Normalised(type, c) = c
  BY DEF Answers!Normalised
<1>2. ASSUME NEW b \in Answers!Bounded(Answers!Optional(Numbers), Answers!Optional(Numbers)),
             NEW s \in Answers!Optional(Numbers \cap Answers!Positive),
             NEW d, d = [b EXCEPT !.step = s]
      PROVE  d.step \in (Nat \ {0}) \cup {None} /\ d.minimum \in Int \cup {None}
  <2>1. PICK low \in Answers!Optional(Numbers), high \in Answers!Optional(Numbers) :
          b = Answers!Limited(low, high)
    BY DEF Answers!Bounded
  <2>2. d.step = s /\ d.minimum = low
    BY <1>2, <2>1 DEF Answers!Limited, Answers!Plain
  <2> QED
    BY <2>2, AnswersAssumption DEF Answers!Optional, Answers!Positive
<1>3. \E b \in Answers!Bounded(Answers!Optional(Numbers), Answers!Optional(Numbers)),
         s \in Answers!Optional(Numbers \cap Answers!Positive) : c = [b EXCEPT !.step = s]
  <2>1. CASE type = "INTEGER"
    BY <2>1 DEF Answers!Configurations
  <2>2. CASE type = "RANGE"
    <3>1. PICK b \in Answers!Bounded(Numbers, Numbers), s \in Numbers \cap Answers!Positive :
            c = [b EXCEPT !.step = s]
      BY <2>2 DEF Answers!Configurations
    <3>2. b \in Answers!Bounded(Answers!Optional(Numbers), Answers!Optional(Numbers))
      BY DEF Answers!Bounded, Answers!Optional
    <3> QED
      BY <3>1, <3>2 DEF Answers!Optional
  <2> QED
    BY <2>1, <2>2
<1> QED
  BY <1>1, <1>2, <1>3

LEMMA ConfigureKeeps ==
  ASSUME AnswerInv, NEW type \in Answers!FieldTypes, NEW c \in Answers!Configurations(type),
         Answers!Configure(type, c)
  PROVE  AnswerInv'
<1>1. /\ field' = [type |-> type, configuration |-> Answers!Normalised(type, c)]
      /\ upToDate' = (upToDate /\ field' = field) /\ UNCHANGED <<withdrawn, answer>>
  BY DEF Answers!Configure
<1>2. field'.type = type /\ field'.configuration = Answers!Normalised(type, c)
  BY <1>1
<1>3. type \in {"INTEGER", "RANGE"} =>
        /\ field'.configuration.step \in (Nat \ {0}) \cup {None}
        /\ field'.configuration.minimum \in Int \cup {None}
  BY <1>2, SteppedConfiguration
<1>4. CASE upToDate /\ field' = field
  BY <1>1, <1>4 DEF AnswerInv, Answers!Sent, Answers!Chosen, Answers!AnswerFits
<1>5. CASE ~(upToDate /\ field' = field)
  BY <1>1, <1>2, <1>3, <1>5 DEF AnswerInv
<1> QED
  BY <1>4, <1>5

LEMMA DeleteOptionKeeps ==
  ASSUME AnswerInv, NEW o \in Options, Answers!DeleteOption(o)
  PROVE  AnswerInv'
<1>1. withdrawn' = withdrawn \cup {o} /\ UNCHANGED <<field, answer, upToDate>>
  BY DEF Answers!DeleteOption
<1> QED
  BY <1>1 DEF AnswerInv, Answers!Sent, Answers!Chosen, Answers!AnswerFits

\* What a save stores is what it would store again.
LEMMA SavedTakenAgain ==
  ASSUME AnswerInv, field # None, NEW s \in Answers!Submissions(field.type), Answers!SaveRecord(s),
         answer' # None, NEW off
  PROVE  Answers!Validate(field, Answers!Sent', off, Answers!Chosen') = answer'
<1> DEFINE p == Answers!Chosen
<1>1. /\ answer' = Answers!Validate(field, s, withdrawn, p) /\ field' = field
      /\ answer' \notin {Refused, Cleared, None}
  BY DEF Answers!SaveRecord
<1>2. s # None
  BY <1>1 DEF Answers!Validate
<1>3. field.type \in Answers!FieldTypes
  BY DEF AnswerInv
<1> HIDE DEF p
<1>4. CASE field.type \in AsSent
  <2>1. Answers!Sent' = answer'
    BY <1>1, <1>4 DEF Answers!Sent, AsSent
  <2> QED
    BY <1>1, <1>2, <1>4, <2>1, TakenAsSent
<1>5. CASE field.type = "DATE_TIME"
  <2>1. s \in [local : Int, zone : Answers!Zones]
    BY <1>2, <1>5, AnswersAssumption DEF Answers!Submissions, Answers!Optional
  <2>2. Answers!Sent' = [local |-> Answers!ToLocal(answer'.instant, answer'.zone), zone |-> answer'.zone]
    BY <1>1, <1>5 DEF Answers!Sent, Answers!ToLocal, Answers!OffsetAt
  <2> QED
    BY <1>1, <1>5, <2>1, <2>2, DateTimeAgain
<1>6. CASE field.type = "DATE_TIME_RANGE"
  <2>1. s \in [start : Int, end : Int, zone : Answers!Zones]
    BY <1>2, <1>6, AnswersAssumption DEF Answers!Submissions, Answers!Optional
  <2>2. Answers!Sent' = AsShown(answer')
    BY <1>1, <1>6 DEF Answers!Sent, Answers!ToLocal, Answers!OffsetAt, AsShown
  <2> QED
    BY <1>1, <1>6, <2>1, <2>2, DateTimeRangeAgain
<1>7. CASE field.type = "DURATION"
  <2>1. Answers!Sent' = answer'
    BY <1>1, <1>7 DEF Answers!Sent
  <2> QED
    BY <1>1, <1>2, <1>7, <2>1, DurationAgain
<1>8. CASE field.type \in {"CHOICE", "CHOICES"}
  <2>1. PICK n \in Nat : s \in [1..n -> Options]
    <3> DEFINE Ids(n) == [1..n -> Options]
    <3>1. s \in UNION {Ids(n) : n \in 0..3}
      BY <1>2, <1>8 DEF Answers!Submissions, Answers!Optional
    <3> HIDE DEF Ids
    <3>2. PICK n \in 0..3 : s \in Ids(n)
      BY <3>1
    <3> QED
      BY <3>2 DEF Ids
  <2>2. Answers!Sent' = answer'
    BY <1>1, <1>8 DEF Answers!Sent
  <2>3. Answers!Chosen' = Answers!ToSet(answer')
    BY <1>1, <1>8 DEF Answers!Chosen, Answers!ToSet
  <2> QED
    BY <1>1, <1>8, <2>1, <2>2, <2>3, ChoiceAgain
<1>9. CASE field.type = "IMAGE"
  BY <1>1, <1>2, <1>9 DEF Answers!Validate
<1> QED
  BY <1>3, <1>4, <1>5, <1>6, <1>7, <1>8, <1>9 DEF Answers!FieldTypes, AsSent

LEMMA SavedFits ==
  ASSUME AnswerInv, field # None, NEW s \in Answers!Submissions(field.type), Answers!SaveRecord(s),
         answer' # None
  PROVE  Answers!AnswerFits'
<1> DEFINE c == field.configuration
<1>1. /\ answer' = Answers!Validate(field, s, withdrawn, Answers!Chosen) /\ field' = field
      /\ answer' \notin {Refused, Cleared, None}
  BY DEF Answers!SaveRecord
<1>2. s # None
  BY <1>1 DEF Answers!Validate
<1>3. CASE field.type \in {"INTEGER", "RANGE"}
  <2>1. answer' = s /\ Answers!Within(s, c) /\ Answers!OnStep(s, c)
    BY <1>1, <1>2, <1>3 DEF Answers!Validate, Answers!Integer, Answers!Take
  <2>2. s \in Int
    BY <1>2, <1>3, AnswersAssumption DEF Answers!Submissions, Answers!Optional
  <2>3. /\ c.step \in (Nat \ {0}) \cup {None}
        /\ c.minimum \in Int \cup {None}
    BY <1>3 DEF AnswerInv
  <2>4. Answers!Or(c.minimum, 0) \in Int
    BY <2>3 DEF Answers!Or
  <2>5. ASSUME c.step # None PROVE (s - Answers!Or(c.minimum, 0)) % c.step = 0
    <3> DEFINE offset == s - Answers!Or(c.minimum, 0)
               q == Answers!Rounded(offset, c.step)
    <3>1. offset \in Int /\ c.step \in Nat \ {0}
      BY <2>2, <2>3, <2>4, <2>5
    <3>2. q * c.step = offset
      BY <2>1, <2>5 DEF Answers!OnStep
    <3>3. q \in Int
      <4> HIDE DEF offset
      <4> QED
        BY <3>1 DEF Answers!Rounded
    <3> HIDE DEF q, offset
    <3>4. offset % c.step = 0
      BY <3>1, <3>2, <3>3, MultipleLeavesNothing
    <3> QED
      BY <3>4 DEF offset
  <2> QED
    BY <1>1, <1>3, <2>1, <2>5 DEF Answers!AnswerFits, Answers!Within, Answers!AtLeast, Answers!AtMost, Answers!Or
<1>4. CASE field.type \in {"DECIMAL", "PERCENTAGE"}
  <2>1. answer' = s /\ Answers!Within(s, c) /\ Answers!Places(s) <= c.precision
    BY <1>1, <1>2, <1>4 DEF Answers!Validate, Answers!Decimal, Answers!Take
  <2> QED
    BY <1>1, <1>4, <2>1 DEF Answers!AnswerFits, Answers!Within, Answers!AtLeast, Answers!AtMost, Answers!Or,
                            Answers!Places
<1>5. CASE field.type \notin {"INTEGER", "RANGE", "DECIMAL", "PERCENTAGE"}
  BY <1>1, <1>5 DEF Answers!AnswerFits
<1> QED
  BY <1>3, <1>4, <1>5

LEMMA SaveRecordKeeps ==
  ASSUME AnswerInv, field # None, NEW s \in Answers!Submissions(field.type), Answers!SaveRecord(s)
  PROVE  AnswerInv'
<1>1. UNCHANGED <<field, withdrawn>>
  BY DEF Answers!SaveRecord
<1>2. CASE answer' = None
  BY <1>1, <1>2 DEF AnswerInv
<1>3. CASE answer' # None
  <2>1. \A off \in SUBSET Options :
          Answers!Validate(field, Answers!Sent', off, Answers!Chosen') = answer'
    BY <1>3, SavedTakenAgain
  <2>2. \A off \in SUBSET Options :
          Answers!Validate(field', Answers!Sent', off, Answers!Chosen') = answer'
    BY <1>1, <2>1
  <2>3. Answers!AnswerFits'
    BY <1>3, SavedFits
  <2> QED
    BY <1>1, <1>3, <2>2, <2>3 DEF AnswerInv, Answers!Validate
<1> QED
  BY <1>2, <1>3

LEMMA AnswerStep == AnswerInv /\ [Answers!Next]_(Answers!vars) => AnswerInv'
<1> SUFFICES ASSUME AnswerInv, [Answers!Next]_(Answers!vars) PROVE AnswerInv'
  OBVIOUS
<1>1. CASE UNCHANGED Answers!vars
  BY <1>1 DEF Answers!vars, AnswerInv, Answers!Sent, Answers!Chosen, Answers!AnswerFits
<1>2. ASSUME NEW type \in Answers!FieldTypes, NEW c \in Answers!Configurations(type),
             Answers!Configure(type, c)
      PROVE  AnswerInv'
  BY <1>2, ConfigureKeeps
<1>3. ASSUME NEW o \in Options, Answers!DeleteOption(o) PROVE AnswerInv'
  BY <1>3, DeleteOptionKeeps
<1>4. ASSUME field # None, NEW s \in Answers!Submissions(field.type), Answers!SaveRecord(s)
      PROVE  AnswerInv'
  BY <1>4, SaveRecordKeeps
<1> QED
  BY <1>1, <1>2, <1>3, <1>4 DEF Answers!Next

LEMMA AnswersStand == Spec => []AnswerInv
  BY AnswerInit, AnswerStep, AnswersSpec, PTL DEF Answers!Spec

\* CustomTrackingValueValidationService.validate takes what it stored: for every type of
\* Field, every configuration and every answer, saving the answer again as the editor
\* sends it stores the same, whatever was withdrawn in between.
THEOREM AnswersKept == Spec => []SavedAnswerStands
<1>1. AnswerInv => SavedAnswerStands
  BY DEF AnswerInv, SavedAnswerStands, Answers!SavedAnswerStands
<1> QED
  BY <1>1, AnswersStand, PTL

\* assertOnStep, assertWithinNumericBounds and the precision of a decimal: a figure that
\* was accepted is one the Field offers.
THEOREM FiguresFit == Spec => []AnswerFits
<1>1. AnswerInv => AnswerFits
  BY DEF AnswerInv, AnswerFits, Answers!AnswerFits
<1> QED
  BY <1>1, AnswersStand, PTL
===============================================================================
