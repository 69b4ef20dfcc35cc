----------------------------- MODULE AccessControl -----------------------------
(***************************************************************************)
(* What one member may do: the permissions of the member's role, the       *)
(* overrides that grant or deny single permissions, and the overrides of   *)
(* limits (AccessControlAdminService, AccessControlService, LimitService). *)
(* Rows are never removed: withdrawing one stamps deletedAt.               *)
(***************************************************************************)
EXTENDS Naturals, FiniteSets

CONSTANTS
  None,
  Permissions, Limits,   \* permission codes; limit keys
  Roles, Assignable,     \* roles; ASSIGNABLE_USER_ROLES
  Admin,                 \* UserRole.ADMIN
  OfRole,                \* the permissions the groups of each role carry
  Configured,            \* the configured value of every limit
  Values,                \* values an override may give a limit
  Counts,                \* how many of something a member may have
  Rows,                  \* ids of override rows
  MaxTime                \* bound on the clock

Keys == Permissions \cup Limits
Effects == {"GRANT", "DENY"}
Expiries == (1..MaxTime) \cup {None}

\* user_permission_override rows say an effect, user_limit_override rows a value.
OverrideRow(settings) == [key : Keys, setting : settings, until : Expiries, deleted : BOOLEAN]

VARIABLES
  role, blocked,   \* the member's row: role, isAccountDisabled
  override,        \* user_permission_override and user_limit_override rows
  now,
  decision         \* history: what an administrator last decided about each key

vars == <<role, blocked, override, now, decision>>

NoDecision == [setting |-> None, until |-> None]

\* findOne among the rows that are not withdrawn.
Existing(k) == {w \in Rows : override[w] # None /\ override[w].key = k /\ ~override[w].deleted}

Unused == {w \in Rows : override[w] = None}

\* Mutant of Written: an existing override keeps its expiry.
WrittenKeepingExpiry(w, k, setting, until) ==
  IF override[w] = None THEN [key |-> k, setting |-> setting, until |-> until, deleted |-> FALSE]
  ELSE [override[w] EXCEPT !.setting = setting]

\* A new row, or every column of the existing one.
Written(w, k, setting, until) ==
  [key |-> k, setting |-> setting, until |-> until, deleted |-> FALSE]

SetOverride(k, setting, until) ==
  /\ \E w \in IF Existing(k) = {} THEN Unused ELSE Existing(k) :
       override' = [override EXCEPT ![w] = Written(w, k, setting, until)]
  /\ decision' = [decision EXCEPT ![k] = [setting |-> setting, until |-> until]]
  /\ UNCHANGED <<role, blocked, now>>

SetPermissionOverride(p, effect, until) == SetOverride(p, effect, until)
SetLimitOverride(l, value, until) == SetOverride(l, value, until)

RemoveOverride(k) ==
  /\ \E w \in Existing(k) : override' = [override EXCEPT ![w].deleted = TRUE]
  /\ decision' = [decision EXCEPT ![k] = NoDecision]
  /\ UNCHANGED <<role, blocked, now>>

RemovePermissionOverride(p) == RemoveOverride(p)
RemoveLimitOverride(l) == RemoveOverride(l)

\* The administrator's role is neither given nor taken here.
SetUserRole(to) ==
  /\ to \in Assignable /\ role # Admin
  /\ role' = to
  /\ UNCHANGED <<blocked, override, now, decision>>

\* Administrators are not moderated.
SetDisabled(b) ==
  /\ role # Admin
  /\ blocked' = b
  /\ UNCHANGED <<role, override, now, decision>>

Tick ==
  /\ now < MaxTime /\ now' = now + 1
  /\ UNCHANGED <<role, blocked, override, decision>>

--------------------------------------------------------------------------------
(* What is in force.                                                        *)

\* findOverrides, and the query of resolve.
InForce(w) ==
  /\ override[w] # None /\ ~override[w].deleted
  /\ override[w].until = None \/ override[w].until > now

Overriding(k) == {override[w].setting : w \in {v \in Rows : InForce(v) /\ override[v].key = k}}

\* resolvePermissionCodes.
PermissionCodes ==
  IF blocked THEN {}
  ELSE {p \in Permissions :
          IF Overriding(p) = {} THEN p \in OfRole[role] ELSE "GRANT" \in Overriding(p)}

\* resolve: the limits an override gives, one at most; or the configured value.
Limit(l) == IF Overriding(l) = {} THEN {Configured[l]} ELSE Overriding(l)

\* assertWithinLimit.
WithinLimit(l, count) == \A limit \in Limit(l) : count < limit

--------------------------------------------------------------------------------

Init ==
  /\ role \in Roles /\ blocked = FALSE
  /\ override = [w \in Rows |-> None]
  /\ now = 0
  /\ decision = [k \in Keys |-> NoDecision]

Next ==
  \/ \E p \in Permissions, e \in Effects, t \in Expiries : SetPermissionOverride(p, e, t)
  \/ \E l \in Limits, v \in Values, t \in Expiries : SetLimitOverride(l, v, t)
  \/ \E p \in Permissions : RemovePermissionOverride(p)
  \/ \E l \in Limits : RemoveLimitOverride(l)
  \/ \E r \in Roles : SetUserRole(r)
  \/ \E b \in BOOLEAN : SetDisabled(b)
  \/ Tick

Spec == Init /\ [][Next]_vars

--------------------------------------------------------------------------------
(* Properties.                                                              *)

Decided(k) == decision[k].setting # None /\ (decision[k].until = None \/ decision[k].until > now)

\* What a member may do follows the last decision about it until it expires or is
\* withdrawn, whatever rows earlier decisions left, and else the member's role and
\* the site's limits; a disabled member may do nothing and gets back exactly what
\* was decided meanwhile.
LastDecisionHolds ==
  /\ PermissionCodes =
       IF blocked THEN {}
       ELSE {p \in Permissions :
               IF Decided(p) THEN decision[p].setting = "GRANT" ELSE p \in OfRole[role]}
  /\ \A l \in Limits, count \in Counts :
       WithinLimit(l, count) <=> count < IF Decided(l) THEN decision[l].setting ELSE Configured[l]
================================================================================
