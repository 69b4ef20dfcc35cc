------------------------------ MODULE AuthSession ------------------------------
(***************************************************************************)
(* One member account: its user row, its refresh-token rows, and the HTTP  *)
(* handlers that read and write them (AuthService, UserRefreshTokenService,*)
(* UserService.closeAccount, UserModerationService).                       *)
(*                                                                         *)
(* Every awaited statement is one step, so handlers interleave the way     *)
(* Node runs them: a request loads the row, does slow work (bcrypt), and   *)
(* writes the row back later.  TypeORM's save(entity) writes every loaded  *)
(* column whose value differs from the row now stored, soft-deleted rows   *)
(* included, and inserts the entity when its row has gone: a save writes   *)
(* back the snapshot the request read.                                     *)
(***************************************************************************)
EXTENDS FiniteSets

CONSTANTS
  Requests,         \* request slots: how many handlers can run at once
  Tokens,           \* refresh tokens (their JWT ids)
  Mails,            \* mailed secrets: verification and password-reset tokens
  Passwords,
  InitialPassword,
  InitialSessions,  \* refresh tokens live at the start
  None,             \* SQL NULL
  Handlers          \* the handlers clients call in this instance

AllHandlers == {"login", "refresh", "logout", "requestReset", "reset",
                "verify", "resend", "disable", "enable", "close", "purge"}

ASSUME AuthAssumption ==
  /\ InitialPassword \in Passwords
  /\ InitialSessions \subseteq Tokens
  /\ None \notin Tokens \cup Mails
  /\ Tokens \cap Requests = {}
  /\ Handlers \subseteq AllHandlers

VARIABLES
  user,      \* the user row
  rt,        \* refresh-token rows: "unissued", "live", "revoked" or "gone"
  expired,   \* tokens and mailed secrets whose expiry has passed
  issued,    \* mailed secrets generated so far
  held,      \* refresh tokens handed to the client
  req,       \* the running handlers
  hist       \* history, read by no handler: see InitHist

vars == <<user, rt, expired, issued, held, req, hist>>

UserRow == [registered: BOOLEAN, password: Passwords, verified: BOOLEAN,
            disabled: BOOLEAN, deleted: BOOLEAN,
            reset: Mails \cup {None}, verify: Mails \cup {None}]

\* Where a handler stands: the statement it will execute next.
Pcs == {"idle", "loginIssue", "loginSave", "refreshIssue", "refreshFind",
        "refreshRevoke", "save", "saveThenRevoke", "revokeAll", "deleteAll", "close"}

TokenStates == {"unissued", "live", "revoked", "gone"}

Slot == [pc: Pcs, snap: UserRow, old: Tokens \cup {None}, new: Tokens \cup {None}]

\* The refresh handler has its old token, and an issued token is known until it is answered.
Filled(slot) ==
  /\ slot.pc \in {"loginSave", "refreshFind", "refreshRevoke"} => slot.new \in Tokens
  /\ slot.pc \in {"refreshIssue", "refreshFind", "refreshRevoke"} => slot.old \in Tokens

Request == {slot \in Slot : Filled(slot)}

History == [stale: SUBSET (Tokens \cup Requests), rotated: SUBSET Tokens,
            revived: SUBSET Tokens, proven: BOOLEAN, chosen: SUBSET Passwords]

TypeOK ==
  /\ user \in UserRow
  /\ rt \in [Tokens -> TokenStates]
  /\ expired \subseteq Tokens \cup Mails
  /\ issued \subseteq Mails
  /\ held \subseteq Tokens
  /\ req \in [Requests -> Request]
  /\ hist \in History

InitialUser == [registered |-> TRUE, password |-> InitialPassword,
                verified |-> TRUE, disabled |-> FALSE, deleted |-> FALSE,
                reset |-> None, verify |-> None]

Idle == [pc |-> "idle", snap |-> InitialUser, old |-> None, new |-> None]

\* stale: tokens and running requests whose authentication precedes the last
\* completed global logout; rotated: tokens issued by the refresh handler;
\* revived: tokens whose deleted row a save inserted again; proven: a
\* verification link was followed; chosen: passwords set by registration or reset.
InitHist == [stale |-> {}, rotated |-> {}, revived |-> {},
             proven |-> TRUE, chosen |-> {InitialPassword}]

\* A registered, verified member with the sessions of earlier logins.
Init ==
  /\ user = InitialUser
  /\ rt = [t \in Tokens |-> IF t \in InitialSessions THEN "live" ELSE "unissued"]
  /\ expired = {}
  /\ issued = {}
  /\ held = InitialSessions
  /\ req = [r \in Requests |-> Idle]
  /\ hist = InitHist

--------------------------------------------------------------------------------
(* Helpers.                                                                *)

\* findOne/findByEmail: soft-deleted and purged rows are not found.
Found == user.registered /\ ~user.deleted

\* validateUserFromPayload: what an access token is checked against.
MayAct == Found /\ ~user.disabled

At(r, pc) == req[r].pc = pc

Goto(r, pc) == req' = [req EXCEPT ![r].pc = pc]

\* The handler ends: by its response or by an exception.
Finish(r) == req' = [req EXCEPT ![r] = Idle]
Settled(r) == [hist EXCEPT !.stale = @ \ {r}]

\* A handler loads the user row and prepares the entity it will save.
Prepare(r, pc, entity) == req' = [req EXCEPT ![r] = [Idle EXCEPT !.pc = pc, !.snap = entity]]

LivePart(f) == [t \in Tokens |-> IF f[t] = "live" THEN "revoked" ELSE f[t]]
WithoutRows(f) == [t \in Tokens |-> IF f[t] = "unissued" THEN "unissued" ELSE "gone"]

\* Requests that have authenticated and not yet answered.
Authenticating == {r \in Requests : req[r].pc \in
                     {"loginIssue", "loginSave", "refreshIssue", "refreshFind", "refreshRevoke"}}

--------------------------------------------------------------------------------
(* AuthService.login                                                       *)

\* validateUser compares the password with the row it loaded; the account
\* flags are read from the same snapshot.  A failed attempt changes nothing here.
LoginValidate(r) ==
  /\ "login" \in Handlers /\ At(r, "idle")
  /\ MayAct /\ user.verified
  /\ Prepare(r, "loginIssue", user)
  /\ UNCHANGED <<user, rt, expired, issued, held, hist>>

\* issueRefreshToken inserts a fresh row for request r.
IssueToken(r, t, next) ==
  /\ rt[t] = "unissued"
  /\ rt' = [rt EXCEPT ![t] = "live"]
  /\ req' = [req EXCEPT ![r].pc = next, ![r].new = t]

\* A token issued by a stale request is stale itself.
Inherit(h, r, t) == [h EXCEPT !.stale = IF r \in @ THEN @ \cup {t} ELSE @]

LoginIssue(r) ==
  /\ At(r, "loginIssue")
  /\ \E t \in Tokens : IssueToken(r, t, "loginSave") /\ hist' = Inherit(hist, r, t)
  /\ UNCHANGED <<user, expired, issued, held>>

\* The saved object is instanceToPlain(user): columns marked @Exclude() (the
\* password and the mailed secrets) are absent and stay as stored; the others
\* are written from the snapshot.
PlainSave(snap) == [user EXCEPT !.verified = snap.verified, !.disabled = snap.disabled,
                                !.deleted = snap.deleted]

LoginSave(r) ==
  /\ At(r, "loginSave")
  /\ user' = PlainSave(req[r].snap)
  /\ held' = held \cup {req[r].new}
  /\ Finish(r) /\ hist' = Settled(r)
  /\ UNCHANGED <<rt, expired, issued>>

--------------------------------------------------------------------------------
(* AuthService.refreshToken                                                *)

RefreshCheck(r) ==
  /\ "refresh" \in Handlers /\ At(r, "idle") /\ MayAct
  /\ \E t \in held \ expired :
       /\ rt[t] = "live"
       /\ req' = [req EXCEPT ![r] = [Idle EXCEPT !.pc = "refreshIssue", !.old = t]]
  /\ UNCHANGED <<user, rt, expired, issued, held, hist>>

RefreshIssue(r) ==
  /\ At(r, "refreshIssue")
  /\ \E t \in Tokens :
       /\ IssueToken(r, t, "refreshFind")
       /\ hist' = [Inherit(hist, r, t) EXCEPT !.rotated = @ \cup {t}]
  /\ UNCHANGED <<user, expired, issued, held>>

\* Mutant of RefreshFind: a missing row counts as revoked, and the client is answered.
RefreshFindLenient(r) ==
  /\ At(r, "refreshFind")
  /\ \/ rt[req[r].old] # "gone" /\ Goto(r, "refreshRevoke") /\ UNCHANGED <<held, hist>>
     \/ /\ rt[req[r].old] = "gone"
        /\ held' = held \cup {req[r].new}
        /\ Finish(r) /\ hist' = Settled(r)
  /\ UNCHANGED <<user, rt, expired, issued>>

\* revokeToken loads the old row, revoked or not; a missing row is an error and
\* the client never receives the new token.
RefreshFind(r) ==
  /\ At(r, "refreshFind")
  /\ \/ rt[req[r].old] # "gone" /\ Goto(r, "refreshRevoke") /\ UNCHANGED hist
     \/ rt[req[r].old] = "gone" /\ Finish(r) /\ hist' = Settled(r)
  /\ UNCHANGED <<user, rt, expired, issued, held>>

\* Mutant of RefreshRevoke: the loaded record is saved without setting isRevoked.
RefreshRevokeUnmarked(r) ==
  /\ At(r, "refreshRevoke")
  /\ rt' = [rt EXCEPT ![req[r].old] = "live"]
  /\ held' = held \cup {req[r].new}
  /\ Finish(r) /\ hist' = Settled(r)
  /\ UNCHANGED <<user, expired, issued>>

\* save(tokenRecord) with isRevoked = true, then the response.
RefreshRevoke(r) ==
  /\ At(r, "refreshRevoke")
  /\ rt' = [rt EXCEPT ![req[r].old] = "revoked"]
  /\ held' = held \cup {req[r].new}
  /\ hist' = [Settled(r) EXCEPT
                !.revived = IF rt[req[r].old] = "gone" THEN @ \cup {req[r].old} ELSE @]
  /\ Finish(r)
  /\ UNCHANGED <<user, expired, issued>>

--------------------------------------------------------------------------------
(* UserRefreshTokenService.revokeUserRefreshToken (POST /auth/logout): one  *)
(* UPDATE, which an expired or unknown token skips.                        *)
Logout ==
  /\ "logout" \in Handlers
  /\ \E t \in held \ expired : rt[t] = "live" /\ rt' = [rt EXCEPT ![t] = "revoked"]
  /\ UNCHANGED <<user, expired, issued, held, req, hist>>

--------------------------------------------------------------------------------
(* Handlers that load the user row, change it and save the whole entity.   *)

RequestReset(r) ==
  /\ "requestReset" \in Handlers /\ At(r, "idle") /\ Found
  /\ user.reset = None \/ user.reset \in expired
  /\ \E m \in Mails \ issued :
       /\ issued' = issued \cup {m}
       /\ Prepare(r, "save", [user EXCEPT !.reset = m])
  /\ UNCHANGED <<user, rt, expired, held, hist>>

ResetPassword(r) ==
  /\ "reset" \in Handlers /\ At(r, "idle") /\ Found
  /\ user.reset \in issued \ expired
  /\ \E p \in Passwords :
       /\ Prepare(r, "saveThenRevoke", [user EXCEPT !.password = p, !.reset = None])
       /\ hist' = [hist EXCEPT !.chosen = @ \cup {p}]
  /\ UNCHANGED <<user, rt, expired, issued, held>>

VerifyEmail(r) ==
  /\ "verify" \in Handlers /\ At(r, "idle") /\ Found
  /\ user.verify \in issued \ expired
  /\ Prepare(r, "save", [user EXCEPT !.verified = TRUE, !.verify = None])
  /\ hist' = [hist EXCEPT !.proven = TRUE]
  /\ UNCHANGED <<user, rt, expired, issued, held>>

\* Mutant of ResendVerification: asking for a new link already counts as proof.
ResendTrusting(r) ==
  /\ "resend" \in Handlers /\ At(r, "idle") /\ Found
  /\ user.verify # None /\ ~user.verified
  /\ Prepare(r, "save", [user EXCEPT !.verified = TRUE])
  /\ UNCHANGED <<user, rt, expired, issued, held, hist>>

ResendVerification(r) ==
  /\ "resend" \in Handlers /\ At(r, "idle") /\ Found
  /\ user.verify # None /\ ~user.verified
  /\ \E m \in Mails \ issued :
       /\ issued' = issued \cup {m}
       /\ Prepare(r, "save", [user EXCEPT !.verify = m])
  /\ UNCHANGED <<user, rt, expired, held, hist>>

\* Mutant of DisableUser: the account is locked but its sessions are left open.
DisableKeepingSessions(r) ==
  /\ "disable" \in Handlers /\ At(r, "idle") /\ Found
  /\ Prepare(r, "save", [user EXCEPT !.disabled = TRUE])
  /\ UNCHANGED <<user, rt, expired, issued, held, hist>>

\* The acting administrator is never this member, and this member is no administrator.
DisableUser(r) ==
  /\ "disable" \in Handlers /\ At(r, "idle") /\ Found
  /\ Prepare(r, "saveThenRevoke", [user EXCEPT !.disabled = TRUE])
  /\ UNCHANGED <<user, rt, expired, issued, held, hist>>

EnableUser(r) ==
  /\ "enable" \in Handlers /\ At(r, "idle") /\ Found
  /\ Prepare(r, "save", [user EXCEPT !.disabled = FALSE])
  /\ UNCHANGED <<user, rt, expired, issued, held, hist>>

SaveUser(r) ==
  /\ \/ At(r, "save") /\ Finish(r) /\ hist' = Settled(r)
     \/ At(r, "saveThenRevoke") /\ Goto(r, "revokeAll") /\ UNCHANGED hist
  /\ user' = req[r].snap
  /\ UNCHANGED <<rt, expired, issued, held>>

--------------------------------------------------------------------------------
(* revokeAllTokensForUser: an UPDATE, then a DELETE.                       *)

\* Mutant of RevokeAll: the first statement removes the rows it should mark.
RevokeAllDropping(r) ==
  /\ At(r, "revokeAll")
  /\ rt' = [t \in {u \in Tokens : rt[u] # "live"} |-> rt[t]]
  /\ Goto(r, "deleteAll")
  /\ UNCHANGED <<user, expired, issued, held, hist>>

RevokeAll(r) ==
  /\ At(r, "revokeAll")
  /\ rt' = LivePart(rt)
  /\ Goto(r, "deleteAll")
  /\ UNCHANGED <<user, expired, issued, held, hist>>

DeleteAll(r) ==
  /\ At(r, "deleteAll")
  /\ rt' = WithoutRows(rt)
  /\ hist' = [hist EXCEPT !.stale = (@ \cup Authenticating
                                       \cup {t \in Tokens : rt[t] # "unissued"}) \ {r}]
  /\ Finish(r)
  /\ UNCHANGED <<user, expired, issued, held>>

--------------------------------------------------------------------------------
(* Account closure, the retention purge, registration, and time.           *)

\* closeAccount reads the user, then runs one transaction by primary key.
CloseAccount(r) ==
  /\ "close" \in Handlers /\ At(r, "idle") /\ MayAct
  /\ Goto(r, "close")
  /\ UNCHANGED <<user, rt, expired, issued, held, hist>>

\* Mutant of CloseCommit: the transaction forgets the refresh tokens.
CloseKeepingTokens(r) ==
  /\ At(r, "close")
  /\ user' = [user EXCEPT !.deleted = TRUE]
  /\ Finish(r) /\ hist' = Settled(r)
  /\ UNCHANGED <<rt, expired, issued, held>>

CloseCommit(r) ==
  /\ At(r, "close")
  /\ rt' = LivePart(rt)
  /\ user' = [user EXCEPT !.deleted = TRUE]
  /\ Finish(r) /\ hist' = Settled(r)
  /\ UNCHANGED <<expired, issued, held>>

\* UserAccountCleanupService.cleanup removes accounts closed more than
\* CLOSED_ACCOUNT_RETENTION_DAYS ago, long after any request that saw them open.
PurgeAccount ==
  /\ "purge" \in Handlers /\ user.registered /\ user.deleted
  /\ \A r \in Requests : At(r, "idle")
  /\ rt' = WithoutRows(rt)
  /\ user' = [InitialUser EXCEPT !.registered = FALSE, !.verified = FALSE]
  /\ hist' = [hist EXCEPT !.proven = FALSE]
  /\ UNCHANGED <<expired, issued, held, req>>

\* register: the unique e-mail index admits one row; the account starts unverified.
Register ==
  /\ ~user.registered
  /\ \E m \in Mails \ issued, p \in Passwords :
       /\ issued' = issued \cup {m}
       /\ user' = [InitialUser EXCEPT !.password = p, !.verified = FALSE, !.verify = m]
       /\ hist' = [hist EXCEPT !.chosen = {p}]
  /\ UNCHANGED <<rt, expired, held, req>>

\* cleanupExpiredAndRevokedTokens, daily.
\* Mutant of Sweepable: only expired rows are removed.
SweepableExpired(t) == rt[t] \in {"live", "revoked"} /\ t \in expired

Sweepable(t) == rt[t] = "revoked" \/ (rt[t] = "live" /\ t \in expired)

CleanupTokens ==
  /\ \E t \in Tokens : Sweepable(t)
  /\ rt' = [t \in Tokens |-> IF Sweepable(t) THEN "gone" ELSE rt[t]]
  /\ UNCHANGED <<user, expired, issued, held, req, hist>>

\* The clock passes an expiry.
Expire ==
  /\ \E x \in {t \in Tokens : rt[t] # "unissued"} \cup issued :
       x \notin expired /\ expired' = expired \cup {x}
  /\ UNCHANGED <<user, rt, issued, held, req, hist>>

--------------------------------------------------------------------------------
Step(r) ==
  \/ LoginValidate(r) \/ LoginIssue(r) \/ LoginSave(r)
  \/ RefreshCheck(r) \/ RefreshIssue(r) \/ RefreshFind(r) \/ RefreshRevoke(r)
  \/ RequestReset(r) \/ ResetPassword(r) \/ VerifyEmail(r) \/ ResendVerification(r)
  \/ DisableUser(r) \/ EnableUser(r) \/ SaveUser(r)
  \/ RevokeAll(r) \/ DeleteAll(r) \/ CloseAccount(r) \/ CloseCommit(r)

Next ==
  \/ \E r \in Requests : Step(r)
  \/ Logout \/ PurgeAccount \/ Register \/ CleanupTokens \/ Expire

Spec == Init /\ [][Next]_vars

\* The daily token cleanup keeps running.
FairSpec == Spec /\ WF_vars(CleanupTokens)

--------------------------------------------------------------------------------
(* Properties.                                                             *)

\* A refresh token that was revoked, or whose row was deleted, never becomes
\* usable again: not even when refreshToken's save inserts a deleted row again.
DeadTokensStayDead ==
  [][\A t \in Tokens : rt[t] \in {"revoked", "gone"} => rt'[t] # "live"]_vars

\* A session rotated by a refresh that was running when a global logout
\* completed is not usable afterwards, because refreshToken fails when its old
\* row has gone; the one exception is that a save has inserted a deleted row again.
RotationDiesWithLogout ==
  hist.revived = {} =>
    \A t \in held \cap hist.stale \cap hist.rotated : rt[t] # "live"

\* Whatever stale rows are written back, the account never becomes verified
\* unless its verification link was followed, and its password is never one
\* that no registration or reset of this account chose.
EarnedState ==
  user.registered => /\ user.verified => hist.proven
                     /\ user.password \in hist.chosen

\* The table is rid of dead rows again and again, so that every expired and
\* every revoked one is deleted (cleanupExpiredAndRevokedTokens).
DeadRowsSwept ==
  []<>(\A t \in Tokens : rt[t] # "revoked" /\ ~(rt[t] = "live" /\ t \in expired))

\* Where no administrator restores the account, a disabled account stays disabled
\* (UserModerationService: "one definition of a locked account").
DisableSticks ==
  [][("enable" \notin Handlers /\ user.disabled) => (user'.disabled \/ ~user'.registered)]_vars
================================================================================
