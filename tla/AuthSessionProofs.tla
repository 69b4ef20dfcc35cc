--------------------------- MODULE AuthSessionProofs ---------------------------
(***************************************************************************)
(* TLAPS proofs about AuthSession, for every number of requests, tokens    *)
(* and passwords and every choice of handlers.                             *)
(***************************************************************************)
EXTENDS AuthSession, TLAPS

USE AuthAssumption

--------------------------------------------------------------------------------
(* Typing of the pieces the actions are built from.                        *)

\* The idle slot is well formed.
LEMMA IdleTyped == InitialUser \in UserRow /\ Idle \in Request
<1>1. InitialUser \in UserRow
  BY DEF InitialUser, UserRow
<1>2. [pc |-> "idle", snap |-> InitialUser, old |-> None, new |-> None] \in Request
  BY <1>1 DEF Request, Slot, Filled, Pcs
<1> QED
  BY <1>1, <1>2 DEF Idle

\* Ending a handler leaves well-formed slots and history.
LEMMA FinishTyped ==
  ASSUME TypeOK, NEW r \in Requests
  PROVE  /\ Finish(r) => req' \in [Requests -> Request]
         /\ Settled(r) \in History
<1>1. Finish(r) => req' \in [Requests -> Request]
  BY IdleTyped DEF Finish, TypeOK
<1>2. Settled(r) \in History
  BY DEF Settled, TypeOK, History
<1> QED
  BY <1>1, <1>2

\* Moving to another statement of the same handler.
LEMMA GotoTyped ==
  ASSUME TypeOK, NEW r \in Requests, NEW pc \in Pcs, Goto(r, pc),
         pc \in {"refreshRevoke"} => req[r].pc = "refreshFind",
         pc \notin {"loginSave", "refreshIssue", "refreshFind"}
  PROVE  req' \in [Requests -> Request]
<1>1. [req[r] EXCEPT !.pc = pc] \in Request
  BY DEF TypeOK, Request, Slot, Filled
<1> QED
  BY <1>1 DEF Goto, TypeOK

\* Loading a row and preparing the entity to save.
LEMMA PrepareTyped ==
  ASSUME TypeOK, NEW r \in Requests, NEW pc \in Pcs, NEW entity \in UserRow,
         Prepare(r, pc, entity), pc \in {"loginIssue", "save", "saveThenRevoke"}
  PROVE  req' \in [Requests -> Request]
<1>1. [Idle EXCEPT !.pc = pc, !.snap = entity] \in Request
  BY IdleTyped DEF Request, Slot, Filled
<1> QED
  BY <1>1 DEF Prepare, TypeOK

\* Inserting a refresh-token row.
LEMMA IssueTyped ==
  ASSUME TypeOK, NEW r \in Requests, NEW t \in Tokens, NEW next \in Pcs,
         IssueToken(r, t, next),
         next = "loginSave" \/ (next = "refreshFind" /\ req[r].pc = "refreshIssue")
  PROVE  /\ req' \in [Requests -> Request]
         /\ rt' \in [Tokens -> TokenStates]
         /\ Inherit(hist, r, t) \in History
         /\ [Inherit(hist, r, t) EXCEPT !.rotated = @ \cup {t}] \in History
<1>1. [req[r] EXCEPT !.pc = next, !.new = t] \in Request
  BY DEF TypeOK, Request, Slot, Filled
<1>2. req' \in [Requests -> Request]
  BY <1>1 DEF IssueToken, TypeOK
<1>3. rt' \in [Tokens -> TokenStates]
  BY DEF IssueToken, TypeOK, TokenStates
<1>4. Inherit(hist, r, t) \in History
  BY DEF Inherit, TypeOK, History
<1>5. [Inherit(hist, r, t) EXCEPT !.rotated = @ \cup {t}] \in History
  BY <1>4 DEF History
<1> QED
  BY <1>2, <1>3, <1>4, <1>5

\* Marking or deleting every row of the user.
LEMMA BulkTyped ==
  ASSUME TypeOK
  PROVE  /\ LivePart(rt) \in [Tokens -> TokenStates]
         /\ WithoutRows(rt) \in [Tokens -> TokenStates]
  BY DEF TypeOK, LivePart, WithoutRows, TokenStates

--------------------------------------------------------------------------------
(* Typing of the specification.                                            *)

LEMMA InitTyped == Init => TypeOK
<1> SUFFICES ASSUME Init PROVE TypeOK
  OBVIOUS
<1>1. req \in [Requests -> Request] /\ user \in UserRow
  BY IdleTyped DEF Init
<1>2. hist \in History
  BY DEF Init, InitHist, History
<1>3. rt \in [Tokens -> TokenStates]
  BY DEF Init, TokenStates
<1> QED
  BY <1>1, <1>2, <1>3 DEF Init, TypeOK

\* A step of one handler keeps the types.
LEMMA HandlerTyped ==
  ASSUME TypeOK, NEW r \in Requests, Step(r)
  PROVE  TypeOK'
<1>1. CASE LoginValidate(r)
  BY <1>1, PrepareTyped DEF LoginValidate, TypeOK, Pcs
<1>2. CASE LoginIssue(r)
  <2>1. PICK t \in Tokens : IssueToken(r, t, "loginSave") /\ hist' = Inherit(hist, r, t)
    BY <1>2 DEF LoginIssue
  <2>2. "loginSave" \in Pcs
    BY DEF Pcs
  <2>3. /\ req' \in [Requests -> Request] /\ rt' \in [Tokens -> TokenStates]
        /\ hist' \in History
    BY <2>1, <2>2, IssueTyped
  <2> QED
    BY <1>2, <2>3 DEF LoginIssue, TypeOK
<1>3. CASE LoginSave(r)
  <2>1. PlainSave(req[r].snap) \in UserRow
    BY DEF TypeOK, Request, Slot, UserRow, PlainSave
  <2>2. req[r].new \in Tokens
    BY <1>3 DEF LoginSave, At, TypeOK, Request, Slot, Filled
  <2> QED
    BY <1>3, <2>1, <2>2, FinishTyped DEF LoginSave, TypeOK
<1>4. CASE RefreshCheck(r)
  <2>1. \A t \in Tokens : [Idle EXCEPT !.pc = "refreshIssue", !.old = t] \in Request
    BY IdleTyped DEF Request, Slot, Filled, Pcs
  <2>2. PICK t \in held \ expired :
          req' = [req EXCEPT ![r] = [Idle EXCEPT !.pc = "refreshIssue", !.old = t]]
    BY <1>4 DEF RefreshCheck
  <2>3. req' \in [Requests -> Request]
    BY <2>1, <2>2 DEF TypeOK
  <2> QED
    BY <1>4, <2>3 DEF RefreshCheck, TypeOK
<1>5. CASE RefreshIssue(r)
  BY <1>5, IssueTyped DEF RefreshIssue, At, TypeOK, Pcs
<1>6. CASE RefreshFind(r)
  BY <1>6, FinishTyped, GotoTyped DEF RefreshFind, At, TypeOK, Pcs
<1>7. CASE RefreshRevoke(r)
  <2>1. req[r].old \in Tokens /\ req[r].new \in Tokens
    BY <1>7 DEF RefreshRevoke, At, TypeOK, Request, Slot, Filled
  <2>2. hist' \in History
    BY <1>7, <2>1, FinishTyped DEF RefreshRevoke, History
  <2>3. rt' \in [Tokens -> TokenStates]
    BY <1>7, <2>1 DEF RefreshRevoke, TypeOK, TokenStates
  <2> QED
    BY <1>7, <2>1, <2>2, <2>3, FinishTyped DEF RefreshRevoke, TypeOK
<1>8. CASE RequestReset(r)
  <2>1. \A m \in Mails : [user EXCEPT !.reset = m] \in UserRow
    BY DEF TypeOK, UserRow
  <2> QED
    BY <1>8, <2>1, PrepareTyped DEF RequestReset, TypeOK, Pcs
<1>9. CASE ResetPassword(r)
  <2>1. \A p \in Passwords : [user EXCEPT !.password = p, !.reset = None] \in UserRow
    BY DEF TypeOK, UserRow
  <2>2. hist' \in History
    BY <1>9 DEF ResetPassword, TypeOK, History
  <2> QED
    BY <1>9, <2>1, <2>2, PrepareTyped DEF ResetPassword, TypeOK, Pcs
<1>10. CASE VerifyEmail(r)
  <2>1. [user EXCEPT !.verified = TRUE, !.verify = None] \in UserRow
    BY DEF TypeOK, UserRow
  <2>2. hist' \in History
    BY <1>10 DEF VerifyEmail, TypeOK, History
  <2> QED
    BY <1>10, <2>1, <2>2, PrepareTyped DEF VerifyEmail, TypeOK, Pcs
<1>11. CASE ResendVerification(r)
  <2>1. \A m \in Mails : [user EXCEPT !.verify = m] \in UserRow
    BY DEF TypeOK, UserRow
  <2> QED
    BY <1>11, <2>1, PrepareTyped DEF ResendVerification, TypeOK, Pcs
<1>12. CASE DisableUser(r)
  <2>1. [user EXCEPT !.disabled = TRUE] \in UserRow
    BY DEF TypeOK, UserRow
  <2> QED
    BY <1>12, <2>1, PrepareTyped DEF DisableUser, TypeOK, Pcs
<1>13. CASE EnableUser(r)
  <2>1. [user EXCEPT !.disabled = FALSE] \in UserRow
    BY DEF TypeOK, UserRow
  <2> QED
    BY <1>13, <2>1, PrepareTyped DEF EnableUser, TypeOK, Pcs
<1>14. CASE SaveUser(r)
  <2>1. req[r].snap \in UserRow
    BY DEF TypeOK, Request, Slot
  <2> QED
    BY <1>14, <2>1, FinishTyped, GotoTyped DEF SaveUser, TypeOK, Pcs
<1>15. CASE RevokeAll(r)
  BY <1>15, BulkTyped, GotoTyped DEF RevokeAll, TypeOK, Pcs
<1>16. CASE DeleteAll(r)
  <2>1. hist' \in History
    BY <1>16 DEF DeleteAll, Authenticating, TypeOK, History
  <2> QED
    BY <1>16, <2>1, BulkTyped, FinishTyped DEF DeleteAll, TypeOK
<1>17. CASE CloseAccount(r)
  BY <1>17, GotoTyped DEF CloseAccount, TypeOK, Pcs
<1>18. CASE CloseCommit(r)
  <2>1. [user EXCEPT !.deleted = TRUE] \in UserRow
    BY DEF TypeOK, UserRow
  <2> QED
    BY <1>18, <2>1, BulkTyped, FinishTyped DEF CloseCommit, TypeOK
<1> QED
  BY <1>1, <1>2, <1>3, <1>4, <1>5, <1>6, <1>7, <1>8, <1>9, <1>10, <1>11, <1>12, <1>13, <1>14, <1>15, <1>16, <1>17, <1>18 DEF Step

\* The account-wide and background steps keep the types.
LEMMA SystemTyped ==
  ASSUME TypeOK, Logout \/ PurgeAccount \/ Register \/ CleanupTokens \/ Expire
  PROVE  TypeOK'
<1>1. CASE Logout
  BY <1>1 DEF Logout, TypeOK, TokenStates
<1>2. CASE PurgeAccount
  <2>1. [InitialUser EXCEPT !.registered = FALSE, !.verified = FALSE] \in UserRow
    BY IdleTyped DEF UserRow
  <2>2. hist' \in History
    BY <1>2 DEF PurgeAccount, TypeOK, History
  <2> QED
    BY <1>2, <2>1, <2>2, BulkTyped DEF PurgeAccount, TypeOK
<1>3. CASE Register
  <2>1. \A m \in Mails, p \in Passwords :
          [InitialUser EXCEPT !.password = p, !.verified = FALSE, !.verify = m] \in UserRow
    BY IdleTyped DEF UserRow
  <2>2. PICK m \in Mails, p \in Passwords :
          /\ issued' = issued \cup {m}
          /\ user' = [InitialUser EXCEPT !.password = p, !.verified = FALSE, !.verify = m]
          /\ hist' = [hist EXCEPT !.chosen = {p}]
    BY <1>3 DEF Register
  <2>3. hist' \in History
    BY <2>2 DEF TypeOK, History
  <2>4. user' \in UserRow /\ issued' \subseteq Mails
    BY <2>1, <2>2 DEF TypeOK
  <2> QED
    BY <1>3, <2>3, <2>4 DEF Register, TypeOK
<1>4. CASE CleanupTokens
  BY <1>4 DEF CleanupTokens, TypeOK, TokenStates
<1>5. CASE Expire
  BY <1>5 DEF Expire, TypeOK
<1> QED
  BY <1>1, <1>2, <1>3, <1>4, <1>5

\* AuthSession's rows, slots and history keep their shape, and a handler that
\* answers with a token knows it: the type invariant of AuthSession.
THEOREM Typing == Spec => []TypeOK
<1>1. TypeOK /\ UNCHANGED vars => TypeOK'
  BY DEF vars, TypeOK
<1>2. TypeOK /\ [Next]_vars => TypeOK'
  BY <1>1, HandlerTyped, SystemTyped DEF Next
<1> QED
  BY InitTyped, <1>2, PTL DEF Spec

--------------------------------------------------------------------------------
(* Dead tokens stay dead.                                                  *)

\* No step turns a revoked or deleted token into a live one.
LEMMA DeadStep ==
  ASSUME TypeOK, [Next]_vars
  PROVE  \A t \in Tokens : rt[t] \in {"revoked", "gone"} => rt'[t] # "live"
<1> SUFFICES ASSUME NEW u \in Tokens, rt[u] \in {"revoked", "gone"}
             PROVE  rt'[u] # "live"
  OBVIOUS
<1>1. CASE UNCHANGED rt
  BY <1>1
<1>2. ASSUME NEW r \in Requests, Step(r) PROVE rt'[u] # "live"
  <2>1. CASE LoginIssue(r) \/ RefreshIssue(r)
    BY <1>2, <2>1 DEF LoginIssue, RefreshIssue, IssueToken, TypeOK
  <2>2. CASE RefreshRevoke(r)
    BY <1>2, <2>2 DEF RefreshRevoke, TypeOK
  <2>3. CASE RevokeAll(r) \/ DeleteAll(r) \/ CloseCommit(r)
    BY <2>3 DEF RevokeAll, DeleteAll, CloseCommit, LivePart, WithoutRows
  <2>4. ASSUME ~(LoginIssue(r) \/ RefreshIssue(r)), ~RefreshRevoke(r),
               ~(RevokeAll(r) \/ DeleteAll(r) \/ CloseCommit(r))
        PROVE  rt'[u] # "live"
    BY <1>2, <2>4 DEF Step, LoginValidate, LoginSave, RefreshCheck, RefreshFind,
       RequestReset, ResetPassword, VerifyEmail, ResendVerification, DisableUser,
       EnableUser, SaveUser, CloseAccount
  <2> QED
    BY <2>1, <2>2, <2>3, <2>4
<1>3. CASE Logout \/ PurgeAccount \/ Register \/ CleanupTokens \/ Expire
  BY <1>3 DEF Logout, PurgeAccount, Register, CleanupTokens, Expire, WithoutRows, TypeOK
<1> QED
  BY <1>1, <1>2, <1>3 DEF Next, vars

\* A revoked or deleted refresh token never becomes usable again, whatever
\* handlers run concurrently.
THEOREM DeadTokens == Spec => DeadTokensStayDead
  BY Typing, DeadStep, PTL DEF Spec, DeadTokensStayDead

--------------------------------------------------------------------------------
(* A rotation that was running across a global logout.                     *)

\* Ownership: a slot's new token has been issued, and it is stale only with its
\* request; histories name issued tokens only.
Owned ==
  /\ \A r \in Requests :
       /\ req[r].pc \in {"loginSave", "refreshFind", "refreshRevoke"} =>
            /\ rt[req[r].new] # "unissued"
            /\ req[r].new \in hist.stale => r \in hist.stale
       /\ req[r].pc \notin {"loginIssue", "loginSave", "refreshIssue", "refreshFind",
                           "refreshRevoke"} => r \notin hist.stale
       /\ req[r].pc = "loginSave" => req[r].new \notin hist.rotated
       /\ req[r].pc \in {"refreshIssue", "refreshFind"} => rt[req[r].old] # "unissued"
  /\ \A t \in Tokens : t \in hist.stale \cup hist.rotated \cup held => rt[t] # "unissued"

\* While no deleted row has been inserted again, a stale rotation either still
\* misses its old row or already holds a new token whose row has gone.
Outlived ==
  hist.revived = {} =>
    /\ \A t \in held \cap hist.stale \cap hist.rotated : rt[t] = "gone"
    /\ \A r \in Requests : r \in hist.stale =>
         /\ req[r].pc \in {"refreshIssue", "refreshFind"} => rt[req[r].old] = "gone"
         /\ req[r].pc = "refreshRevoke" => rt[req[r].new] = "gone"

RotationInv == TypeOK /\ Owned /\ Outlived

LEMMA RotationInit == Init => RotationInv
<1> SUFFICES ASSUME Init PROVE RotationInv
  OBVIOUS
<1>1. Owned
  BY DEF Init, InitHist, Owned, Idle
<1>2. Outlived
  BY DEF Init, InitHist, Outlived
<1> QED
  BY <1>1, <1>2, InitTyped DEF RotationInv

\* A step of r that writes no token row, hands out no token and leaves its slot
\* outside the token-carrying statements.
Quiet(r) ==
  /\ rt' = rt /\ held' = held
  /\ hist'.rotated = hist.rotated /\ hist'.revived = hist.revived
  /\ \/ hist'.stale = hist.stale \ {r}
     \/ hist'.stale = hist.stale /\ r \notin Authenticating
  /\ \A q \in Requests \ {r} : req'[q] = req[q]
  /\ req'[r].pc \notin {"loginSave", "refreshIssue", "refreshFind", "refreshRevoke"}

LEMMA QuietKeeps ==
  ASSUME RotationInv, NEW r \in Requests, Quiet(r)
  PROVE  Owned' /\ Outlived'
<1>1. Owned'
  BY DEF Quiet, Owned, RotationInv, Authenticating
<1>2. Outlived'
  BY DEF Quiet, Outlived, RotationInv
<1> QED
  BY <1>1, <1>2

\* Which steps are quiet.
LEMMA QuietSteps ==
  ASSUME TypeOK, NEW r \in Requests,
         \/ LoginValidate(r) \/ RequestReset(r) \/ ResetPassword(r) \/ VerifyEmail(r)
         \/ ResendVerification(r) \/ DisableUser(r) \/ EnableUser(r) \/ SaveUser(r)
         \/ CloseAccount(r)
  PROVE  Quiet(r)
<1> USE DEF Quiet, Authenticating, At
<1>1. ASSUME NEW pc \in {"loginIssue", "save", "saveThenRevoke"}, NEW entity, Prepare(r, pc, entity)
      PROVE  /\ req'[r].pc = pc
             /\ \A q \in Requests \ {r} : req'[q] = req[q]
  BY <1>1 DEF Prepare, Idle, TypeOK
<1>2. ASSUME NEW pc, Goto(r, pc)
      PROVE  /\ req'[r].pc = pc
             /\ \A q \in Requests \ {r} : req'[q] = req[q]
  <2>1. req[r] \in Slot
    BY DEF TypeOK, Request
  <2> QED
    BY <1>2, <2>1 DEF Goto, TypeOK, Slot
<1>3. ASSUME Finish(r)
      PROVE  /\ req'[r].pc = "idle"
             /\ \A q \in Requests \ {r} : req'[q] = req[q]
  BY <1>3 DEF Finish, Idle, TypeOK
<1>4. hist \in History
  BY DEF TypeOK
<1>5. CASE LoginValidate(r) \/ DisableUser(r) \/ EnableUser(r)
  BY <1>1, <1>5 DEF LoginValidate, DisableUser, EnableUser
<1>6. CASE ResetPassword(r) \/ VerifyEmail(r)
  <2>1. /\ hist'.rotated = hist.rotated /\ hist'.revived = hist.revived
        /\ hist'.stale = hist.stale
    BY <1>4, <1>6 DEF ResetPassword, VerifyEmail, History
  <2>2. \E pc \in {"save", "saveThenRevoke"}, entity \in {user} \cup UserRow : Prepare(r, pc, entity)
    <3>1. /\ [user EXCEPT !.verified = TRUE, !.verify = None] \in UserRow
          /\ \A p \in Passwords : [user EXCEPT !.password = p, !.reset = None] \in UserRow
      BY DEF TypeOK, UserRow
    <3> QED
      BY <1>6, <3>1 DEF ResetPassword, VerifyEmail
  <2> QED
    BY <1>1, <1>6, <2>1, <2>2 DEF ResetPassword, VerifyEmail
<1>7. CASE RequestReset(r) \/ ResendVerification(r)
  BY <1>1, <1>7 DEF RequestReset, ResendVerification
<1>8. CASE SaveUser(r)
  <2>1. Settled(r).rotated = hist.rotated /\ Settled(r).revived = hist.revived
        /\ Settled(r).stale = hist.stale \ {r}
    BY <1>4 DEF Settled, History
  <2> QED
    BY <1>2, <1>3, <1>8, <2>1 DEF SaveUser
<1>9. CASE CloseAccount(r)
  BY <1>2, <1>9 DEF CloseAccount
<1> QED
  BY <1>5, <1>6, <1>7, <1>8, <1>9

\* Issuing a token: it is fresh, so no other slot, no client and no history knows it.
LEMMA IssueKeeps ==
  ASSUME RotationInv, NEW r \in Requests, LoginIssue(r) \/ RefreshIssue(r)
  PROVE  Owned' /\ Outlived'
<1>1. PICK t \in Tokens :
        /\ \/ At(r, "loginIssue") /\ IssueToken(r, t, "loginSave") /\ hist' = Inherit(hist, r, t)
           \/ /\ At(r, "refreshIssue") /\ IssueToken(r, t, "refreshFind")
              /\ hist' = [Inherit(hist, r, t) EXCEPT !.rotated = @ \cup {t}]
        /\ held' = held
  BY DEF LoginIssue, RefreshIssue
<1>2. /\ rt \in [Tokens -> TokenStates] /\ hist \in History
      /\ req \in [Requests -> Request] /\ \A q \in Requests : req[q] \in Slot
  BY DEF RotationInv, TypeOK, Request
<1>3. rt[t] = "unissued" /\ rt' = [rt EXCEPT ![t] = "live"]
  BY <1>1 DEF IssueToken
<1>4. /\ hist'.stale = IF r \in hist.stale THEN hist.stale \cup {t} ELSE hist.stale
      /\ hist'.revived = hist.revived
      /\ \/ At(r, "loginIssue") /\ hist'.rotated = hist.rotated
         \/ At(r, "refreshIssue") /\ hist'.rotated = hist.rotated \cup {t}
  BY <1>1, <1>2 DEF Inherit, History
<1>5. /\ req'[r].new = t /\ req'[r].old = req[r].old
      /\ \/ At(r, "loginIssue") /\ req'[r].pc = "loginSave"
         \/ At(r, "refreshIssue") /\ req'[r].pc = "refreshFind"
      /\ \A q \in Requests \ {r} : req'[q] = req[q]
  BY <1>1, <1>2 DEF IssueToken, Slot
<1>6. t \notin hist.stale /\ t \notin hist.rotated /\ t \notin Requests
  BY <1>3 DEF RotationInv, Owned
<1>7. \A q \in Requests : req[q].pc \in {"loginSave", "refreshFind", "refreshRevoke"} =>
        req[q].new # t /\ req[q].new \in Tokens
  BY <1>2, <1>3 DEF RotationInv, TypeOK, Owned, Request, Filled
<1>8. \A q \in Requests : req[q].pc \in {"refreshIssue", "refreshFind", "refreshRevoke"} =>
        req[q].old \in Tokens
  BY <1>2 DEF RotationInv, TypeOK, Request, Filled
<1>9. Owned'
  <2>1. held' = held
    BY <1>1
  <2>2. \A u \in Tokens : u \in hist'.stale \cup hist'.rotated \cup held' => rt'[u] # "unissued"
    BY <1>2, <1>3, <1>4, <2>1 DEF RotationInv, Owned
  <2>3. \A q \in Requests :
          /\ req'[q].pc \in {"loginSave", "refreshFind", "refreshRevoke"} =>
               /\ rt'[req'[q].new] # "unissued"
               /\ req'[q].new \in hist'.stale => q \in hist'.stale
          /\ req'[q].pc = "loginSave" => req'[q].new \notin hist'.rotated
          /\ req'[q].pc \in {"refreshIssue", "refreshFind"} => rt'[req'[q].old] # "unissued"
    <3>1. ASSUME NEW q \in Requests \ {r}
          PROVE  /\ req'[q].pc \in {"loginSave", "refreshFind", "refreshRevoke"} =>
                      /\ rt'[req'[q].new] # "unissued"
                      /\ req'[q].new \in hist'.stale => q \in hist'.stale
                 /\ req'[q].pc = "loginSave" => req'[q].new \notin hist'.rotated
                 /\ req'[q].pc \in {"refreshIssue", "refreshFind"} =>
                      rt'[req'[q].old] # "unissued"
      BY <1>2, <1>3, <1>4, <1>5, <1>7, <1>8 DEF RotationInv, Owned
    <3>2. /\ rt'[t] # "unissued"
          /\ t \in hist'.stale => r \in hist'.stale
          /\ At(r, "loginIssue") => t \notin hist'.rotated
          /\ At(r, "refreshIssue") => rt'[req[r].old] # "unissued"
      BY <1>2, <1>3, <1>4, <1>6, <1>8 DEF At, RotationInv, Owned
    <3> QED
      BY <1>5, <3>1, <3>2 DEF At
  <2>4. \A q \in Requests :
          req'[q].pc \notin {"loginIssue", "loginSave", "refreshIssue", "refreshFind",
                             "refreshRevoke"} => q \notin hist'.stale
    BY <1>4, <1>5, <1>6 DEF RotationInv, Owned
  <2> QED
    BY <2>2, <2>3, <2>4 DEF Owned
<1>10. Outlived'
  <2> SUFFICES ASSUME hist.revived = {} PROVE Outlived'
    BY <1>4 DEF Outlived
  <2>1. \A u \in held' \cap hist'.stale \cap hist'.rotated : rt'[u] = "gone"
    <3>1. TAKE u \in held' \cap hist'.stale \cap hist'.rotated
    <3>2. CASE u = t
      <4>1. At(r, "refreshIssue") /\ r \in hist.stale /\ t \in held
        BY <1>1, <1>4, <1>6, <3>1, <3>2
      <4> QED
        BY <1>3, <4>1 DEF RotationInv, Owned
    <3>3. CASE u # t
      BY <1>1, <1>2, <1>3, <1>4, <3>1, <3>3 DEF RotationInv, Outlived, TypeOK
    <3> QED
      BY <3>2, <3>3
  <2>2. \A q \in Requests : q \in hist'.stale =>
          /\ req'[q].pc \in {"refreshIssue", "refreshFind"} => rt'[req'[q].old] = "gone"
          /\ req'[q].pc = "refreshRevoke" => rt'[req'[q].new] = "gone"
    BY <1>2, <1>3, <1>4, <1>5, <1>6, <1>7, <1>8 DEF RotationInv, Outlived, At
  <2> QED
    BY <2>1, <2>2 DEF Outlived
<1> QED
  BY <1>9, <1>10

\* The slots of a state satisfying the invariant.
LEMMA SlotFacts ==
  ASSUME RotationInv
  PROVE  /\ rt \in [Tokens -> TokenStates] /\ hist \in History
         /\ req \in [Requests -> Request] /\ held \subseteq Tokens
         /\ \A q \in Requests : req[q] \in Slot /\ Filled(req[q])
  BY DEF RotationInv, TypeOK, Request

\* Login's answer: its token was issued by a login, never by a rotation.
LEMMA LoginSaveKeeps ==
  ASSUME RotationInv, NEW r \in Requests, LoginSave(r)
  PROVE  Owned' /\ Outlived'
<1>1. /\ At(r, "loginSave") /\ rt' = rt /\ held' = held \cup {req[r].new}
      /\ req' = [req EXCEPT ![r] = Idle]
      /\ hist'.stale = hist.stale \ {r} /\ hist'.rotated = hist.rotated
      /\ hist'.revived = hist.revived
  BY SlotFacts DEF LoginSave, Settled, Finish, History
<1>2. req[r].new \in Tokens /\ rt[req[r].new] # "unissued" /\ req[r].new \notin hist.rotated
  BY <1>1, SlotFacts DEF At, Filled, RotationInv, Owned
<1>3. /\ req'[r].pc = "idle" /\ \A q \in Requests \ {r} : req'[q] = req[q]
  BY <1>1, SlotFacts DEF Idle
<1>4. Owned'
  BY <1>1, <1>2, <1>3 DEF RotationInv, Owned
<1>5. Outlived'
  BY <1>1, <1>2, <1>3 DEF RotationInv, Outlived
<1> QED
  BY <1>4, <1>5

\* A refresh begins in an idle slot, which is not stale.
LEMMA RefreshCheckKeeps ==
  ASSUME RotationInv, NEW r \in Requests, RefreshCheck(r)
  PROVE  Owned' /\ Outlived'
<1>1. PICK t \in held \ expired :
        /\ rt[t] = "live"
        /\ req' = [req EXCEPT ![r] = [Idle EXCEPT !.pc = "refreshIssue", !.old = t]]
  BY DEF RefreshCheck
<1>2. /\ req'[r].pc = "refreshIssue" /\ rt[req'[r].old] = "live"
      /\ \A q \in Requests \ {r} : req'[q] = req[q]
  BY <1>1, SlotFacts DEF Idle
<1>3. rt' = rt /\ held' = held /\ hist' = hist /\ r \notin hist.stale
  BY DEF RefreshCheck, RotationInv, Owned, At
<1>4. Owned'
  BY <1>2, <1>3 DEF RotationInv, Owned
<1>5. Outlived'
  BY <1>2, <1>3 DEF RotationInv, Outlived
<1> QED
  BY <1>4, <1>5

\* revokeToken finds the old row or fails.
LEMMA RefreshFindKeeps ==
  ASSUME RotationInv, NEW r \in Requests, RefreshFind(r)
  PROVE  Owned' /\ Outlived'
<1>1. At(r, "refreshFind") /\ rt' = rt /\ held' = held
  BY DEF RefreshFind
<1>2. CASE rt[req[r].old] = "gone" /\ Finish(r) /\ hist' = Settled(r)
  <2>1. Quiet(r)
    BY <1>1, <1>2, SlotFacts DEF Quiet, Finish, Settled, Idle, History
  <2> QED
    BY <2>1, QuietKeeps
<1>3. CASE rt[req[r].old] # "gone" /\ Goto(r, "refreshRevoke") /\ hist' = hist
  <2>1. /\ req'[r].pc = "refreshRevoke" /\ req'[r].new = req[r].new
        /\ \A q \in Requests \ {r} : req'[q] = req[q]
    BY <1>3, SlotFacts DEF Goto, Slot
  <2>2. Owned'
    BY <1>1, <1>3, <2>1 DEF RotationInv, Owned, At
  <2>3. hist.revived = {} => r \notin hist.stale
    BY <1>1, <1>3 DEF RotationInv, Outlived, At
  <2>4. Outlived'
    BY <1>1, <1>3, <2>1, <2>3 DEF RotationInv, Outlived
  <2> QED
    BY <2>2, <2>4
<1> QED
  BY <1>2, <1>3 DEF RefreshFind

\* The rotation's last statement: it writes a revoked row, and may write it anew.
LEMMA RefreshRevokeKeeps ==
  ASSUME RotationInv, NEW r \in Requests, RefreshRevoke(r)
  PROVE  Owned' /\ Outlived'
<1> DEFINE old == req[r].old
           new == req[r].new
<1>1. /\ At(r, "refreshRevoke") /\ old \in Tokens /\ new \in Tokens
  BY SlotFacts DEF RefreshRevoke, At, Filled
<1>2. /\ rt' = [rt EXCEPT ![old] = "revoked"] /\ held' = held \cup {new}
      /\ req' = [req EXCEPT ![r] = Idle]
      /\ hist'.stale = hist.stale \ {r} /\ hist'.rotated = hist.rotated
      /\ hist'.revived = IF rt[old] = "gone" THEN hist.revived \cup {old} ELSE hist.revived
  BY SlotFacts DEF RefreshRevoke, Settled, Finish, History
<1>3. /\ req'[r].pc = "idle" /\ \A q \in Requests \ {r} : req'[q] = req[q]
  BY <1>2, SlotFacts DEF Idle
<1>4. rt[new] # "unissued" /\ (new \in hist.stale => r \in hist.stale)
  BY <1>1 DEF RotationInv, Owned, At
<1>5. Owned'
  BY <1>1, <1>2, <1>3, <1>4, SlotFacts DEF RotationInv, Owned, Filled
<1>6. Outlived'
  <2> SUFFICES ASSUME hist'.revived = {} PROVE Outlived'
    BY DEF Outlived
  <2>1. hist.revived = {} /\ rt[old] # "gone"
    BY <1>2
  <2>2. \A u \in Tokens : rt[u] = "gone" => rt'[u] = "gone"
    BY <1>2, <2>1
  <2>3. new \in hist'.stale => rt[new] = "gone"
    BY <1>1, <1>2, <1>4, <2>1 DEF RotationInv, Outlived, At
  <2>4. \A u \in held' \cap hist'.stale \cap hist'.rotated : rt'[u] = "gone"
    BY <1>1, <1>2, <2>1, <2>2, <2>3, SlotFacts DEF RotationInv, Outlived
  <2>5. \A q \in Requests : q \in hist'.stale =>
          /\ req'[q].pc \in {"refreshIssue", "refreshFind"} => rt'[req'[q].old] = "gone"
          /\ req'[q].pc = "refreshRevoke" => rt'[req'[q].new] = "gone"
    BY <1>2, <1>3, <2>1, <2>2, SlotFacts DEF RotationInv, Outlived, Filled
  <2> QED
    BY <2>4, <2>5 DEF Outlived
<1> QED
  BY <1>5, <1>6

\* Bulk statements keep gone rows gone and invent no row.
BulkRows == \A u \in Tokens : /\ rt[u] = "gone" => rt'[u] = "gone"
                              /\ rt'[u] = "unissued" <=> rt[u] = "unissued"

LEMMA BulkKeeps ==
  ASSUME RotationInv, BulkRows, held' = held,
         hist'.stale \subseteq hist.stale, hist'.rotated = hist.rotated,
         hist'.revived = hist.revived,
         \A q \in Requests :
           \/ req'[q].pc \in {"idle", "deleteAll"} /\ q \notin hist'.stale
           \/ req'[q] = req[q] /\ (q \in hist'.stale <=> q \in hist.stale)
  PROVE  Owned' /\ Outlived'
<1>1. Owned'
  BY SlotFacts DEF RotationInv, Owned, BulkRows, Filled
<1>2. Outlived'
  BY SlotFacts DEF RotationInv, Outlived, BulkRows, Filled
<1> QED
  BY <1>1, <1>2

LEMMA BulkSteps ==
  ASSUME RotationInv, NEW r \in Requests, RevokeAll(r) \/ CloseCommit(r)
  PROVE  Owned' /\ Outlived'
<1>1. BulkRows
  BY SlotFacts DEF BulkRows, RevokeAll, CloseCommit, LivePart
<1>2. CASE RevokeAll(r)
  <2>1. /\ req'[r].pc = "deleteAll" /\ r \notin hist.stale
        /\ \A q \in Requests \ {r} : req'[q] = req[q]
    BY <1>2, SlotFacts DEF RevokeAll, Goto, Slot, At, RotationInv, Owned
  <2> QED
    BY <1>1, <1>2, <2>1, BulkKeeps DEF RevokeAll
<1>3. CASE CloseCommit(r)
  <2>1. req'[r].pc = "idle" /\ \A q \in Requests \ {r} : req'[q] = req[q]
    BY <1>3, SlotFacts DEF CloseCommit, Finish, Idle
  <2>2. /\ hist'.stale = hist.stale \ {r} /\ hist'.rotated = hist.rotated
        /\ hist'.revived = hist.revived
    BY <1>3, SlotFacts DEF CloseCommit, Settled, History
  <2> QED
    BY <1>1, <1>3, <2>1, <2>2, BulkKeeps DEF CloseCommit
<1> QED
  BY <1>2, <1>3

\* The end of a global logout: every row goes, and everything authenticated
\* before it is stale from here on.
LEMMA DeleteAllKeeps ==
  ASSUME RotationInv, NEW r \in Requests, DeleteAll(r)
  PROVE  Owned' /\ Outlived'
<1>1. /\ \A u \in Tokens : rt'[u] = IF rt[u] = "unissued" THEN "unissued" ELSE "gone"
      /\ held' = held
  BY DEF DeleteAll, WithoutRows
<1>2. /\ hist'.stale = (hist.stale \cup Authenticating \cup {t \in Tokens : rt[t] # "unissued"}) \ {r}
      /\ hist'.rotated = hist.rotated /\ hist'.revived = hist.revived
  BY SlotFacts DEF DeleteAll, History
<1>3. /\ req'[r].pc = "idle" /\ \A q \in Requests \ {r} : req'[q] = req[q]
  BY SlotFacts DEF DeleteAll, Finish, Idle
<1>4. Owned'
  BY <1>1, <1>2, <1>3, SlotFacts DEF RotationInv, Owned, Filled, Authenticating
<1>5. \A u \in held' : rt'[u] = "gone"
  BY <1>1, SlotFacts DEF RotationInv, Owned
<1>6. \A q \in Requests \ {r} :
        /\ req[q].pc \in {"refreshFind", "refreshRevoke"} => rt'[req[q].new] = "gone"
        /\ req[q].pc \in {"refreshIssue", "refreshFind"} => rt'[req[q].old] = "gone"
  BY <1>1, SlotFacts DEF RotationInv, Owned, Filled
<1>7. Outlived'
  BY <1>3, <1>5, <1>6 DEF Outlived
<1> QED
  BY <1>4, <1>7

\* Logout, the purge, registration, the nightly cleanup and the clock.
LEMMA SystemKeeps ==
  ASSUME RotationInv, Logout \/ PurgeAccount \/ Register \/ CleanupTokens \/ Expire
  PROVE  Owned' /\ Outlived'
<1>1. BulkRows
  BY SlotFacts DEF BulkRows, Logout, PurgeAccount, Register, CleanupTokens, Expire, WithoutRows, Sweepable
<1>2. /\ held' = held /\ req' = req
      /\ hist'.stale = hist.stale /\ hist'.rotated = hist.rotated /\ hist'.revived = hist.revived
  BY SlotFacts DEF Logout, PurgeAccount, Register, CleanupTokens, Expire, History
<1> QED
  BY <1>1, <1>2, BulkKeeps

LEMMA RotationStep ==
  ASSUME RotationInv, [Next]_vars
  PROVE  RotationInv'
<1>1. TypeOK'
  <2>1. TypeOK
    BY DEF RotationInv
  <2>2. UNCHANGED vars => TypeOK'
    BY <2>1 DEF vars, TypeOK
  <2> QED
    BY <2>1, <2>2, HandlerTyped, SystemTyped DEF Next
<1>2. ASSUME UNCHANGED vars PROVE Owned' /\ Outlived'
  <2>1. Owned'
    BY <1>2 DEF vars, RotationInv, Owned
  <2>2. Outlived'
    BY <1>2 DEF vars, RotationInv, Outlived
  <2> QED
    BY <2>1, <2>2
<1>3. ASSUME NEW r \in Requests, Step(r) PROVE Owned' /\ Outlived'
  <2>1. TypeOK
    BY DEF RotationInv
  <2> QED
    BY <1>3, <2>1, QuietSteps, QuietKeeps, IssueKeeps, LoginSaveKeeps, RefreshCheckKeeps,
       RefreshFindKeeps, RefreshRevokeKeeps, BulkSteps, DeleteAllKeeps DEF Step
<1>4. ASSUME Logout \/ PurgeAccount \/ Register \/ CleanupTokens \/ Expire
      PROVE  Owned' /\ Outlived'
  BY <1>4, SystemKeeps
<1>5. Owned' /\ Outlived'
  BY <1>2, <1>3, <1>4 DEF Next
<1> QED
  BY <1>1, <1>5 DEF RotationInv

\* A session rotated across a global logout is unusable, for any number of
\* concurrent handlers, unless a save has inserted a deleted row again.
THEOREM RotationDies == Spec => []RotationDiesWithLogout
<1>1. RotationInv => RotationDiesWithLogout
  BY DEF RotationInv, Outlived, RotationDiesWithLogout
<1> QED
  BY <1>1, RotationInit, RotationStep, PTL DEF Spec

--------------------------------------------------------------------------------
(* Stale rows written back: what the account is was earned by this account. *)

\* Handlers that will write back the row they loaded.
Carries(slot) == slot.pc \in {"loginIssue", "loginSave", "save", "saveThenRevoke"}

Earned(row, proven, chosen) ==
  row.registered /\ (row.verified => proven) /\ row.password \in chosen

\* What is carried was earned as the row was, and nothing is carried past a purge.
EarnedInv ==
  /\ TypeOK
  /\ user.registered =>
       /\ Earned(user, hist.proven, hist.chosen)
       /\ \A r \in Requests : Carries(req[r]) => Earned(req[r].snap, hist.proven, hist.chosen)
  /\ ~user.registered => \A r \in Requests : req[r].pc = "idle"

LEMMA EarnedInit == Init => EarnedInv
<1> SUFFICES ASSUME Init PROVE EarnedInv
  OBVIOUS
<1>1. user.registered /\ user.password = InitialPassword
  BY DEF Init, InitialUser
<1>2. hist.proven /\ hist.chosen = {InitialPassword}
  BY DEF Init, InitHist
<1>3. \A r \in Requests : req[r].pc = "idle"
  BY DEF Init, Idle
<1> QED
  BY <1>1, <1>2, <1>3, InitTyped DEF EarnedInv, Earned, Carries

\* History of the account only grows while it exists.
LEMMA HistoryGrows ==
  ASSUME TypeOK, NEW r \in Requests, Step(r)
  PROVE  (hist.proven => hist'.proven) /\ hist.chosen \subseteq hist'.chosen
<1>1. hist \in History
  BY DEF TypeOK
<1>2. CASE hist' = hist
  BY <1>2
<1>3. ASSUME NEW S, hist' = [hist EXCEPT !.stale = S]
      PROVE  hist'.proven = hist.proven /\ hist'.chosen = hist.chosen
  BY <1>1, <1>3 DEF History
<1>4. CASE LoginIssue(r) \/ LoginSave(r) \/ RefreshFind(r) \/ SaveUser(r) \/ DeleteAll(r) \/ CloseCommit(r)
  <2>1. hist' = hist \/ \E S : hist' = [hist EXCEPT !.stale = S]
    BY <1>4 DEF LoginIssue, LoginSave, RefreshFind, SaveUser, DeleteAll, CloseCommit, Inherit, Settled
  <2> QED
    BY <1>3, <2>1
<1>5. CASE RefreshIssue(r)
  BY <1>1, <1>5 DEF RefreshIssue, Inherit, History
<1>6. CASE RefreshRevoke(r)
  BY <1>1, <1>6 DEF RefreshRevoke, Settled, History
<1>7. CASE ResetPassword(r)
  BY <1>1, <1>7 DEF ResetPassword, History
<1>8. CASE VerifyEmail(r)
  BY <1>1, <1>8 DEF VerifyEmail, History
<1> QED
  BY <1>2, <1>4, <1>5, <1>6, <1>7, <1>8
  DEF Step, LoginValidate, RefreshCheck, RequestReset, ResendVerification, DisableUser, EnableUser,
      RevokeAll, CloseAccount

\* The row: what was earned then is earned now, and every save writes back what was.
LEMMA RowEarned ==
  ASSUME EarnedInv, NEW r \in Requests, Step(r)
  PROVE  user.registered /\ Earned(user', hist'.proven, hist'.chosen)
<1>1. user.registered
  <2> SUFFICES ASSUME ~user.registered PROVE FALSE
    OBVIOUS
  <2>1. At(r, "idle") /\ ~Found /\ ~MayAct
    BY DEF EarnedInv, At, Found, MayAct
  <2> QED
    BY <2>1 DEF Step, LoginValidate, LoginIssue, LoginSave, RefreshCheck, RefreshIssue, RefreshFind,
       RefreshRevoke, RequestReset, ResetPassword, VerifyEmail, ResendVerification, DisableUser,
       EnableUser, SaveUser, RevokeAll, DeleteAll, CloseAccount, CloseCommit, At
<1>2. TypeOK /\ user \in UserRow
  BY DEF EarnedInv, TypeOK
<1>3. \A row : Earned(row, hist.proven, hist.chosen) => Earned(row, hist'.proven, hist'.chosen)
  BY <1>2, HistoryGrows DEF Earned
<1>4. Earned(user, hist.proven, hist.chosen)
  BY <1>1 DEF EarnedInv
<1>5. user' = user \/ LoginSave(r) \/ SaveUser(r) \/ CloseCommit(r)
  BY DEF Step, LoginValidate, LoginIssue, RefreshCheck, RefreshIssue, RefreshFind,
     RefreshRevoke, RequestReset, ResetPassword, VerifyEmail, ResendVerification, DisableUser,
     EnableUser, RevokeAll, DeleteAll, CloseAccount
<1>6. CASE LoginSave(r)
  <2>1. Earned(req[r].snap, hist.proven, hist.chosen)
    BY <1>1, <1>6 DEF LoginSave, At, EarnedInv, Carries
  <2>2. /\ user'.registered = user.registered /\ user'.password = user.password
        /\ user'.verified = req[r].snap.verified
    BY <1>2, <1>6 DEF LoginSave, PlainSave, UserRow
  <2>3. Earned(user', hist.proven, hist.chosen)
    BY <1>4, <2>1, <2>2 DEF Earned
  <2> QED
    BY <1>1, <1>3, <2>3
<1>7. CASE SaveUser(r)
  <2>1. Earned(req[r].snap, hist.proven, hist.chosen)
    BY <1>1, <1>7 DEF SaveUser, At, EarnedInv, Carries
  <2> QED
    BY <1>1, <1>3, <1>7, <2>1 DEF SaveUser
<1>8. CASE CloseCommit(r)
  <2>1. /\ user'.registered = user.registered /\ user'.password = user.password
        /\ user'.verified = user.verified
    BY <1>2, <1>8 DEF CloseCommit, UserRow
  <2>2. Earned(user', hist.proven, hist.chosen)
    BY <1>4, <2>1 DEF Earned
  <2> QED
    BY <1>1, <1>3, <2>2
<1> QED
  BY <1>1, <1>3, <1>4, <1>5, <1>6, <1>7, <1>8

\* What a handler carries on, it carried before or loads from the row.
LEMMA SlotEarned ==
  ASSUME EarnedInv, NEW r \in Requests, Step(r), Carries(req'[r])
  PROVE  Earned(req'[r].snap, hist'.proven, hist'.chosen)
<1>1. TypeOK /\ user \in UserRow /\ req[r] \in Slot /\ hist \in History
  BY DEF EarnedInv, TypeOK, Request
<1>2. user.registered
  BY RowEarned
<1>3. /\ Earned(user, hist.proven, hist.chosen)
      /\ Carries(req[r]) => Earned(req[r].snap, hist.proven, hist.chosen)
  BY <1>2 DEF EarnedInv
<1>4. \A row : Earned(row, hist.proven, hist.chosen) => Earned(row, hist'.proven, hist'.chosen)
  BY <1>1, HistoryGrows DEF Earned
<1>5. ASSUME NEW pc, NEW entity, Prepare(r, pc, entity) PROVE req'[r].snap = entity
  BY <1>5, <1>1, IdleTyped DEF Prepare, Idle, TypeOK
<1>6. ASSUME NEW pc, Goto(r, pc) PROVE req'[r].pc = pc /\ req'[r].snap = req[r].snap
  BY <1>6, <1>1 DEF Goto, Slot, TypeOK
<1>7. ASSUME NEW t, NEW pc, IssueToken(r, t, pc) PROVE req'[r].pc = pc /\ req'[r].snap = req[r].snap
  BY <1>7, <1>1 DEF IssueToken, Slot, TypeOK
<1>8. ~Finish(r)
  BY <1>1 DEF Finish, Idle, Carries, TypeOK
<1>9. CASE LoginValidate(r)
  BY <1>3, <1>4, <1>5, <1>9 DEF LoginValidate
<1>10. CASE LoginIssue(r)
  BY <1>3, <1>4, <1>7, <1>10 DEF LoginIssue, At, Carries
<1>11. CASE RefreshCheck(r)
  <2>1. PICK t : req' = [req EXCEPT ![r] = [Idle EXCEPT !.pc = "refreshIssue", !.old = t]]
    BY <1>11 DEF RefreshCheck
  <2>2. req'[r].pc = "refreshIssue"
    BY <1>1, <2>1 DEF Idle, TypeOK
  <2> QED
    BY <2>2 DEF Carries
<1>12. CASE RefreshIssue(r)
  BY <1>7, <1>12 DEF RefreshIssue, Carries
<1>13. CASE RefreshFind(r) \/ RevokeAll(r) \/ CloseAccount(r)
  BY <1>6, <1>8, <1>13 DEF RefreshFind, RevokeAll, CloseAccount, Carries
<1>14. CASE LoginSave(r) \/ RefreshRevoke(r) \/ DeleteAll(r) \/ CloseCommit(r)
  BY <1>8, <1>14 DEF LoginSave, RefreshRevoke, DeleteAll, CloseCommit
<1>15. CASE SaveUser(r)
  BY <1>6, <1>8, <1>15 DEF SaveUser, Carries
<1>16. ASSUME NEW row, row.registered = user.registered, row.password = user.password,
              row.verified = user.verified
       PROVE  Earned(row, hist'.proven, hist'.chosen)
  BY <1>3, <1>4, <1>16 DEF Earned
<1>17. CASE RequestReset(r)
  <2>1. PICK m : Prepare(r, "save", [user EXCEPT !.reset = m])
    BY <1>17 DEF RequestReset
  <2> QED
    BY <1>1, <1>5, <1>16, <2>1 DEF UserRow
<1>18. CASE ResendVerification(r)
  <2>1. PICK m : Prepare(r, "save", [user EXCEPT !.verify = m])
    BY <1>18 DEF ResendVerification
  <2> QED
    BY <1>1, <1>5, <1>16, <2>1 DEF UserRow
<1>19. CASE DisableUser(r)
  BY <1>1, <1>5, <1>16, <1>19 DEF DisableUser, UserRow
<1>20. CASE EnableUser(r)
  BY <1>1, <1>5, <1>16, <1>20 DEF EnableUser, UserRow
<1>21. CASE VerifyEmail(r)
  <2>1. req'[r].snap = [user EXCEPT !.verified = TRUE, !.verify = None]
    BY <1>5, <1>21 DEF VerifyEmail
  <2>2. /\ req'[r].snap.registered = user.registered /\ req'[r].snap.password = user.password
    BY <1>1, <2>1 DEF UserRow
  <2>3. hist'.proven /\ hist'.chosen = hist.chosen
    BY <1>1, <1>21 DEF VerifyEmail, History
  <2> QED
    BY <1>3, <2>2, <2>3 DEF Earned
<1>22. CASE ResetPassword(r)
  <2>1. PICK p : /\ Prepare(r, "saveThenRevoke", [user EXCEPT !.password = p, !.reset = None])
                 /\ hist' = [hist EXCEPT !.chosen = @ \cup {p}]
    BY <1>22 DEF ResetPassword
  <2>2. /\ req'[r].snap.registered = user.registered /\ req'[r].snap.password = p
        /\ req'[r].snap.verified = user.verified
    BY <1>1, <1>5, <2>1 DEF UserRow
  <2>3. hist'.proven = hist.proven /\ hist'.chosen = hist.chosen \cup {p}
    BY <1>1, <2>1 DEF History
  <2> QED
    BY <1>3, <2>2, <2>3 DEF Earned
<1> QED
  BY <1>9, <1>10, <1>11, <1>12, <1>13, <1>14, <1>15, <1>17, <1>18, <1>19, <1>20, <1>21, <1>22
  DEF Step

LEMMA EarnedStep ==
  ASSUME EarnedInv, [Next]_vars
  PROVE  EarnedInv'
<1>1. TypeOK /\ TypeOK'
  <2>1. TypeOK
    BY DEF EarnedInv
  <2>2. UNCHANGED vars => TypeOK'
    BY <2>1 DEF vars, TypeOK
  <2> QED
    BY <2>1, <2>2, HandlerTyped, SystemTyped DEF Next
<1>2. ASSUME NEW r \in Requests, Step(r) PROVE EarnedInv'
  <2>1. \A q \in Requests \ {r} : req'[q] = req[q]
    BY <1>1, <1>2 DEF TypeOK, Step, LoginValidate, LoginIssue, LoginSave, RefreshCheck, RefreshIssue,
       RefreshFind, RefreshRevoke, RequestReset, ResetPassword, VerifyEmail, ResendVerification,
       DisableUser, EnableUser, SaveUser, RevokeAll, DeleteAll, CloseAccount, CloseCommit,
       Prepare, Goto, Finish, IssueToken
  <2>2. user.registered /\ Earned(user', hist'.proven, hist'.chosen)
    BY <1>2, RowEarned
  <2>3. ASSUME NEW q \in Requests, Carries(req'[q])
        PROVE  Earned(req'[q].snap, hist'.proven, hist'.chosen)
    <3>1. CASE q = r
      BY <1>2, <2>3, <3>1, SlotEarned
    <3>2. CASE q # r
      BY <1>1, <1>2, <2>1, <2>2, <2>3, <3>2, HistoryGrows DEF EarnedInv, Earned
    <3> QED
      BY <3>1, <3>2
  <2>4. user'.registered
    BY <2>2 DEF Earned
  <2> QED
    BY <1>1, <2>2, <2>3, <2>4 DEF EarnedInv
<1>3. CASE PurgeAccount
  <2>1. \A r \in Requests : req'[r].pc = "idle"
    BY <1>3 DEF PurgeAccount, At
  <2>2. user'.registered = FALSE
    BY <1>3 DEF PurgeAccount, InitialUser
  <2> QED
    BY <1>1, <2>1, <2>2 DEF EarnedInv
<1>4. CASE Register
  <2>1. \A r \in Requests : req'[r].pc = "idle"
    BY <1>4 DEF Register, EarnedInv
  <2>2. PICK p : /\ user'.registered /\ user'.password = p /\ user'.verified = FALSE
                 /\ hist'.chosen = {p}
    <3>1. PICK m, p : /\ user' = [InitialUser EXCEPT !.password = p, !.verified = FALSE, !.verify = m]
                      /\ hist' = [hist EXCEPT !.chosen = {p}]
      BY <1>4 DEF Register
    <3>2. user'.registered /\ user'.password = p /\ user'.verified = FALSE
      BY <3>1 DEF InitialUser
    <3>3. hist'.chosen = {p}
      BY <1>1, <3>1 DEF TypeOK, History
    <3> QED
      BY <3>2, <3>3
  <2>3. \A r \in Requests : ~Carries(req'[r])
    BY <2>1 DEF Carries
  <2> QED
    BY <1>1, <2>2, <2>3 DEF EarnedInv, Earned
<1>5. CASE UNCHANGED <<user, req, hist>>
  BY <1>1, <1>5 DEF EarnedInv
<1> QED
  BY <1>2, <1>3, <1>4, <1>5 DEF Next, Logout, CleanupTokens, Expire, vars

\* Whatever stale rows the handlers write back, nobody is verified without having
\* followed a link, and no password comes back from an account that was purged.
THEOREM StateEarned == Spec => []EarnedState
<1>1. EarnedInv => EarnedState
  BY DEF EarnedInv, Earned, EarnedState
<1> QED
  BY <1>1, EarnedInit, EarnedStep, PTL DEF Spec
================================================================================
