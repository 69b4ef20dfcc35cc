------------------------------ MODULE AuthSerial -------------------------------
(***************************************************************************)
(* AuthSession against AccountContract: with one request running at a time *)
(* every handler of AuthSession is atomic, as the contract describes it.   *)
(* A password reset or a disable takes effect in the contract at its save; *)
(* until its two revocation statements have run, its sessions are already  *)
(* counted as closed.                                                      *)
(***************************************************************************)
EXTENDS AuthSession

Standing ==
  IF ~user.registered THEN "absent"
  ELSE IF user.deleted THEN "closed"
  ELSE IF user.verified THEN "active" ELSE "unverified"

OpenSessions ==
  IF \E r \in Requests : req[r].pc \in {"revokeAll", "deleteAll"}
    THEN {}
    ELSE {t \in held \ expired : rt[t] = "live"}

Promise == INSTANCE AccountContract WITH
  Sessions <- Tokens,
  standing <- Standing,
  locked   <- user.disabled,
  password <- user.password,
  open     <- OpenSessions

\* With one request at a time, the handlers implement the account contract:
\* a disable, a closure or a reset is final and leaves no session open.
ImplementsContract == Promise!Contract

\* In the same setting no session outlives the account's standing.
NoSessionWithoutStanding == Promise!NoSessionWithoutStanding
================================================================================
