---------------------------- MODULE AccountContract ----------------------------
(***************************************************************************)
(* What AuthService, UserModerationService and UserService.closeAccount    *)
(* promise about one account: its standing, its password, and the sessions *)
(* (usable refresh tokens) open on it.  Every operation is one step.       *)
(***************************************************************************)
CONSTANTS Sessions, Passwords, InitialPassword, InitialSessions

VARIABLES
  standing,   \* "absent", "unverified", "active" or "closed"
  locked,     \* disabled by an administrator
  password,
  open        \* the sessions that can still be refreshed

cvars == <<standing, locked, password, open>>

CInit ==
  /\ standing = "active"
  /\ locked = FALSE
  /\ password = InitialPassword
  /\ open = InitialSessions

\* A login or a refresh opens one session; a refresh closes the one it replaces.
Open ==
  /\ standing = "active" /\ ~locked
  /\ \E s \in Sessions \ open, old \in {{}} \cup {{o} : o \in open} :
       open' = (open \ old) \cup {s}
  /\ UNCHANGED <<standing, locked, password>>

\* Logout, or the session's expiry.
Leave ==
  /\ \E s \in open : open' = open \ {s}
  /\ UNCHANGED <<standing, locked, password>>

\* A password reset ends every session with the change itself.
ChangePassword ==
  /\ standing \in {"active", "unverified"}
  /\ password' \in Passwords
  /\ open' = {}
  /\ UNCHANGED <<standing, locked>>

\* Disabling ends every session with the lock itself.
Lock ==
  /\ standing \in {"active", "unverified"}
  /\ locked' = TRUE
  /\ open' = {}
  /\ UNCHANGED <<standing, password>>

Unlock ==
  /\ locked /\ standing # "closed"
  /\ locked' = FALSE
  /\ UNCHANGED <<standing, password, open>>

Verify ==
  /\ standing = "unverified"
  /\ standing' = "active"
  /\ UNCHANGED <<locked, password, open>>

\* Closure ends every session; a closed account is only ever removed.
Close ==
  /\ standing \in {"active", "unverified"} /\ ~locked
  /\ standing' = "closed"
  /\ open' = {}
  /\ UNCHANGED <<locked, password>>

Remove ==
  /\ standing = "closed"
  /\ standing' = "absent"
  /\ locked' = FALSE
  /\ password' = InitialPassword
  /\ UNCHANGED open

Create ==
  /\ standing = "absent"
  /\ standing' = "unverified"
  /\ password' \in Passwords
  /\ UNCHANGED <<locked, open>>

CNext ==
  \/ Open \/ Leave \/ ChangePassword \/ Lock \/ Unlock
  \/ Verify \/ Close \/ Remove \/ Create

Contract == CInit /\ [][CNext]_cvars

\* No session is open on an account that is locked, closed or absent.
NoSessionWithoutStanding ==
  open # {} => standing = "active" /\ ~locked
================================================================================
