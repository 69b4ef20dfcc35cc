SPECIFICATION Spec
CONSTANTS
  Requests = {r1, r2}
  Tokens = {t1, t2}
  Mails = {m1, m2}
  Passwords = {p1, p2}
  InitialPassword = p1
  InitialSessions = {t1}
  None = None
  Handlers = {"login", "refresh", "logout", "requestReset", "reset", "verify", "resend", "disable", "enable", "close", "purge"}
INVARIANTS TypeOK RotationDiesWithLogout EarnedState
PROPERTIES DeadTokensStayDead
CHECK_DEADLOCK FALSE
SYMMETRY RequestSymmetry
