SPECIFICATION Spec
CONSTANTS
  Requests = {r1, r2}
  Tokens = {t1, t2}
  Mails = {m1}
  Passwords = {p1}
  InitialPassword = p1
  InitialSessions = {}
  None = None
  Handlers = {"login", "disable"}

PROPERTIES DisableSticks
CHECK_DEADLOCK FALSE

