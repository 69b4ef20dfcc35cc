SPECIFICATION Spec
CONSTANTS
  Chapters = {c1, c2}
  Texts = {t1, blank}
  Blank = blank
  MaxTime = 1
  Limit = 2
  Requests = {r1, r2}
  Cron = cron
  Handlers = {"CreateChapter", "PublishChapter"}
  None = None
INVARIANTS CountAtRest
CHECK_DEADLOCK FALSE
