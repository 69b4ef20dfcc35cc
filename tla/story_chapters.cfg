SPECIFICATION FairSpec
CONSTANTS
  Chapters = {c1, c2}
  Texts = {t1, blank}
  Blank = blank
  MaxTime = 2
  Limit = 2
  Requests = {r1}
  Cron = cron
  Handlers = {"CreateChapter", "ReorderChapters", "PublishChapter", "UnpublishChapter", "ScheduleChapter"}
  None = None
INVARIANTS PublicationEarned
PROPERTIES DueGoesOut
CHECK_DEADLOCK FALSE
