SPECIFICATION Spec
CONSTANTS
  Chapters = {c1}
  Texts = {t1, blank}
  Blank = blank
  MaxTime = 0
  Limit = 1
  Requests = {r1, r2}
  Cron = cron
  Handlers = {"CreateChapter", "UpdateChapter", "SetCoverImage", "DeleteChapter", "PublishChapter", "ModerateChapter", "ModerateStory", "EditStory", "PublishStory", "WithdrawStory", "DeleteStory", "Fail", "Crash", "ReopenFails", "FeedFails"}
  None = None
INVARIANTS StoryEarned AnnouncedWentOut
SYMMETRY Symmetry
CHECK_DEADLOCK FALSE
