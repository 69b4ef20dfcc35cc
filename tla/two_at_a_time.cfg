SPECIFICATION SpecAll
CONSTANTS
  None = None
  Requests = {r1, r2}
  Members = {a, b}  Rows = {w1, w2}  Blocks = {b1, b2}
  Chapters = {c1, c2}  Texts = {text, blank}  Blank = blank  Cron = cron  Limit = 2  LastTime = 1
  Appeals = {a1, a2}  Reports = {q1}
  saga = saga  author = author
  People = {curator, author, helper}  Owner = curator  Guests = {helper}
  Sagas = {saga}  AuthorOf <- MCAuthorOf
  ArcOffers = {{"MANAGE_COLLABORATORS"}, {"EDIT_ARC", "MANAGE_STORIES", "MANAGE_COLLABORATORS"}}
  Crewmates = {author, helper}  CrewFlags = {{"EDIT_STORY", "PUBLISH"}, {"MANAGE_COLLABORATORS"}}
  Absent = Absent  Job = Job
  sec = sec  tab = tab  pic = pic  pick = pick  opt = opt
  Sections = {sec}  Tabs = {tab}  Fields = {pic, pick}  Options = {opt}  Parent <- MCParent
  PictureFields = {pic}  Images = {1, 2, 3}
  MaxDay = 1  Retention = 0  PurgeBatch = 2  CleanupBatch = 1  MaxRefusals = 0
  Instances = {x1, x2}  Values = {"on", "off"}  Default = "on"  LastTick = 4  TTL = 2
  x1 = x1  x2 = x2  n1 = n1  n2 = n2  n3 = n3
  Notices = {n1, n2, n3}  Suppressing = {n1, n3}  Addressee <- MCAddressee
  Uploads = {1, 2, 3, 4}  MaxLeft = 1
  Parts = {"publication", "friendships", "review", "arcs", "crew", "tracking", "settings", "mail",
           "pictures"}
INVARIANTS TypesOK OneRowPerPair FriendsConsented BlockHoldsAgainstLaterRequests
  AccessAgreed JoinedByBoth WorksByConsent NoBrokenPicture
  ReachesEveryInstance AnsweredIsSuppressed ScheduleConsistent
PROPERTIES CountFollows AnsweredForGood DeletesOnlyQueued
SYMMETRY Symmetry
CHECK_DEADLOCK FALSE
