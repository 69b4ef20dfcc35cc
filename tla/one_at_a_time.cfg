SPECIFICATION Spec
CONSTANTS
  None = None
  Requests = {r1}
  Tokens = {t1, t2}  Mails = {m1, m2}  Passwords = {p1, p2}  p1 = p1  t1 = t1
  Members = {a, b}  Rows = {w1, w2}  Blocks = {b1, b2}
  Chapters = {c1, c2}
  Appeals = {a1, a2}  Reports = {q1}  Comments = {m1}  Complaints = {k1, k2}
  Absent = Absent  Job = Job
  sec = sec  tab = tab  pic = pic  pick = pick  opt = opt
  Sections = {sec}  Tabs = {tab}  Fields = {pic, pick}  FieldOptions = {opt}  Parent <- MCParent
  PictureFields = {pic}  Clearable = {pick}  Switchable = {pick}  Images = {1, 2, 3}
  MaxDay = 1  Retention = 0  PurgeBatch = 3  CleanupBatch = 1  MaxRefusals = 1
  MaxWording = 2  MaxShut = 2
  Refused = Refused  Cleared = Cleared  Options = {o1, o2}
  Numbers <- MCNumbers  Hundred = 2  MaxText = 2  MaxComponent = 1
  RatingMaxima = {1, 2}  Palette = {"accent"}
  Grants = {g1, g2}  Permissions = {"p"}  Limits = {"l"}
  Roles = {"USER", "MODERATOR", "ADMIN"}  Assignable = {"USER", "MODERATOR"}  Admin = "ADMIN"
  OfRole <- MCOfRole  Configured <- MCConfigured  Maxima = {0, 3}  Counts = {0, 1, 2, 3}  LastTime = 1
  Items = {i1, i2, i3}  Collections = {"stories", "videos", "memberships", "characters"}
  MaxPlace = 4  MaxListed = 2  MaxIndex = 3  Stems <- MCStems  MaxAttempts = 3
  Entries = {"e1", "e2"}  Featured = {"w"}  LastDate = 2
  Words = {"v", "k"}  MaxFollows = 2  MaxItems = 1  MaxHidden = 2
  Achievements <- MCAchievements  Allegiances = {"f"}  MaxRows = 2
  Parts = {"accounts", "friendships", "review", "reading", "social", "lists", "tracking", "answers",
           "complaints", "order", "addresses", "access", "visibility", "registry",
           "spotlight", "feed", "readers", "statistics", "trackers"}
INVARIANTS NoSessionWithoutStanding ReviewSettled CompletedMeansRead CountsKept FiguresAgree
  NothingLiveBelowDeleted BatchNeverRefused SavedAnswerStands AnswerFits ActedOnIsClosed
  PlacesApart LinksKeepLeading LastDecisionHolds
PROPERTIES AccountsImplementContract FriendshipsImplementContract
  DeliberateSticks DeadRowsSwept QueueDrains
CHECK_DEADLOCK FALSE
