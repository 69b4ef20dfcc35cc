SPECIFICATION SerialSpec
CONSTANTS
  None = None  Absent = Absent  Job = Job
  Requests = {r1}
  s1 = s1  t1 = t1  f1 = f1
  Sections = {s1}  Tabs = {t1}  Fields = {f1}  Options = {}
  Parent <- MCParent
  PictureFields = {f1}  Clearable = {f1}  Contended = {s1, t1, f1}
  Pictures = {1, 2, 3}
  MaxDay = 1  Retention = 0  PurgeBatch = 3  CleanupBatch = 1  MaxRefusals = 1
INVARIANTS NothingForgotten
CHECK_DEADLOCK FALSE
