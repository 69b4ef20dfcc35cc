SPECIFICATION SerialSpec
CONSTANTS
  None = None
  Requests = {r1}  Voters = {u1, u2}  Comments = {k1, k2}
INVARIANTS RemovedStaysRemoved
CHECK_DEADLOCK FALSE
