SPECIFICATION Spec
CONSTANTS
  Members = {a, b}
  Rows = {f1, f2}
  Blocks = {k1}
  Requests = {r1, r2}
  None = None
INVARIANTS BlockTearsDown
CHECK_DEADLOCK FALSE
