SPECIFICATION Spec
CONSTANTS
  None = None
  Items = {i1, i2, i3}
  Kinds = {"memberships"}
  MaxPlace = 4
INVARIANTS OrderAsAsked
CHECK_DEADLOCK FALSE
