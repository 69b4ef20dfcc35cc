SPECIFICATION Spec
CONSTANTS
  MaxFollows = 1
  MaxItems = 1
  MaxHidden = 1
INVARIANTS NamedArcsOpen
CHECK_DEADLOCK FALSE
