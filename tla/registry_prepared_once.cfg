SPECIFICATION Spec
CONSTANTS
  c1 = c1
  c2 = c2
  c3 = c3
  Call = {c1, c2}
  Width = 4
  None = None
INVARIANT PreparedOnce
CHECK_DEADLOCK FALSE
