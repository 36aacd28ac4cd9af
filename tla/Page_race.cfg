CONSTANTS
  p1 = p1
  p2 = p2
  Listed = {p1, p2}
  Junk = Junk
  None = None
  MaxClicks = 2
SPECIFICATION Spec
INVARIANT SameProfile
CHECK_DEADLOCK FALSE
