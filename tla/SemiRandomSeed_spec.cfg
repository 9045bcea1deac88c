CONSTANTS
  HashBytes = {0, 127, 128, 255}
  MaxHashLen = 9
SPECIFICATION Spec
INVARIANT SeedAlwaysAccepted
CHECK_DEADLOCK FALSE
