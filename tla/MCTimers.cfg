SPECIFICATION MCSpec
CONSTANTS
  Uplinks = {a, b, c}
  Period = 2
  DeadAfter = 4
  MaxRehash = 2
  MaxBlocks = 2
  None = None
  c1 = c1
  a1 = a1
  wide = wide
  narrow = narrow
  a2 = a2
  g1 = g1
  g2 = g2
  t1 = t1
INVARIANTS
  OneAttempt
  SilentUplinkDropped
PROPERTIES
  AllTried
  AkicksEnd
  GroupsKept
CHECK_DEADLOCK FALSE
