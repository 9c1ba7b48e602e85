SPECIFICATION MCSpec
CONSTANTS
  Rows = {r1, r2}
  Torn = Torn
  Pids = {p1, p2}
  Self = Self
  MaxSaves = 2
  MaxStarts = 2
  None = None
  a1 = a1
  a2 = a2
  a3 = a3
  n1 = n1
  n2 = n2
  n3 = n3
  u1 = u1
  h1 = h1
  g1 = g1
  Template = Template
  v1 = v1
  p3 = p3
  p4 = p4
  l1 = l1
INVARIANTS
  FileHolds
PROPERTIES
  NotBackwards
  SavesResume
  AccountsKept
  SettingsHold
CHECK_DEADLOCK FALSE
