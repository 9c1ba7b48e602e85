SPECIFICATION MCSpec
CONSTANTS
  u1 = u1
  u2 = u2
  u3 = u3
  h1 = h1
  h2 = h2
  a1 = a1
  b1 = b1
  b2 = b2
  CS = CS
  None = None
  NoAccount = NoAccount
  Users = {u1, u2}
  HostOf <- MCHostOf
  Accounts = {}
  TSs = {1}
  OpThreshold = 2
  MinFixScore = 2
  InitialStep = 70
  FinalStep = 30
  FixTime = 1
  Retention = 1
  Divisor = 3
  MaxAge = 4
  MinTS = 0
INVARIANTS
  RecordsSound
PROPERTIES
  FixesEnd
  ServicesStay
CHECK_DEADLOCK FALSE
