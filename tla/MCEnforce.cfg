SPECIFICATION MCSpec
CONSTANTS
  c1 = c1
  c2 = c2
  h1 = h1
  a1 = a1
  n1 = n1
  n2 = n2
  a2 = a2
  u1 = u1
  u2 = u2
  e1 = e1
  e2 = e2
  h2 = h2
  k1 = k1
  k2 = k2
  Clients = {c1, c2}
  Hosts = {h1}
  Host <- MCHost
  Accounts = {a1}
  Nicks = {n1, n2}
  Owner <- MCOwner
  Delays = {1, 2}
  DefaultDelay = 1
  MaxTime = 3
  MaxPending = 2
  None = None
INVARIANTS
  DeadlinesKept
  OwnersKeep
PROPERTIES
  DueEntriesAreServed
