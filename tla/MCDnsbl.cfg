SPECIFICATION FairSpec
CONSTANTS
  u1 = u1
  u2 = u2
  bad = bad
  good = good
  z1 = z1
  Users = {u1, u2}
  IPs = {bad, good}
  IPv4 = {bad, good}
  Zones = {z1}
  Listed <- MCListed
  Ids = {1, 2, 3}
  MaxLookups = 2
  MaxNet = 1
  Actions = {"NONE", "KLINE"}
  ExemptIPs = {good}
  FirstTimeout = 1
  Retries = 2
INVARIANTS
  LookupsTracked
  KlinedAreListed
PROPERTIES
  EveryLookupEnds
CHECK_DEADLOCK FALSE
