SPECIFICATION MCSpec
CONSTANTS
  wide = wide
  narrow = narrow
  escaped = escaped
  range = range
  u1 = u1
  k1 = k1
  k2 = k2
  k3 = k3
  Kinds = {"kline"}
  Masks = {wide, narrow, range}
  Matches <- MCMatches
  Ranges <- MCRanges
  Clients = {u1}
  MaskOf <- MCMaskOf
  Exempt = {}
  Durations = {1}
  Permanent = 2
  KeepSpecific = FALSE
  MaxBans = 2
  MaxId = 3
  Window = 1
  MaxExempts = 1
SYMMETRY Symmetry
PROPERTIES
  BansExact
  ClonesCounted
CHECK_DEADLOCK FALSE
