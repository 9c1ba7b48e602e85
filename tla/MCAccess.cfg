CONSTANTS
    a1 = a1
    a2 = a2
    g1 = g1
    c1 = c1
    c2 = c2
    MS = MS
    None = None
    Accounts <- MCAccounts
    Groups <- MCGroups
    Channels <- MCChannels
    Flags <- MCFlags
    FounderFlags <- MCFounder
    Founder0 <- MCFounder
    Changes <- MCChanges
    Roles <- MCRoles
    DefaultRole <- MCDefaultRole
    RoleLevels <- MCRoleLevels
    maxchans = 2
    maxfounders = 2
    maxchanacs = 2
SPECIFICATION MCSpec
SYMMETRY Symmetry
CONSTRAINT Small
INVARIANTS
  FoundersManage
  NoDangling
PROPERTIES
  WithinOwnAccess
  MemosKept
CHECK_DEADLOCK FALSE
