SPECIFICATION Spec
CONSTANTS
  None = None
  Off = Off
  SimpleModes = {"i", "P"}
  PermModes = {"P"}
  Slots = {"l"}
  Values = {5}
  Keys = {"k1", "k2"}
  Lists = {"ban"}
  Locks <- MCLocks
  OurChanges <- MCOurs
  TheirChanges <- MCTheirs
  MAXMODES = 2
  MaxSent = 4
  MaxQueue = 2
  MaxChanges = 4
INVARIANTS
  ServerFollows
  MlockHolds
CHECK_DEADLOCK FALSE
