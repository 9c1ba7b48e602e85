SPECIFICATION MCSpec
CONSTANTS
  CS = CS
  x1 = x1
  x2 = x2
  h1 = h1
  None = None
  SENDQSIZE = 3
  LineMax = 2
  sendq_limit = 8
  Streams <- MCStreams
  Lengths = {0, 1, 2, 5}
  MaxAsked <- MCMaxAsked
  NL = "nl"
INVARIANTS
  SplitOK
  VersionsAgree
  CommandsHold
PROPERTIES
  Implements
  QueueDrains
CHECK_DEADLOCK FALSE
