SPECIFICATION Spec
CONSTANTS
  svc = svc
  n0 = n0
  Users = {svc, u1, u2, u3}
  Nicks = {n0, n1, n2, n3}
  Servers = {s1, s2, s3}
  Me = me
  Channels = {c1}
  Services = {svc}
  ServiceNick <- MCServiceNick
  None = None
SYMMETRY Symmetry
INVARIANTS
  TablesAgree
  CountersOK
  ServicesKeepNicks
PROPERTIES
  EmptyChannelsDie
  HeldNickGoesToEnforcer
