SPECIFICATION Spec
CONSTANTS
  a1 = a1
  a2 = a2
  Clients = {c1, c2}
  Accounts = {a1, a2}
  Challenged = {c1}
  maxlogins = 1
  LogoutKills = FALSE
  MaxGen <- MCMaxGen
  None = None
INVARIANT FrozenStaysOut
