SPECIFICATION BackendSpec
CONSTANTS
  u1 = u1
  u2 = u2
  o1 = o1
  i1 = i1
  t1 = t1
  t2 = t2
  a = a
  b = b
  s1 = s1
  s2 = s2
  Users = {u1, u2}
  Orgs = {o1}
  Invitations = {i1}
  Txs = {t1, t2}
  MaxSteps = 3
  None = None
  Clients = {a, b}
  Connections = {s1, s2}
  ClientOf <- TwoSockets
  UserOf <- OneUser
  Capacity = 1
  MaxLog = 2
CHECK_DEADLOCK FALSE
INVARIANTS
  OwnerKept
  SomeoneMoves
  HubDelivers
PROPERTIES
  JoinsAreLive
  SettledOnce
  Served
