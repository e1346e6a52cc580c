SPECIFICATION SessionsSpec
CONSTANTS
  r1 = r1
  r2 = r2
  t1 = t1
  t2 = t2
  u1 = u1
  u2 = u2
  o1 = o1
  o2 = o2
  i1 = i1
  i2 = i2
  c1 = c1
  c2 = c2
  None = None
  Requests = {r1, r2}
  MaxLogins = 2
  MaxEvents = 5
  Tasks = {t1, t2}
  MaxAttempts = 2
  MaxSocketEvents = 3
  Users = {u1, u2}
  Orgs = {o1, o2}
  First = u1
  FirstOrg = o1
  ClientIds = {i1, i2}
  Slots = {c1, c2}
  MaxSteps = 5
CHECK_DEADLOCK FALSE
INVARIANTS
  TokenRenews
  OneSocket
  OneAccountShown
PROPERTIES
  EndsForCause
  Quiesces
