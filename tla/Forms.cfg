SPECIFICATION FormsSpec
CONSTANTS
  s1 = s1
  s2 = s2
  m1 = m1
  r1 = r1
  p1 = p1
  p2 = p2
  k1 = k1
  k2 = k2
  Secrets = {s1, s2}
  Mails = {m1}
  Recipients = {r1}
  Readers = {p1}
  Lines = {k1, k2}
  Capacity = 1
  Lengths <- SetLengths
  Cap = 32
  Files <- TwoFiles
  Places = 1
  Ceiling = 4
  Faults = {"cut", "refused", "gateway", "garbled"}
  MaxPicks = 1
  MaxRuns = 3
  MaxFaults = 3
CONSTRAINT OneSent
CHECK_DEADLOCK FALSE
INVARIANTS
  SecretsHold
  ItemsInPlace
PROPERTIES
  FramesLand
  RunsEnd
