SPECIFICATION Spec
CONSTANTS
  Tasks = {t1, t2}
  Intents = {i1}
  MaxAutoRepair = 2
  MaxSilentRecovery = 1
  MaxOutside = 2
  None = None
  t1 = t1
  t2 = t2
  i1 = i1
CHECK_DEADLOCK FALSE
PROPERTIES
  BrokenKeepsCount
