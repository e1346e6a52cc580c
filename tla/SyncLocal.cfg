SPECIFICATION ScenarioSpec
CONSTANTS
  Bookmarks = {b1}
  Titles = {A, B, C}
  TitlesOf <- OwnTitles
  Folders = {P, Q}
  None = None
  Tasks = {t1, t2}
  History <- OneBookmark
  Changes = {"retitle", "delete", "move"}
  Lossy = TRUE
  MaxSilentRecovery = 1
  MaxLog = 3
  MaxEdits = 2
  MaxEvictions = 1
  MaxRebuilds = 0
  Scenarios = {"local", "receipt", "overlap"}
  b1 = b1
  b2 = b2
  A = A
  B = B
  C = C
  P = P
  Q = Q
  t1 = t1
  t2 = t2
CHECK_DEADLOCK FALSE
PROPERTIES
  IntentKept
  ConsumptionProves
  CursorMonotone
