SPECIFICATION ScenarioSpec
CONSTANTS
  Bookmarks = {b1, b2}
  Titles = {A, B, C}
  TitlesOf <- OwnTitles
  Folders = {P, Q}
  None = None
  Tasks = {t1}
  History <- OneBookmark
  Changes = {"create", "delete", "retitle", "move"}
  Lossy = TRUE
  MaxSilentRecovery = 2
  MaxLog = 4
  MaxEdits = 0
  MaxEvictions = 1
  MaxRebuilds = 1
  Scenarios = {"remote", "rebuild"}
  b1 = b1
  b2 = b2
  A = A
  B = B
  C = C
  P = P
  Q = Q
  t1 = t1
  t2 = t2
CHECK_DEADLOCK FALSE
INVARIANTS
  Converged
  ReceiptNext
