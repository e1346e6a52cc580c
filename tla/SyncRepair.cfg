SPECIFICATION Spec
CONSTANTS
  Bookmarks = {b1, b2}
  Titles = {A, B, C}
  TitlesOf <- OwnTitles
  Folders = {P}
  None = None
  Tasks = {t1}
  History <- OneBookmark
  Changes = {"retitle"}
  Lossy = TRUE
  MaxSilentRecovery = 1
  MaxLog = 3
  MaxEdits = 0
  MaxEvictions = 1
  MaxRebuilds = 1
  b1 = b1
  b2 = b2
  A = A
  B = B
  C = C
  P = P
  Q = Q
  t1 = t1
  t2 = t2
CHECK_DEADLOCK FALSE
INVARIANT LiveIsComplete
