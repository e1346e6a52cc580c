SPECIFICATION FoldersRun
CONSTANTS
  w1 = w1
  w2 = w2
  t1 = t1
  t2 = t2
  Workspaces = {w1, w2}
  Tasks = {t1, t2}
  Path <- OwnTitles
  Legacy = "Shared Bookmarks"
  MaxEvents = 2
  v1 = v1
  v2 = v2
  v3 = v3
  v4 = v4
  k1 = k1
  k2 = k2
  Windows = {v1, v2, v3, v4}
  Browser = v1
  Calls = {k1, k2}
  MaxSteps = 4
  None = None
SYMMETRY Symmetry
CHECK_DEADLOCK FALSE
INVARIANTS
  FoldersHold
  WindowsHold
