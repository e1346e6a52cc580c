SPECIFICATION TreeSpec
CONSTANTS
  f1 = f1
  f2 = f2
  b1 = b1
  Folders = {f1, f2}
  Bookmarks = {b1}
  MaxRecoveries = 1
  MaxEvents = 4
  MaxActs = 2
  q1 = q1
  q2 = q2
  folder = folder
  p1 = p1
  p2 = p2
  a1 = a1
  a2 = a2
  c1 = c1
  wa = wa
  wb = wb
  Queries = {q1, q2}
  Nothing = Nothing
  SearchFolders = {folder}
  Answer <- AnswerOf
  Workspaces = {wa, wb}
  Managed <- ManagedOf
  Cap = 2
  Pages = {"popup", "options"}
  Queue = 2
  MaxSteps = 4
  None = None
  g1 = g1
  g2 = g2
  d1 = d1
  d2 = d2
  PanelFolders = {g1, g2}
  PanelBookmarks = {d1, d2}
  FirstTree <- TreeShown
  Budgets <- TwoBudgets
SYMMETRY Symmetry
CONSTRAINT Bounded
CHECK_DEADLOCK FALSE
INVARIANTS
  TreeMirrors
  TreeShownAtRest
  PagesTell
PROPERTIES
  LocalOnlyKept
  LandsWhereDropped
