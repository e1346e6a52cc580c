SPECIFICATION FairSpec
CONSTANTS
  Folders = {f1, f2}
  Bookmarks = {b1}
  MaxRecoveries = 1
  MaxEvents = 5
  MaxActs = 1
CHECK_DEADLOCK FALSE
PROPERTY CatchesUp
