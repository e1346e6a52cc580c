SPECIFICATION NestSpec
CONSTANTS
  Handlers = {h1, h2}
  Readers = {r1}
  Entities = {e1, e2, f1, f2, f3}
  Ids = {i0, i1, i2, i3, i4, o1, o2, o3}
  Titles = {t1, t2}
  Places = {1, 2, 3, 4, 5, 6}
  FolderAt <- NestFolders
  Requests <- NestRequests
  Past <- NestRows
  Keep = Keep
  Nobody = Nobody
  e1 = e1
  e2 = e2
  e3 = e3
  e4 = e4
  f0 = f0
  f1 = f1
  f2 = f2
  f3 = f3
  i0 = i0
  i1 = i1
  i2 = i2
  i3 = i3
  i4 = i4
  o1 = o1
  o2 = o2
  o3 = o3
  t1 = t1
  t2 = t2
INVARIANT FoldersStayATree
