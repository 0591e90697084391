SPECIFICATION Spec
CONSTANTS
  d1 = d1
  d2 = d2
  t1 = t1
  t2 = t2
  x = x
  y = y
  z = z
  m1 = m1
  m2 = m2
  Docs = {d1, d2}
  Texts = {x, y, z}
  Models = {m1}
  Dim <- MCDim
  IndexDim = 2
  Backends = {"sqlite", "sqlite_like", "pgvector"}
  Tasks = {t1, t2}
  Uploads = {t2}
  Requests <- MCShared
  Seeds <- MCSeeds
  Versions = {"one", "two", "empty"}
  Content <- MCContent
PROPERTY BatchContinues
CHECK_DEADLOCK FALSE
