SPECIFICATION RetrievalSpec
CONSTANTS
  r1 = r1
  Readers = {r1}
  Queries <- MCQueries
  TopK = 2
  Alpha = 65
  d1 = d1
  d2 = d2
  t1 = t1
  t2 = t2
  x = x
  y = y
  z = z
  m1 = m1
  m2 = m2
  Docs = {d1, d2}
  Texts = {x, y}
  Models = {m1}
  Dim <- MCDim
  IndexDim = 2
  Backends = {"sqlite", "pgvector"}
  Tasks = {t1, t2}
  Uploads = {t2}
  Requests <- MCApart
  Seeds <- MCOneSeed
  Versions = {"one", "two", "empty"}
  Content <- MCShort
PROPERTIES
  FoundInStore
  StableFound
  FusedByRank
  Replaces
CHECK_DEADLOCK FALSE
