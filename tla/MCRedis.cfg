CONSTANTS
  c1 = c1
  c2 = c2
  c3 = c3
  c4 = c4
  n1 = n1
  n2 = n2
  n3 = n3
  Calls = {c1, c2, c3, c4}
  Conns = {n1, n2, n3}
  Password = TRUE
  Auth = Auth
  None = None
  e1 = e1
  e2 = e2
  s1 = s1
  s2 = s2
  CachedRows = {e1, e2}
  Stores = {"json", "staged"}
  Syncs = {s1, s2}
  MaxChanges = 2
  MaxFailures = 2
  Missing = Missing
SPECIFICATION Spec
INVARIANTS ConnectionIsSound ValuesGoToTheirCallers SnapshotUnlessOverlap
PROPERTIES EveryCallSettles CatchesUp
