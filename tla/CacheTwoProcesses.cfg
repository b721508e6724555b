\* Two processes share the directory: the cache file does not always load.
CONSTANTS
  c1 = c1
  c2 = c2
  p1 = p1
  p2 = p2
  p3 = p3
  t1 = t1
  t2 = t2
  t3 = t3
  i1 = i1
  i2 = i2
  i3 = i3
  i4 = i4
  None = None
  Clients <- TwoClients
  Procs <- TwoProcs
  ClientOf <- OneEach
  Tables <- TwoTables
  Inodes <- FourInodes
SPECIFICATION Spec
INVARIANTS
  CacheFileLoads
