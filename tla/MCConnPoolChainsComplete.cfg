SPECIFICATION Spec
SYMMETRY Symmetry
CHECK_DEADLOCK FALSE
CONSTANTS
  Threads = {t1, t2}
  Nobody = Nobody
  Objs = {o1, o2, o3}
  Null = Null
  Ctx = Ctx
  Requests = {0, 2}
  Driven = {"CONNECTING"}
  NumBuckets = 2
  NumLocks = 2
  MaxConn = 1
  MaxRefs = 1
  MaxContexts = 1
INVARIANTS
  ChainsComplete
