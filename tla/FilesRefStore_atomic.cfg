SPECIFICATION Spec
CONSTANTS
  a = a
  b = b
  ab = ab
  o0 = o0
  o1 = o1
  o2 = o2
  w1 = w1
  w2 = w2
  k1 = k1
  rd = rd
  None = None
  NoOld = NoOld
  NoNew = NoNew
  NoLock = NoLock
  Ref = {a, b}
  Oid = {o0, o1, o2}
  Writer = {w1, w2}
  Packer = {k1}
  Auto = {}
  Reader = {}
  Lister = {}
  Parents <- FlatParents
  Transactions <- OnceTransactions
  InitStores <- OnceStores
  Attempts = 3
  Retries = 3
  PruneFlags = {TRUE, FALSE}
  MayFail = FALSE
  MayKill = FALSE
INVARIANTS ValueStableUnderLock SuccessIsComplete ReflogFollowsRef
PROPERTIES RefinesRefStore
SYMMETRY Symmetry
CHECK_DEADLOCK FALSE
