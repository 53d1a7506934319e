SPECIFICATION FairSpec
CONSTANTS
  a = a
  b = b
  ab = ab
  o0 = o0
  o1 = o1
  o2 = o2
  w1 = w1
  w2 = w2
  k1 = k1
  rd = rd
  None = None
  NoOld = NoOld
  NoNew = NoNew
  NoLock = NoLock
  Ref = {a, b, ab}
  Oid = {o1}
  Writer = {w1, w2}
  Packer = {}
  Auto = {}
  Reader = {}
  Lister = {}
  Parents <- NestedParents
  Transactions <- NameTransactions
  InitStores <- NameStores
  Attempts = 3
  Retries = 3
  PruneFlags = {TRUE, FALSE}
  MayFail = TRUE
  MayKill = TRUE
INVARIANTS NoNameConflict LiveCommitsStayReferenced NothingLeftBehind
PROPERTIES EveryoneFinishes
CHECK_DEADLOCK FALSE
