SPECIFICATION Spec
CONSTANTS
  a = a
  b = b
  ab = ab
  o1 = o1
  o2 = o2
  w1 = w1
  w2 = w2
  k1 = k1
  rd = rd
  None = None
  NoOld = NoOld
  NoNew = NoNew
  NoLock = NoLock
  Ref = {a, b, ab}
  Oid = {o1, o2}
  Writer = {w1, w2}
  Packer = {}
  AutoCompact = {}
  Reader = {}
  Resident = {w1, w2}
  Parents <- NestedParents
  Transactions <- MixedTransactions
  InitStacks <- MixedStacks
  MaxInode = 8
  SureTries = 1
  MayTimeOut = TRUE
  MayFail = FALSE
  MayKill = FALSE
INVARIANTS UpdateIndexesIncrease OutcomeIsTruthful NoNameConflict
PROPERTIES RefinesRefStore
SYMMETRY Symmetry
CHECK_DEADLOCK FALSE
