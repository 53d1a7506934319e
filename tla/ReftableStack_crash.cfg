SPECIFICATION FairSpec
CONSTANTS
  a = a
  b = b
  ab = ab
  o1 = o1
  o2 = o2
  w1 = w1
  w2 = w2
  k1 = k1
  rd = rd
  None = None
  NoOld = NoOld
  NoNew = NoNew
  NoLock = NoLock
  Ref = {a, b}
  Oid = {o1, o2}
  Writer = {w1}
  Packer = {k1}
  AutoCompact = {k1}
  Reader = {}
  Resident = {w1}
  Parents <- FlatParents
  Transactions <- PlainTransactions
  InitStacks <- ShortStacks
  MaxInode = 8
  SureTries = 3
  MayTimeOut = FALSE
  MayFail = TRUE
  MayKill = TRUE
INVARIANTS ListedTablesExist
PROPERTIES EveryoneFinishes
CHECK_DEADLOCK FALSE
