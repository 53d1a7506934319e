SPECIFICATION Spec
CONSTANTS
  a = a
  b = b
  ab = ab
  o1 = o1
  o2 = o2
  w1 = w1
  w2 = w2
  k1 = k1
  rd = rd
  None = None
  NoOld = NoOld
  NoNew = NoNew
  NoLock = NoLock
  Ref = {a, b}
  Oid = {o1, o2}
  Writer = {w1}
  Packer = {k1}
  AutoCompact = {}
  Reader = {rd}
  Resident = {w1, rd}
  Parents <- FlatParents
  Transactions <- PlainTransactions
  InitStacks <- PlainStacks
  MaxInode = 8
  SureTries = 3
  MayTimeOut = FALSE
  MayFail = FALSE
  MayKill = FALSE
INVARIANTS ListedTablesExist CompactedTablesStay NoTableMissing NothingLeftBehind ReadIsCurrent
SYMMETRY Symmetry
CHECK_DEADLOCK FALSE
