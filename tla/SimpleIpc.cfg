SPECIFICATION FairSpec
CONSTANTS
  s1 = s1
  s2 = s2
  c1 = c1
  c2 = c2
  None = None
  Server = {s1, s2}
  Client = {c1, c2}
  nr_threads <- TwoAndOne
  QueueSize = 2
  Tries = 1
  MaxActors = 5
  MayDelete = TRUE
  MayKill = TRUE
INVARIANTS ServersDoNotSteal OneHolder
PROPERTIES ServersEnd ClientsEnd
CHECK_DEADLOCK FALSE
