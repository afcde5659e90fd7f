SPECIFICATION FairGroupSpec
CONSTANTS
  g1 = g1
  g2 = g2
  k1 = k1
  k2 = k2
  Name = {n1, n2}
  NoName = NoName
  Port = {1}
  MaxTry = 1
  Group = {g1, g2}
  Key = {k1, k2}
  Want = {0, 1}
  Ask <- MCAsk
  Obj = {o1, o2}
  NoObj = NoObj
  Ephemeral = {8}
INVARIANTS MembersAgree ServedPortIsUsed
PROPERTY WorkerNeverStuck
CHECK_DEADLOCK FALSE
