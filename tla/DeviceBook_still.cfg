SPECIFICATION Spec
CONSTANTS
  l1 = l1
  l2 = l2
  a1 = a1
  a2 = a2
  Lamps = {l1, l2}
  Addrs = {a1, a2}
  MaxOps = 1
  MaxCuts = 1
  MaxBind = 1
  MaxStored = 1
  Sent <- SentLists
  NULL = NULL
PROPERTIES OneEntry NoOrphans Settles
