\* Every sequence of calls, and up to three reads, on three keys and "".
CONSTANTS
  k1 = k1
  k2 = k2
  k3 = k3
  Empty = Empty
  Keys <- MCKeys
  Capacities = {0, 1, 3}
  MaxAccesses = 3
SYMMETRY Symmetry
SPECIFICATION Spec
INVARIANTS
  TypeOK
  ListAndMapAgree
PROPERTIES
  ReadKeysOutliveUnread
  SilentEvictionsExplained
  WorstLeaveFirst
