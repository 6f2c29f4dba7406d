\* Saves, crashes and restarts around every sequence of writes and deadlines.
CONSTANTS
  Keys = {k1, k2}
  Texts = {t1, t2}
  MaxLL = 1
  SetValues <- MCSetValues
  Ttls = {1}
  Capacities = {2}
  InitialCapacity = 1
  TicksPerSecond = 3
  TicksPerMillisecond = 2
  MaxEntries = 2
  MaxInstant = 7
  CounterModulus = 1
  None = None
  Never = Never
  Magic = Magic
  Unsaved = Unsaved
  MaxTime = 3
  MaxAccesses = 0
SYMMETRY Symmetry
VIEW WithoutReply
SPECIFICATION PersistenceSpec
INVARIANTS
  PersistenceTypeOK
  MapAndListAgree
PROPERTIES
  RestoresWhatWasSaved
