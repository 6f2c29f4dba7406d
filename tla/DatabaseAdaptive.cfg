\* Three keys, room for two: which one does a write let go of?
CONSTANTS
  Keys = {k1, k2, k3}
  Texts = {text}
  MaxLL = 1
  SetValues <- MCSetValues
  Ttls = {}
  Capacities = {2}
  InitialCapacity = 2
  TicksPerSecond = 2
  MaxInstant = 7
  CounterModulus = 3
  None = None
  Never = Never
  MaxTime = 0
  MaxAccesses = 3
SPECIFICATION Spec
PROPERTIES
  EvictsLeastValuable
