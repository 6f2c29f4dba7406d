\* A number of seconds the clock cannot represent.
CONSTANTS
  Keys = {k1}
  Texts = {text}
  MaxLL = 1
  SetValues <- MCSetValues
  Ttls <- HugeTtls
  Capacities = {2}
  InitialCapacity = 2
  TicksPerSecond = 2
  MaxInstant = 7
  CounterModulus = 3
  None = None
  Never = Never
  MaxTime = 0
  MaxAccesses = 1
SPECIFICATION Spec
PROPERTIES
  SetWithTtlIsFound
