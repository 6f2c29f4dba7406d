\* Every sequence of calls over four ticks of time, in a cache of two or none.
CONSTANTS
  Keys = {k1, k2, k3}
  Texts = {text}
  MaxLL = 1
  SetValues <- MCSetValues
  Ttls <- MCTtls
  Capacities = {0, 2}
  InitialCapacity = 2
  TicksPerSecond = 2
  MaxInstant = 7
  CounterModulus = 2
  None = None
  Never = Never
  MaxTime = 4
  MaxAccesses = 1
SYMMETRY Symmetry
VIEW WithoutReply
SPECIFICATION Spec
INVARIANTS
  TypeOK
  MapAndListAgree
  KeysAccountedFor
PROPERTIES
  DeadlineIsFinal
  DeadlinesMoveOnRequest
  TtlAnswersAreHonest
  EvictsLeastRecentlyUsed
