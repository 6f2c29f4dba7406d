\* Two clients, three commands of any kind between them, over one tick of time.
CONSTANTS
  a = a
  b = b
  text = text
  Keys <- MCKeys
  Texts <- MCTexts
  MaxLL = 1
  SetValues = {1}
  Ttls = {1}
  Capacities = {1}
  InitialCapacity = 1
  TicksPerSecond = 1
  MaxInstant = 3
  CounterModulus = 8
  None = None
  Never = Never
  MaxTime = 1
  MaxAccesses = 3
  Clients = {c1, c2}
  Requests <- MCRequests
  OK = OK
  Error = Error
  Nil = Nil
  MaxCommands = 3
CHECK_DEADLOCK FALSE
VIEW WithoutReply
SPECIFICATION HandlerSpec
INVARIANTS
  CommandHandlerTypeOK
  InfoMissesOnlyCommandsUnderWay
  AnalyzeListsWhatItCounts
PROPERTIES
  ImplementsAtomicStore
