\* Two clients, two writes of two keys in each life of the server.
CONSTANTS
  a = a
  b = b
  text = text
  Keys <- MCKeys
  Texts <- MCTexts
  MaxLL = 1
  SetValues <- MCTexts
  Ttls = {}
  Capacities = {}
  InitialCapacity = 2
  TicksPerSecond = 1
  TicksPerMillisecond = 1
  MaxEntries = 2
  MaxInstant = 0
  CounterModulus = 1
  None = None
  Never = Never
  Magic = Magic
  Unsaved = Unsaved
  MaxTime = 0
  MaxAccesses = 0
  Clients = {c1, c2}
  Requests <- MCRequests
  OK = OK
  Error = Error
  Nil = Nil
  MaxCommands = 2
  Backlog = 2
  SocketLimits = {1, 2}
SPECIFICATION ServerSpec
INVARIANTS
  ServerTypeOK
PROPERTIES
  SnapshotIsACutSinceTheSignal
  SignalEndsTheServer
  WaitingClientsAreAccepted
