\* Every fragmentation of short streams, partial and failed sends.
CONSTANTS
  MaxArguments = 2
  MaxNumber = 99
  Numerals <- MCNumerals
  Streams <- MCStreams
  NoCommand = NoCommand
  BufferSize = 16
  ResponseLength = 2
SPECIFICATION FairConnectionSpec
INVARIANTS
  ConnectionTypeOK
  ExecutesWhatWasSent
  AnsweredInOrder
PROPERTIES
  EveryRequestAnswered
CHECK_DEADLOCK FALSE
