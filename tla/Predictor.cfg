\* Every order of up to 30 reads of a hot key, 3 of a warm and 2 of a cold one.
CONSTANTS
  hot = hot
  warm = warm
  cold = cold
  Keys <- MCKeys
  MaxReads <- MCMaxReads
SPECIFICATION Spec
INVARIANTS
  TypeOK
  RecencySaturates
  TopPredictionsAreTheBest
PROPERTIES
  ReadingFavoursTheReadKey
