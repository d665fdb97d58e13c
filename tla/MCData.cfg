SPECIFICATION DataSpec
CONSTANTS
  Variable <- VariableLength
  Default = 0
  Junk <- MinusNine
  Unwired <- MinusTen
  NaN <- MinusEleven
  Infinity <- MinusTwelve
  Twin <- Twins
  FirstHeaps <- Heaps
  Calls <- DataCalls
  MaxLength = 60
CHECK_DEADLOCK FALSE
INVARIANTS
  DataTypeOK
  NothingUninitialized
PROPERTIES
  ArraysAsDefined
  StringsAsDefined
  SameInPlace
  
