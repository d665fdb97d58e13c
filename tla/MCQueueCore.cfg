SPECIFICATION QueueSpec
CONSTANTS
  x = x  y = y  z = z
  Element <- Elements3
  NoElement = NoElement
  MaxSizes <- EveryMaxSize
  Memory = 4
INVARIANT IndexesAgree
PROPERTY IsADeque
PROPERTY CountsAsAssumed
