SPECIFICATION QueueRefsSpec
CONSTANTS
  v1 = v1  v2 = v2
  n1 = n1  n2 = n2
  VI <- TwoVIs
  Name <- TwoNames
  MagicNumbers = 16
  MaxIndex = 1
  FirstMagics <- OnlyEarly
  MaxObtains = 4
INVARIANT AliasIsNoRefNum
CHECK_DEADLOCK FALSE
