SPECIFICATION QueueRefsSpec
CONSTANTS
  v1 = v1  v2 = v2
  n1 = n1  n2 = n2
  VI <- TwoVIs
  Name <- TwoNames
  MagicNumbers = 8
  MaxIndex = 2
  FirstMagics <- EarlyAndLate
  MaxObtains = 4
INVARIANT QueueRefsTypeOK
INVARIANT FreeListComplete
INVARIANT CountsMatchAliases
INVARIANT NothingLeft
PROPERTY CleanupSparesOthers
CHECK_DEADLOCK FALSE
