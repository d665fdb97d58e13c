SPECIFICATION SyncSpec
CONSTANTS
  a = a  b = b  c = c  o = o  q = q
  NoClump = NoClump
  Instruction <- Instructions
  Clump <- Clumps
  TopVI = {a}
  FireCount <- OneTrigger
  Programs <- WaitingPrograms
  Occurrence = {o}
  Queue = {q}
  MaxSize <- SizeOne
  Forever = 1000
  MaxHostCalls = 2
INVARIANT SyncTypeOK
INVARIANT OnePlaceOrTimer
INVARIANT NoLostWakeup
INVARIANT WokenByOneOnly
CHECK_DEADLOCK FALSE
