SPECIFICATION FairSyncSpec
CONSTANTS
  a = a  b = b  c = c  o = o  q = q
  NoClump = NoClump
  Instruction <- Instructions
  Clump <- Clumps
  TopVI = {a}
  FireCount <- OneTrigger
  Programs <- FinishingPrograms
  Occurrence = {o}
  Queue = {q}
  MaxSize <- SizeTwo
  Forever = 1000
  MaxHostCalls = 1
PROPERTY TimedWaitsEnd
PROPERTY EveryoneFinishes
