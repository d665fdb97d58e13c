SPECIFICATION FairSpec
CONSTANTS
  a = a  b = b  s = s  t = t  p = p  j = j
  NoClump = NoClump
  Instruction <- Instructions
  Clump <- AllClumps
  TopVI = {a, b}
  FireCount <- FireCounts
  Programs <- SchedulerPrograms
INVARIANT SchedTypeOK
INVARIANT OnePlace
INVARIANT CallersAtTheirCall
INVARIANT AssertsHold
INVARIANT TriggersLeft
INVARIANT FinishedMeansDone
PROPERTY ReadyRuns
PROPERTY StartedFinishes
