SPECIFICATION FairEventsSpec
CONSTANTS
  s1 = s1
  s2 = s2
  x = x
  y = y
  NoStructure = NoStructure
  VI <- TwoVIs
  Structure <- TwoStructures
  Owner <- Owners
  RegVar = {x, y}
  UserEvent <- Users
  ControlRef <- Controls
  ControlUID <- UIDs
  JSRef <- JavaScript
  Programs <- EventPrograms
  FirstSeq = 14
  SeqNumbers = 16
  MaxBehind = 3
CHECK_DEADLOCK FALSE
INVARIANTS
  EventsTypeOK
  NoStrandedEvent
  NothingStray
  Heard
PROPERTIES
  OldestFirst
  RightCase
  QueuedIsHandled
