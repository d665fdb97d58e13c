SPECIFICATION EventsSpec
CONSTANTS
  s1 = s1
  s2 = s2
  x = x
  y = y
  NoStructure = NoStructure
  VI <- TwoVIs
  Structure <- TwoStructures
  Owner <- Owners
  RegVar = {x, y}
  UserEvent <- Users
  ControlRef <- Controls
  ControlUID <- UIDs
  JSRef <- JavaScript
  Programs <- TwoEvents
  FirstSeq = 14
  SeqNumbers = 16
  MaxBehind = 3
CHECK_DEADLOCK FALSE
PROPERTY
  ListeningEnds
