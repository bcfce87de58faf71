SPECIFICATION DataSpec
CONSTANTS
  CMD_VER = 5
  Lengths = {0, 2}
  Absent = Absent
  Classes <- MCClasses
  LastID = 4
  HalfID = 2
  Samples <- MCSamples
  When <- MCWhen
  Folders = {"f", "g", "p"}
  BrokenNames = {"broken"}
  KeepCount = 1
  MaxItems = 2
  SectionSizes <- MCSectionSizes
  Unbounded = {1, 3}
  PayloadSize = 20
  FieldSizes = {7}
  CounterMod = 4
  MaxLost = 2
  CHUNK = 2
  DW = 4
  MaxSize = 4
  MaxErr = 2
  MaxOwner = 4
INVARIANTS
  CommandsDeliver
  ReloadRestores
  EventListIsCurrent
  SectionsArrive
  ReadFitsBuffer
  SentWithinAvailable
PROPERTIES
  FileReplacedWhole
  AllAvailableSent
\* The calls are bounded, and the data come to an end.
CHECK_DEADLOCK FALSE
