\* StopSave may fail to write the buffer and reports success; DeleteCtrl follows it.
CONSTANTS
  CreateSize = 0
  writeBuffSize = 2
  DWord = 16
  MaxSaved = 2
  MaxSize = 2
SPECIFICATION WMSpec
PROPERTIES
  SavedOrTold
CHECK_DEADLOCK FALSE
