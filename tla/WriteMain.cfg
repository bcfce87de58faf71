\* A buffer of 2 bytes and up to 7 bytes in calls of 1 to 5: calls that fit, that
\* fill the buffer and leave a rest that fits or goes through, and calls that go
\* through at once.  The object is deleted in the end and nothing follows.
CONSTANTS
  CreateSize = 2
  writeBuffSize = 2
  DWord = 16
  MaxSaved = 7
  MaxSize = 5
SPECIFICATION WMSpec
INVARIANTS
  WMTypeOK
  SavedOnce
  ServersFollowFile
  ServersRunWithFile
  ClosedFileCut
CHECK_DEADLOCK FALSE
