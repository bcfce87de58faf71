\* Named pipe: the pipe holds one chunk of 2 bytes, the buffer too.
CONSTANTS
  BuffMax = 3
  DWord = 6
  CreateSize = 1
  ReadMax = 2
  WriteErrors = FALSE
  MaxFile = 5
  MaxChunk = 2
  PipeSize = 2
  Mode_NamedPipe = TRUE
  AnonLaunches = {}
SPECIFICATION PSFairSpec
INVARIANTS
  ClientSeesCursor
  ClientReadsPrefix
  QuitHandleLive
PROPERTIES
  ImplementsFileReader
  ImplementsVirtualFile
  StopReturns
CHECK_DEADLOCK TRUE
