\* Anonymous pipe, nothing assumed of the client.
CONSTANTS
  BuffMax = 2
  DWord = 6
  CreateSize = 0
  ReadMax = 2
  WriteErrors = FALSE
  MaxFile = 2
  MaxChunk = 2
  PipeSize = 1
  Mode_NamedPipe = FALSE
  AnonLaunches = {"ok"}
SPECIFICATION PSFairSpec
PROPERTIES
  StopReturns
CHECK_DEADLOCK TRUE
