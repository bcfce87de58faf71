\* Named pipe whose client goes away while the recording goes on.
CONSTANTS
  BuffMax = 2
  DWord = 6
  CreateSize = 0
  ReadMax = 2
  WriteErrors = FALSE
  MaxFile = 2
  MaxChunk = 2
  PipeSize = 2
  Mode_NamedPipe = TRUE
  AnonLaunches = {}
SPECIFICATION PSFairSpec
PROPERTIES
  WriteErrorQuits
CHECK_DEADLOCK TRUE
