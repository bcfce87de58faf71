\* Anonymous pipe of 1 byte: a write of 2 bytes blocks.
CONSTANTS
  BuffMax = 3
  DWord = 6
  CreateSize = 0
  ReadMax = 2
  WriteErrors = TRUE
  MaxFile = 5
  MaxChunk = 2
  PipeSize = 1
  Mode_NamedPipe = FALSE
  AnonLaunches = {"ok", "noprocess", "nopipe"}
SPECIFICATION ClientFairSpec
INVARIANTS
  ClientLeftAll
PROPERTIES
  StopReturns
  ClientGetsAll
CHECK_DEADLOCK TRUE
