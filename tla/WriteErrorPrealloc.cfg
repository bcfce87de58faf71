\* The recorder's WriteFile may fail while two bytes of the file are
\* preallocated and not written.
CONSTANTS
  BuffMax = 3
  DWord = 6
  CreateSize = 2
  ReadMax = 2
  WriteErrors = TRUE
  MaxFile = 3
  MaxChunk = 2
SPECIFICATION Spec
INVARIANTS
  SendsOnlyWritten
