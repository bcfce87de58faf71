\* Chunks of 1 to 3 bytes, a buffer of 2: chunks that fit, evict and never fit
\* and, with AppendTimeout, gaps; reads of at most 2 bytes; 2 bytes of
\* preallocation.
CONSTANTS
  BuffMax = 2
  DWord = 6
  CreateSize = 2
  ReadMax = 2
  WriteErrors = TRUE
  MaxFile = 6
  MaxChunk = 3
SPECIFICATION FairSpec
INVARIANTS
  TypeOK
  DeliveredIsPrefix
  BlocksMatchFile
  BuffAheadOfReader
  EofOnlyAfterFinish
  ExitSentAll
  BuffBounded
PROPERTIES
  FinishEndsSender
CHECK_DEADLOCK TRUE
