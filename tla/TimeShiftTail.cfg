\* A file of three units in chunks of two, given free as a whole.
CONSTANTS
  CHUNK = 2
  DW = 5
  MaxSize = 3
  MaxErr = 2
  MaxOwner = 2
SPECIFICATION TSSpec
PROPERTIES
  WholeFileSent
\* The owner's calls are bounded.
CHECK_DEADLOCK FALSE
