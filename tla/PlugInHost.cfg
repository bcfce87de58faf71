\* Three loaders and four ids of which three are looked at: the ids wrap around
\* soon and the search meets up to two used ones, the most it can.
CONSTANTS
  l1 = l1
  l2 = l2
  l3 = l3
  Loaders = {l1, l2, l3}
  NoInstance = NoInstance
  MaxId = 4
  MaxTries = 3
SPECIFICATION PHSpec
INVARIANTS
  OwnInstance
  NothingLeftBehind
PROPERTY
  ImplementsOwnRecorder
