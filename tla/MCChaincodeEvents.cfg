CONSTANTS
  MaxBlocks = 2
  BlockSize = 2
  MaxBreaks = 1
SPECIFICATION FairSpec
INVARIANTS
  TypeOK
  EventsOnceInOrder
  NoEventMissed
PROPERTIES
  EventsArrive
CHECK_DEADLOCK FALSE
