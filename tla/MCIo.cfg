SPECIFICATION FairSpec
CONSTANTS
  Header = 2
  U32Max = 4
  Lengths = {0, 1, 3, 4}
  Rooms = {0, 1, 4, 5}
  Capacity = 3
  MaxStrings = 3
INVARIANTS
  StreamInOrder
  BufferFits
PROPERTIES
  Refinement
  AckedIsDelivered
  EndIsNoticed
CHECK_DEADLOCK FALSE
