SPECIFICATION StreamSpec
CONSTANTS
  SizeMax = 40
  Lengths = {1, 40}
  MaxGiven = 1
  U16 = 1
  U32 = 2
  U64 = 3
  Strings = {0, 2}
  MaxItems = 2
  U32Max = 40
  Garbage = {0, 1, 40}
  Rooms = {0, 2, 3}
  Sources = {"mem"}
  MemoryShort = FALSE
INVARIANT
  OrderIsEnough
CHECK_DEADLOCK FALSE
