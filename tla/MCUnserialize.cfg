SPECIFICATION FairSpec
CONSTANTS
  SizeMax = 40
  Lengths = {40}
  MaxGiven = 1
  U16 = 1
  U32 = 1
  U64 = 2
  Strings = {0, 2}
  MaxItems = 2
  U32Max = 40
  Garbage = {40}
  Rooms = {0, 2, 3}
  Sources = {"mem", "generic", "fd"}
  MemoryShort = TRUE
INVARIANTS
  BlocksSafe
  RoundTrip
  RefusalsAreJust
  NothingLost
PROPERTIES
  CallReturns
CHECK_DEADLOCK FALSE
