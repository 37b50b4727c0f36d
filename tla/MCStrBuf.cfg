SPECIFICATION Spec
CONSTANTS
  SizeMax = 40
  Lengths = {0, 1, 2, 9, 10, 13, 14, 39, 40}
  MaxGiven = 1
INVARIANTS
  TypeOK
  MemorySafe
  TextIntact
  NoLeak
PROPERTY
  Refinement
CHECK_DEADLOCK FALSE
