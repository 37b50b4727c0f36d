SPECIFICATION LoopSpec
CONSTANTS
  Heads = {h1, h2}
  Entries = {e1, e2, e3}
  LIST_POISON0 = LIST_POISON0
  LIST_POISON1 = LIST_POISON1
  NoList = NoList
  NoCall = NoCall
  Nothing = Nothing
  DEBUG_LIST = TRUE
  MoveLast = FALSE
INVARIANTS
  NoAssertionFails
  OnItsList
  VisitsAll
PROPERTIES
  QuietLoopEnds
