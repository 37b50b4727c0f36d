SPECIFICATION Spec
CONSTANTS
  Heads = {h1, h2}
  Entries = {e1, e2, e3}
  LIST_POISON0 = LIST_POISON0
  LIST_POISON1 = LIST_POISON1
  NoList = NoList
  NoCall = NoCall
  DEBUG_LIST = TRUE
  MoveLast = TRUE
INVARIANT
  NoAssertionFails
