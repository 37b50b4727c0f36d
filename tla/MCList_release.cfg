SPECIFICATION Spec
CONSTANTS
  Heads = {h1, h2}
  Entries = {e1, e2, e3}
  LIST_POISON0 = LIST_POISON0
  LIST_POISON1 = LIST_POISON1
  NoList = NoList
  NoCall = NoCall
  DEBUG_LIST = FALSE
  MoveLast = FALSE
INVARIANTS
  TypeOK
  WellLinked
  QueriesAgree
PROPERTY
  Refinement
