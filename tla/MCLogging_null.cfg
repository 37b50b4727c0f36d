SPECIFICATION FairSpec
CONSTANTS
  Procs <- MCTwo
  Kinds = {"inherited"}
  Failures = {FALSE}
  Dynamics = {FALSE}
  Flags = {"plain"}
  Calls = 1
  Pieces = 2
  Depth = 0
  Losses = 0
  A = A
  B = B
PROPERTIES
  NullOnlyPushesAndPops
CHECK_DEADLOCK FALSE
