SPECIFICATION EndingSpec
CONSTANTS
  Procs <- MCTwo
  Kinds = {"stream", "inherited", "opened"}
  Failures = {TRUE, FALSE}
  Dynamics = {TRUE, FALSE}
  Flags = {"plain", "push", "pop"}
  Calls = 3
  Pieces = 2
  Depth = 2
  Losses = 2
  A = A
  B = B
CONSTRAINT OneSubject
INVARIANTS
  TypeOK
  LinesDoNotMix
  IndentSound
PROPERTIES
  CallReturns
CHECK_DEADLOCK FALSE
