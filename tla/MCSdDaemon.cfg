SPECIFICATION Spec
CONSTANTS
  Pids <- MCPids
  Service = 1
  LastFd = 4
  IntMax = 7
  ULongMax = 8
  Absent = Absent
  AbsentV = Absent
  Malformed = Malformed
  MalformedV = Malformed
  Path = Path
  PidValues <- MCPidValues
  FdsValues <- MCFdsValues
  UnsetChoices = {TRUE, FALSE}
INVARIANTS
  NotPassedOn
  OneOwner
  EnvironmentClean
  NotifySocketOurs
PROPERTIES
  OwnFilesNotTaken
