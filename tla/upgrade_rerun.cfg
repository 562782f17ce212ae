SPECIFICATION FairSpec
CONSTANTS
  MasterCount = 3
  LinuxAgents = {l1}
  WindowsAgents = {w1}
  InitialAgents = {l1}
  NoAgent = NoAgent
  TargetVersion = v2
  Torn = Torn
  CurrentVersion = v1
  HalfStates <- SwitchedLast
  FaultKinds <- Recoverable
  MaxFaults = 1
PROPERTIES
  RerunSucceeds
CHECK_DEADLOCK FALSE
