SPECIFICATION FairSpec
CONSTANTS
  MasterCount = 3
  LinuxAgents = {l1}
  WindowsAgents = {w1}
  InitialAgents = {l1}
  NoAgent = NoAgent
  TargetVersion = v2
  Torn = Torn
  CurrentVersion = v2
  HalfStates <- SwitchedEarly
  FaultKinds <- Recoverable
  MaxFaults = 3
INVARIANTS
  TypeOK
  FreshInputs
  LinuxScriptFresh
  WindowsNeverStale
PROPERTIES
  RerunSucceeds
CHECK_DEADLOCK FALSE
