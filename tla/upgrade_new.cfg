SPECIFICATION Spec
CONSTANTS
  MasterCount = 3
  LinuxAgents = {l1, l2}
  WindowsAgents = {w1}
  InitialAgents = {l1}
  NoAgent = NoAgent
  TargetVersion = v2
  Torn = Torn
  CurrentVersion = v1
  HalfStates <- SwitchedLast
  FaultKinds <- AllFaults
  MaxFaults = 3
INVARIANTS
  MastersFirst
  UpgradedWhenDone
  OneMasterDown
  ResumesFromCheckpoint
PROPERTIES
  ImplementsRolling
CHECK_DEADLOCK FALSE
