SPECIFICATION FairSpec
CONSTANTS
  v1 = v1
  v2 = v2
  v3 = v3
  r1 = r1
  r2 = r2
  Calls = {1, 2, 3, 4}
  VMs <- MCVMs
  Roles <- MCRoles
  Name <- OneTwice
  Machine <- WithBlob
  MaxFaults = 2
INVARIANTS
  TypeOK
  LiveVMsIntact
  SuccessIsClean
  ReportExact
  UnreportedAreGone
PROPERTIES
  AlwaysReturns
  ImplementsRemoval
CHECK_DEADLOCK FALSE
