SPECIFICATION Spec
CONSTANTS
  a = a
  b = b
  t = t
  u = u
  NumRuns = 3
  MaxFaults = 2
  Overlap = FALSE
  Commands <- Sequential
  Labels <- MCLabels
  Suffixes <- MCSuffixes
  Nobody = Nobody
  Missing = Missing
  Operator = Operator
  NoFile = NoFile
  Torn = Torn
  Source = Source
  NoFlag = NoFlag
INVARIANTS
  KeyKept
  SuccessIsOnDisk
PROPERTIES
  NothingOverwritten
CHECK_DEADLOCK FALSE
