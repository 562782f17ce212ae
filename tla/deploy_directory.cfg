SPECIFICATION Spec
CONSTANTS
  a = a
  b = b
  t = t
  u = u
  NumRuns = 2
  MaxFaults = 1
  Overlap = FALSE
  Commands <- NamedByFlag
  Labels <- MCLabels
  Suffixes <- MCSuffixes
  Nobody = Nobody
  Missing = Missing
  Operator = Operator
  NoFile = NoFile
  Torn = Torn
  Source = Source
  NoFlag = NoFlag
INVARIANTS
  OneClusterPerDirectory

CHECK_DEADLOCK FALSE
