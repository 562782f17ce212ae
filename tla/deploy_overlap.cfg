SPECIFICATION FairSpec
CONSTANTS
  a = a
  b = b
  t = t
  u = u
  NumRuns = 2
  MaxFaults = 2
  Overlap = TRUE
  Commands <- Concurrent
  Labels <- MCLabels
  Suffixes <- MCSuffixes
  Nobody = Nobody
  Missing = Missing
  Operator = Operator
  NoFile = NoFile
  Torn = Torn
  Source = Source
  NoFlag = NoFlag
INVARIANTS
  CredentialsReady
PROPERTIES
  EveryRunEnds
CHECK_DEADLOCK FALSE
