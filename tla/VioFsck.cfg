SPECIFICATION Spec
CONSTANTS
  NI = 5
  NL = 7
  ISize = 7
  FSize = 16
  IPB = 1
  IW = 2
  DirModes <- DirWords
  LinkAt = 32
  ND = 1
  NIND = 12
  EW = 2
  LostName <- Lost
  SEEN = 2
  FREEMAX = 2
  MAXDEPTH = 3
  Disks <- FullDirectory
  MaxRuns = 4
INVARIANT ReferencesFound
CHECK_DEADLOCK FALSE
