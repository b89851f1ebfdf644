SPECIFICATION Spec
CONSTANTS
  p1 = p1  p2 = p2  na = na  nb = nb
  NoName = NoName
  Procs <- TwoProcs
  InitProc = p1
  NI = 3
  Names <- TwoNames
  Nods <- SomeNods
  DataBlocks = {7}
  DIRMAX = 2
  UFTSIZE = 2
  OFTSIZE = 3
  ITABSIZE = 2
  MaxRefs = 8
  ICACHE = 1
  MaxSlips = 0
SYMMETRY NameSymmetry
INVARIANTS TypeOK OpenFilesShared InodesCounted OpenFilesExist LinksAreNames ClosedIsWritten NoPanic
CHECK_DEADLOCK FALSE
