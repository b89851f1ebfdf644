SPECIFICATION Spec
CONSTANTS
  p1 = p1  p2 = p2  o1 = o1
  Procs <- MCProcs
  Ofts <- MCOfts
  Nodes <- MCNodes
  Entries <- MCEntries
  Specials <- MCSpecials
  FileSystems = {0, 1, 2}
  NDEVS = 4
  DotNames = {"..", "x.c"}
  ITABSIZE = 6
  Paths <- MCPaths
  Longest = 3
SYMMETRY MCSymmetry
INVARIANTS RefsCounted MountsHeld NamesResolve
CHECK_DEADLOCK FALSE
