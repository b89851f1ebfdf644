SPECIFICATION Spec
CONSTANTS
  f1 = f1  f2 = f2  o1 = o1
  b1 = b1  b2 = b2  b3 = b3  b4 = b4
  Files <- MCFiles
  Ofts <- MCOfts
  Blocks <- MCBlocks
  BS = 2
  ND = 1
  LIM = 2
  NB = 4
  Room <- MCRoom
  Bytes = {1}
  Junk = 2
  MaxCount = 2
  Offsets = {3, 7}
SYMMETRY MCSymmetry
INVARIANT OnePlaceEach
PROPERTY Implements
