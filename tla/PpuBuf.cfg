SPECIFICATION Spec
CONSTANTS
  BUF = 47
  DESC = 4
  READ = 64
  WRITE = 32
  VBLANK = 2273
  MAXCYCLES = 2200
  PERBANK = 2
  CELLS = 4
  NBANKS = 2
  Minors = {0, 2}
  Blks = {1, 2, 5, 10}
  Data = {x}
  COLS = 3
  LINE = 32
  VISROWS = 3
INVARIANTS OnceInOrder BlocksKept FrameFits
PROPERTY CallReturns
