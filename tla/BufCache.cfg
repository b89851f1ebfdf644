SPECIFICATION Spec
CONSTANTS
  b1 = b1  b2 = b2  b3 = b3  d0 = d0  d1 = d1
  NoBlock = NoBlock
  Zero = d0
  NBUFS = 2
  Blocks <- ThreeBlocks
  Data <- TwoContents
  MaxHeld = 1
  ClockMod = 3
  DiskErrors = {"read", "write"}
SYMMETRY BlockSymmetry
INVARIANTS TypeOK OneBufferPerBlock SafeOnDisk
PROPERTY Implements
