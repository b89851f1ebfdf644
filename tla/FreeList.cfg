SPECIFICATION Spec
CONSTANTS
  FREEMAX = 3
  ISize = 2
  FSize = 11
INVARIANTS TypeOK NeverCorrupt EveryFreeBlockListed
PROPERTY Implements
