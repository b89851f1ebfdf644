SPECIFICATION PipeSpec
CONSTANTS
  Readers = {r1, r2}
  Writers = {w1, w2}
  BS = 2
  RING = 2
  CAPACITY = 1
  MaxCount = 3
  MaxBytes = 5
CHECK_DEADLOCK FALSE
INVARIANTS PipeTypeOK Fifo NobodyForgotten
PROPERTY EndIsSeen
