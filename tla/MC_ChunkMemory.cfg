SPECIFICATION Spec
CONSTANTS
  Bytes = {0, 255}
  OP_LOOP = 0
  Blank = 255
  Locations = {l1, l2}
  Garbage = Garbage
  LocationSize = 2
  Smallest = 1
  MaxCapacity = 4
  MaxChunks = 2
INVARIANTS
  AllocatedCovers
PROPERTY
  ImplementsLog
