CONSTANTS
  HeapSize = 1
  NHeaps = 2
  HookMin = 1
  AfterGC = TRUE
  Reg = {x}
  Bitmap = {b1, b2}
  MaxStack = 2
  MaxPend = 2
SPECIFICATION Spec
SYMMETRY Symmetry
INVARIANTS TypeOK StoreSound ImagesSound NewcellTakesACell
PROPERTIES NothingLost ObjectStoreSpec
\* NewcellNull ends the process.
CHECK_DEADLOCK FALSE
