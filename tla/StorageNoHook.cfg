CONSTANTS
  HeapSize = 2
  NHeaps = 2
  HookMin = 2
  AfterGC = FALSE
  Reg = {x}
  Bitmap = {b1}
  MaxStack = 1
  MaxPend = 1
SPECIFICATION Spec
INVARIANTS NewcellTakesACell
PROPERTIES MissedOnce
