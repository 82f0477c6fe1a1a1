CONSTANTS
  Win32 = FALSE
  AfterGC = FALSE
  MaxDepth = 4
SPECIFICATION Spec
INVARIANTS ErrorsCarryAPair
