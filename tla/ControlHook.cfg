CONSTANTS
  Win32 = TRUE
  AfterGC = TRUE
  MaxDepth = 5
SPECIFICATION Spec
INVARIANT JumpsLand
