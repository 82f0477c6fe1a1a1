CONSTANTS
  Names <- MCNames
  Dim = 2
  LongBits = 30
  Hash <- MCHash
  AfterGC = TRUE
  MaxSymbols = 3
  MaxCalls = 3
SPECIFICATION Spec
INVARIANTS TypeOK TableSound InsideForAscii
PROPERTIES SameAnswer
CHECK_DEADLOCK FALSE
