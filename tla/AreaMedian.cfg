CONSTANTS
  Height = 6
  Width = 1
  Side = 5
  Word = 16
  Pixel <- Level
  Images <- TwoLevels
  Kernel <- MCKernel
  Buffers = 6
  Rollback = "goto"
  Unset = Unset
SPECIFICATION Spec
INVARIANTS MemorySound
