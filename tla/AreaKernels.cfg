CONSTANTS
  Height = 4
  Width = 3
  Side = 3
  Word = 16
  Pixel <- Mixed
  Images <- MixedImages
  Kernel <- MCKernel
  Buffers = 3
  Rollback = "while"
  Unset = Unset
SPECIFICATION FairSpec
INVARIANTS TypeOK FilterSound MemorySound Normalised Morphology
PROPERTIES Terminates
