CONSTANTS
  Handles = {a, b}
  NotImg = NotImg
  NotNum = NotNum
  NotList = NotList
  Bitmaps <- MCBitmaps
  Numbers = {0, 1, 2, 3, 4, 80}
  Levels = {0, 2, 450}
  Scales <- MCScales
  Sides = {0, 2, 3, 5}
  Lists <- MCLists
  DithLists <- MCDithLists
  MaxCalls = 2
SYMMETRY MCSymmetry
SPECIFICATION Spec
CHECK_DEADLOCK FALSE
INVARIANTS TypeOK DitherSound
PROPERTIES CleanFailure FiltersAsPromised
