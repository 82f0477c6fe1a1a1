CONSTANTS
  Win32 = FALSE
  AfterGC = FALSE
  MaxDepth = 6
SPECIFICATION FairSpec
INVARIANTS TypeOK JumpsLand FlagsMean
PROPERTIES DeferredIsRaised
