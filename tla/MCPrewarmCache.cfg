SPECIFICATION FairSpec
CONSTANTS
  r1 = r1  r2 = r2
  x = x  y = y
  Runner <- TwoRunners
  Path <- TwoPaths
  Torn = Torn
  Cancel = Cancel
  NoItem = NoItem
  NoFile = NoFile
  PointerCleared = TRUE
  MaxRuns = 2
  MaxAccesses = 2
INVARIANTS
  ShutdownIsLast
  NoUseAfterFree
  NoPathLoggedTwice
PROPERTIES
  ThePoolWindsDown
