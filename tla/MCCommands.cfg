SPECIFICATION CommandsSpec
CONSTANTS
  p = p
  q = q
  x = x
  Package = {p, q, x}
  External = {x}
  Worlds <- TheWorlds
  Commands <- kCommandNames
  Patterns <- ThePatterns
  Depths <- TheDepths
  Unlimited = 10
  MaxInt = 10
  CommandLines <- TheCommandLines
  Valid <- IsValid
  Accessible = {"dir", "out"}
  Checkouts <- TheCheckouts
  CharRank <- TheRank
INVARIANTS
  EveryPackageIsElaboratedOnce
  CommandsReachFarEnough
  TheCommandIsDoneAsTyped
  ProjectsAreAsDeclared
CHECK_DEADLOCK FALSE
