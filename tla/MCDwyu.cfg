SPECIFICATION DwyuSpec
CONSTANTS
  lib_a = lib_a  lib_b = lib_b  lib_c = lib_c  lib_d = lib_d
  self = self
  Invalid = Invalid
  Self = self
  Lib <- AllLibs
  Worlds <- AllWorlds
  MaxRuns = 2
INVARIANTS
  RemovalsAreSafe
  EditsComplete
  SecondRunIsQuiet
  MinimizedCovers
  IncludesKeepTheirLibrary
  WhatIsHandedOverIsTrue
