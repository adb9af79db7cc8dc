SPECIFICATION EditsSpec
CONSTANTS
  lib_a = lib_a  lib_b = lib_b  lib_c = lib_c  lib_d = lib_d
  self = self
  Invalid = Invalid
  Self = self
  Lib <- AllLibs
  Worlds <- WorldsOfAlternatives
  MaxRuns = 1
INVARIANTS
  BuildStaysComplete
