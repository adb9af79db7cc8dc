SPECIFICATION FrontEndSpec
CONSTANTS
  ScannedContents <- AllContents
  Inputs <- AllInputs
  Continuations <- Additions
  Files <- SomeFiles
  CustomFlags <- Flags
  PackageFiles <- Directory
  Matching <- Patterns
  RulesOfInterest = {}
  AllowEmptyName = FALSE
INVARIANTS
  ScannerIsFaithful
  TreesKeepTheText
  ElaborationKeepsTheMeaning
  ReportsAreRight
CHECK_DEADLOCK FALSE
