SPECIFICATION EachSpec
CONSTANTS
  Written <- TheLabels
  Contexts <- TheContexts
  Versions <- TheVersions
  WrittenPatterns <- ThePatterns
  Asked <- TheTargets
  MaxPatterns = 2
  Characters <- TheCharacters
  Lists <- TheLists
  Self <- TheSelf
  Runs = 2
  Nothing = Nothing
  Rejected = Rejected
  Unknown = Unknown
INVARIANTS
  PatternsMatchWhatIsMeant
  LabelsKeepTheirMeaning
CHECK_DEADLOCK FALSE
