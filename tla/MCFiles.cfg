SPECIFICATION FilesSpec
CONSTANTS
  Characters <- TheCharacters
  want_dir_p <- DirPredicate
  want_file_p <- FilePredicate
  FileSystems <- EveryTree
  Searches <- EverySearch
  Directories <- TheDirectories
  Unnumbered = {"bare", "also bare"}
  Unreadable = {"locked"}
  Root = "top"
  TwoInOne <- a
  PathParts <- TheParts
  DirectoryTrees <- EveryDirectoryTree
  Patterns <- ThePatterns
  Bundles <- EveryBundle
  Requests <- TheRequests
  Workspace <- TheWorkspace
  Links <- TheLinks
INVARIANTS
  WalkIsExact
  MatchesAreFound
  PackagesAreWhatIsMeant
PROPERTIES
  WalkEnds
CHECK_DEADLOCK FALSE
