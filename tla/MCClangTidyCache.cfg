SPECIFICATION FairSpec
CONSTANTS
  source = source  header = header  other_header = other_header
  source_name = source_name  header_name = header_name  other_name = other_name
  s0 = s0  s1 = s1  h0 = h0  h1 = h1  i0 = i0  i1 = i1
  w1 = w1  w2 = w2
  Nothing = Nothing
  Name <- Names
  Content <- Contents
  Worker <- TwoWorkers
  File <- Triple
  Gathered <- Pair
  Header <- TripleHeaders
  NameOf <- ChainNames
  TextsOf <- ChainTexts
  Includes <- ChainIncludes
  EditWhileRunning = FALSE
  MaxRuns = 2
  MaxChanges = 1
  MaxFailures = 1
INVARIANTS
  NothingInterruptedIsStored
  HitHasDirectIncludes
  RerunsAreExact
PROPERTIES
  RunEnds
