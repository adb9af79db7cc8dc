SPECIFICATION FairDbSpec
CONSTANTS
  a = a  b = b  c = c
  app = app
  test = test
  named = named
  inc = inc
  rpc = rpc
  proto = proto
  any = any
  like = like
  gone = gone
  None = None
  Unlimited = Unlimited
  Target <- Targets
  Package <- Packages
  PackageOf <- ThePackageOf
  Part <- AnyString
  ProjectOf <- TheProjectOf
  PathOf <- ThePathOf
  Directory <- TheDirectory
  Protobuf <- TheProtobuf
  ProtoIncludes <- Virtual
  Details <- TheDetails
  Worlds <- TheWorlds
INVARIANTS
  NoDependencyForgotten
  ErrorsAreGenuine
  TheGraphIsTrue
  TheDatabaseIsExact
PROPERTIES
  ImplementsSearch
  Termination
