--------------------------- MODULE CompilationDb ---------------------------
(***************************************************************************)
(* bant compile-flags and compilation-db (bant/tool/compilation-db.cc):    *)
(* the include directories of a target are collected in the callback of    *)
(* the dependency graph, whenever the walk comes to it; then every file of *)
(* a C++ target of the pattern gets an entry with all of them.  A path is  *)
(* the sequence of its parts, of which one may be several directories.     *)
(***************************************************************************)
EXTENDS DependencyGraph

CONSTANTS
  Part,        \* what paths are made of
  ProjectOf,   \* project of a package, <<>> for our own
  PathOf,      \* path of a package
  Directory,   \* project :> name of its directory, of those the workspace has
  Protobuf,    \* the projects with "protobuf" in their name
  ProtoIncludes, \* kProtoTargets: the virtual includes of protobuf itself
  Details      \* per target: rule, name, includes, has_include_prefix, strip_include_prefix and files

Path == Seq(Part)
Detail ==
  [ rule : STRING, name : Path, includes : Seq(Path), has_include_prefix : BOOLEAN,
    strip_include_prefix : Path, files : Seq(Path) ]

\* A project is named "@..." (BazelPackage::ParseFrom).
ASSUME DetailsAssumption ==
  /\ {"bazel-out/../../../external", "bazel-bin/external", "bazel-out/../../..", ".", "bazel-bin",
      "src/google/protobuf", "_virtual_includes", "include", "protobuf-extra-include-hack"} \subseteq Part
  /\ ProjectOf \in [Package -> Path \ {<<"protobuf-extra-include-hack">>}]
  /\ PathOf \in [Package -> Path]
  /\ Directory \in [DOMAIN Directory -> Path]
  /\ ProtoIncludes \in Seq(Path)
  /\ Details \in [Target -> Detail]

VARIABLES
  already_seen,    \* keys of what was added: directories, projects and the protobuf hack
  result,          \* the directories in the order of their discovery
  written,         \* the packages the entries are written of
  entries,         \* files in the order of their entries
  already_written  \* the files that have an entry

flag_vars == <<already_seen, result>>
entry_vars == <<written, entries, already_written>>

Sequence == INSTANCE SequencesExt

External == <<"bazel-out/../../../external">>
BazelBin == <<"bazel-bin/external">>
HasDirectory(project) == project \in DOMAIN Directory
FindPathByProject(project) == External \o Directory[project]
FullyQualifiedFile(package, file) ==
  (IF HasDirectory(ProjectOf[package]) THEN FindPathByProject(ProjectOf[package]) ELSE <<>>)
    \o PathOf[package] \o file

-----------------------------------------------------------------------------
(* What the callback adds for a target, as pairs of a key in already_seen  *)
(* and the directories that come with it.                                  *)

(* The build path of an include of an external project may be generated.   *)
WithBuildPath(dir) ==
  IF dir # <<>> /\ <<Head(dir)>> = External THEN <<dir, BazelBin \o Tail(dir)>> ELSE <<dir>>
Includes(t) ==
  LET Pair(dir) == <<FullyQualifiedFile(PackageOf[t], dir), WithBuildPath(FullyQualifiedFile(PackageOf[t], dir))>>
  IN [i \in DOMAIN Details[t].includes |-> Pair(Details[t].includes[i])]

Once(dir) == <<dir, <<dir>>>>
If(condition, pairs) == IF condition THEN pairs ELSE <<>>
ForProject(t, NeedsIt, Pairs(_)) ==
  LET project == ProjectOf[PackageOf[t]]
  IN If(NeedsIt /\ HasDirectory(project), Pairs(project))

IncludePrefix(t) ==
  ForProject(t, Details[t].has_include_prefix, LAMBDA p :
    <<Once(BazelBin \o Directory[p] \o PathOf[PackageOf[t]] \o <<"_virtual_includes">> \o Details[t].name)>>)

StripIncludePrefix(t) ==
  ForProject(t, Details[t].strip_include_prefix # <<>>, LAMBDA p :
    <<Once(FindPathByProject(p) \o Details[t].strip_include_prefix)>>)

GRPCHack(t) ==
  ForProject(t, Details[t].rule = "grpc_cc_library", LAMBDA p : <<Once(FindPathByProject(p) \o <<"include">>)>>)

ProtoSources(project) == BazelBin \o Directory[project] \o <<"src/google/protobuf">>
HackKey == <<"protobuf-extra-include-hack">>
ProtobufIncludes(project) ==
  [i \in DOMAIN ProtoIncludes |-> Once(ProtoSources(project) \o ProtoIncludes[i])]
OwnProtoInclude(t) ==
  ForProject(t, ProjectOf[PackageOf[t]] \in Protobuf /\ Details[t].rule = "proto_library", LAMBDA p :
    <<Once(ProtoSources(p) \o <<"_virtual_includes">> \o Details[t].name)>>)
ExtraIncludes(t) ==
  ForProject(t, ProjectOf[PackageOf[t]] \in Protobuf, LAMBDA p :
    <<<<HackKey, <<>>>>>> \o ProtobufIncludes(p))
(* For the first target of a project like this, whichever it is. *)
ProtobufHack(t, seen) == If(HackKey \notin seen, ExtraIncludes(t)) \o OwnProtoInclude(t)

(* The attribute actual is no dependency here. *)
DepsOf(t, followed) == IF Details[t].rule = "alias" THEN <<>> ELSE followed
(* Both the sources of a project and what is generated from them. *)
ProjectRoots(project) == <<project, If(HasDirectory(project), <<FindPathByProject(project), BazelBin \o Directory[project]>>)>>
RootsOf(d) ==
  LET project == ProjectOf[PackageOf[d]] IN If(project # <<>>, <<ProjectRoots(project)>>)
DependencyRoots(deps) == Sequence!FlattenSeq([i \in DOMAIN deps |-> RootsOf(deps[i])])

OwnPairs(t, seen) ==
  Includes(t) \o IncludePrefix(t) \o StripIncludePrefix(t) \o ProtobufHack(t, seen) \o GRPCHack(t)
Pairs(t, followed, seen) == OwnPairs(t, seen) \o DependencyRoots(DepsOf(t, followed))

(* What has a key that is not seen yet is added. *)
Add(st, pair) ==
  IF pair[1] \in st.seen THEN st
  ELSE [seen |-> st.seen \cup {pair[1]}, out |-> st.out \o pair[2]]
\* Mutant: the callback returns at a key it has seen.
AddAllReturning(st, pairs) ==
  LET after[n \in 0..Len(pairs)] ==
        IF n = 0 THEN st
        ELSE IF \E i \in 1..n : pairs[i][1] \in st.seen THEN after[n - 1] ELSE Add(after[n - 1], pairs[n])
  IN after[Len(pairs)]
AddAll(st, pairs) ==
  LET after[n \in 0..Len(pairs)] == IF n = 0 THEN st ELSE Add(after[n - 1], pairs[n])
  IN after[Len(pairs)]

-----------------------------------------------------------------------------
\* Our sources, what is made of them, and the root for everything external.
Start == <<<<".">>, <<"bazel-bin">>, <<"bazel-out/../../..">>>>

DbInit ==
  /\ Init
  /\ already_seen = {}
  /\ result = Start
  /\ written = {} /\ entries = <<>> /\ already_written = {}

(* The walk calls back for the rule it visits. *)
CollectIncDirs ==
  /\ VisitRule
  /\ LET rule == RulesHere[pos]
         st == AddAll([seen |-> already_seen, out |-> result],
                      Pairs(rule.target, rule.follow, already_seen))
     IN already_seen' = st.seen /\ result' = st.out
  /\ UNCHANGED entry_vars

WalkOn ==
  /\ BeginRound \/ IgnoreRule \/ ClosePackage \/ EndRound \/ \E p \in Package : OpenPackage(p)
  /\ UNCHANGED <<flag_vars, entry_vars>>

WalkFails == ReadFails /\ UNCHANGED <<flag_vars, entry_vars>>

IsCompiled(t) == t \in world.wanted /\ Details[t].rule \in {"cc_library", "cc_binary", "cc_test"}
FilesOf(p) ==
  LET Files(r) == If(IsCompiled(r.target), [i \in DOMAIN Details[r.target].files |->
                                              FullyQualifiedFile(p, Details[r.target].files[i])])
  IN Sequence!FlattenSeq([i \in DOMAIN world.ast[p] |-> Files(world.ast[p][i])])
OncePerFile(files) == [i \in DOMAIN files |-> Once(files[i])]

(* The packages the walk has read are among the parsed files by now. *)
WriteEntries(p) ==
  /\ pc = "done" /\ p \in parsed \ written
  /\ written' = written \cup {p}
  /\ LET st == AddAll([seen |-> already_written, out |-> entries], OncePerFile(FilesOf(p)))
     IN already_written' = st.seen /\ entries' = st.out
  /\ UNCHANGED <<vars, flag_vars>>

DbFinished == Finished /\ (pc = "done" => written = parsed) /\ UNCHANGED <<flag_vars, entry_vars>>

DbNext == CollectIncDirs \/ WalkOn \/ WalkFails \/ DbFinished \/ \E p \in Package : WriteEntries(p)
DbSpec == DbInit /\ [][DbNext]_<<vars, flag_vars, entry_vars>>

(* The walk is fair as it is without the callback. *)
FairDbSpec == DbSpec /\ WF_vars(Step)

-----------------------------------------------------------------------------
(* The order in which targets are met must not matter: the directories are *)
(* those that the targets of the graph need, each as if it were alone,     *)
(* however rounds, packages and the keys in already_seen fall out.         *)
DirectoriesOf(pairs) == UNION {Elements(pairs[i][2]) : i \in DOMAIN pairs}
NeededBy(t) == DirectoriesOf(Pairs(t, FollowOf(t), {}))
IncludesDoNotDependOnTheOrder ==
  pc = "done" =>
    Elements(result) = Elements(Start) \cup UNION {NeededBy(t) : t \in DOMAIN depends_on}

(* No directory is given to the compiler twice. *)
NoRepetition(s) == \A i, j \in DOMAIN s : s[i] = s[j] => i = j
EveryIncludeOnce == NoRepetition(result)

(* A file gets one entry however many targets list it, be they in packages *)
(* that the pattern named or that were only read for the graph.            *)
EveryFileIsCompiledOnce ==
  /\ NoRepetition(entries)
  /\ (pc = "done" /\ written = parsed) =>
       Elements(entries) = UNION {Elements(FilesOf(p)) : p \in parsed}

(* What this takes: a key stands for the same directories wherever it is   *)
(* from and for no other key's, and one project at most is protobuf's.     *)
(* The code has no check of it: "includes" of a package at the root of an  *)
(* external project and strip_include_prefix of another target there may   *)
(* be the same path, and only the first comes with its build path.         *)
PossiblePairs ==
  (UNION {Elements(OwnPairs(t, {})) : t \in Target})
  \cup {ProjectRoots(ProjectOf[p]) : p \in {q \in Package : ProjectOf[q] # <<>>}}
SameDirectories(pairs) == \A x, y \in pairs : x[1] = y[1] => x[2] = y[2]
OwnDirectories(pairs) ==
  \A x \in pairs :
    /\ NoRepetition(x[2]) /\ Elements(x[2]) \cap Elements(Start) = {}
    /\ \A y \in pairs : x[1] # y[1] => Elements(x[2]) \cap Elements(y[2]) = {}
OneProtobuf ==
  \A p, q \in Package :
    {ProjectOf[p], ProjectOf[q]} \subseteq Protobuf \cap DOMAIN Directory => ProjectOf[p] = ProjectOf[q]
KeysTellDirectories == SameDirectories(PossiblePairs) /\ OwnDirectories(PossiblePairs) /\ OneProtobuf

(* The database has every include and every file that the targets need,    *)
(* once, whatever order they were met in (PrintCompilationDB).             *)
TheDatabaseIsExact == IncludesDoNotDependOnTheOrder /\ EveryIncludeOnce /\ EveryFileIsCompiledOnce
=============================================================================
