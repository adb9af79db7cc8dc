------------------------------ MODULE BuildFiles ------------------------------
(***************************************************************************)
(* From patterns and dependencies to packages: which BUILD files are read  *)
(* and which package each of them is (ParsedProject::FillFromPattern() in  *)
(* bant/frontend/parsed-project.cc, FindAndParseMissingPackages() in       *)
(* bant/explore/dependency-graph.cc).  Paths are sequences of names, "/"   *)
(* and the "." at the beginning of a path or of a name.                    *)
(***************************************************************************)
EXTENDS Naturals, Sequences, FiniteSets

CONSTANTS
  PathParts,        \* names, "/" and the "."
  DirectoryTrees,   \* functions from paths to "file", "directory" or "denied"
  Patterns,         \* records [project, path, is_recursive]
  Bundles,          \* sequences of them
  Requests,         \* packages [project, path] that dependencies lead to
  Workspace,        \* function from projects to their paths
  Links             \* paths of symbolic links to directories

VARIABLES
  files,              \* the file system: BUILD and BUILD.bazel of all directories
  patterns,           \* patterns of the bundle not searched for yet
  project,            \* the project of the pattern that is being searched for
  build_files,        \* files found for it that were not looked at yet
  unique_files,
  package_to_parsed,  \* records of a package and the name of its file
  unreadable,         \* files that could not be read, each counts as an error
  seen_before,        \* pairs of a file and the one its package had already
  error_packages,     \* packages whose file was not found
  crashed             \* Elaborate() was called without a file

fillVars == <<files, patterns, project, build_files, unique_files, package_to_parsed, unreadable,
              seen_before, error_packages, crashed>>

Ours == ""   \* the project that is worked on
Build == "BUILD"
BuildBazel == "BUILD.bazel"
BuildNames == {Build, BuildBazel}
Slash == <<"/">>
BeginsWith(path, begin) == Len(begin) <= Len(path) /\ SubSeq(path, 1, Len(begin)) = begin
IsInside(path, dir) == BeginsWith(path, dir \o Slash)
Without(path, dir) == SubSeq(path, Len(dir) + 2, Len(path))
In(dir, name) == IF dir = <<>> THEN <<name>> ELSE dir \o Slash \o <<name>>

(* A path as it is written below a directory.  The file system has BUILD   *)
(* files only, and no name at the beginning of a project's path begins     *)
(* with a dot, which would be taken away (TargetPathFromBuildFile).        *)
IsRelative(path) == path \in Seq(PathParts) /\ path # <<>> /\ path[1] \notin {".", "/"}
IsDirectoryPath(path) == IsRelative(path) /\ path[Len(path)] # "/"
IsBuildFile(path) ==
  /\ IsRelative(path)
  /\ \E name \in BuildNames : path = <<name>> \/ \E n \in 1..Len(path) : path = In(SubSeq(path, 1, n), name)
  /\ \A p \in DOMAIN Workspace : IsInside(path, Workspace[p]) => IsRelative(Without(path, Workspace[p]))
ASSUME BuildFilesAssumption ==
  /\ BuildNames \cup {".", "/"} \subseteq PathParts
  /\ \A tree \in DirectoryTrees : \A f \in DOMAIN tree : IsBuildFile(f)
  /\ Ours \notin DOMAIN Workspace /\ \A p \in DOMAIN Workspace : IsDirectoryPath(Workspace[p])
  /\ Patterns \subseteq [project : STRING, path : Seq(PathParts), is_recursive : BOOLEAN]
  /\ Bundles \subseteq Seq(Patterns)
  /\ Links \subseteq Seq(PathParts)
  /\ Requests \subseteq [project : STRING, path : Seq(PathParts)]
  /\ \A package \in Requests : package.path = <<>> \/ IsDirectoryPath(package.path)

Package(p, path) == [project |-> p, path |-> path]
SlashPositions(path) == {i \in DOMAIN path : path[i] = "/"}
LastOf(positions) == CHOOSE i \in positions : \A j \in positions : j <= i
DirectoryOf(path) == IF SlashPositions(path) = {} THEN path ELSE SubSeq(path, 1, LastOf(SlashPositions(path)) - 1)
Trimmed(path, chars) ==
  LET kept == {i \in DOMAIN path : path[i] \notin chars}
  IN IF kept = {} THEN <<>> ELSE SubSeq(path, CHOOSE i \in kept : \A j \in kept : i <= j, Len(path))
WithoutEndingSlashes(path) ==
  LET kept == {i \in DOMAIN path : path[i] # "/"}
  IN SubSeq(path, 1, IF kept = {} THEN 0 ELSE LastOf(kept))
FilesystemPath(path_up_to, filename) == WithoutEndingSlashes(path_up_to) \o Slash \o <<filename>>

(* What the operating system makes of a path: "./" leads nowhere. *)
Resolved(path) == IF IsInside(path, <<".">>) THEN Without(path, <<".">>) ELSE path
Kind(path) == IF Resolved(path) \in DOMAIN files THEN files[Resolved(path)] ELSE "none"

-----------------------------------------------------------------------------
TargetPathFromBuildFile(file) == Trimmed(DirectoryOf(file), {".", "/"})

DetermineSearchDirFromPattern(pattern) ==
  LET start_dir == (IF pattern.project = Ours THEN <<>> ELSE Workspace[pattern.project] \o Slash) \o pattern.path
  IN IF start_dir = <<>> THEN <<".">> ELSE start_dir
StartDir(pattern) == WithoutEndingSlashes(DetermineSearchDirFromPattern(pattern))

(* No directory is entered that is a link or has one of these names.       *)
IrrelevantNames == {<<"_tmp">>, <<".", "cache">>, <<".", "git">>}
Skipped(dir) ==
  dir \in Links \/ \E name \in IrrelevantNames : \E n \in 0..Len(dir) :
                        /\ SubSeq(dir, n + 1, Len(dir)) = name
                        /\ n = 0 \/ dir[n] = "/"
InFront(dir) == IF dir = <<".">> THEN <<>> ELSE dir \o Slash
IsFound(f, start, is_recursive) ==
  /\ files[f] # "directory" /\ BeginsWith(f, InFront(start))
  /\ \A i \in SlashPositions(f) : i > Len(InFront(start)) => is_recursive /\ ~Skipped(SubSeq(f, 1, i - 1))
CollectBuildFiles(pattern) ==
  LET start == StartDir(pattern)
  IN IF pattern.project # Ours /\ pattern.project \notin DOMAIN Workspace THEN {}
     ELSE {start \o Slash \o SubSeq(f, Len(InFront(start)) + 1, Len(f)) :
             f \in {f \in DOMAIN files : IsFound(f, start, pattern.is_recursive)}}

AddBuildFileContent(package, file) ==
  LET known == {k \in package_to_parsed : k.package = package}
  IN IF known # {} THEN /\ seen_before' = seen_before \cup {<<file, k.file>> : k \in known}
                        /\ UNCHANGED package_to_parsed
     ELSE /\ package_to_parsed' = package_to_parsed \cup {[package |-> package, file |-> file]}
          /\ UNCHANGED seen_before

AddBuildFile(package, file) ==
  IF Kind(file) = "file" THEN AddBuildFileContent(package, file) /\ UNCHANGED unreadable
  ELSE unreadable' = unreadable \cup {file} /\ UNCHANGED <<package_to_parsed, seen_before>>

PackageOf(file) ==
  Package(project, TargetPathFromBuildFile(
    IF project = Ours THEN file ELSE SubSeq(file, Len(Workspace[project]) + 1, Len(file))))

PathOf(package) ==
  IF package.project = Ours THEN package.path
  ELSE Workspace[package.project] \o (IF package.path = <<>> THEN <<>> ELSE Slash \o package.path)
BuildFileIn(package, name) == FilesystemPath(PathOf(package), name)
CanRead(path) == Kind(path) \in {"file", "directory"}
\* Mutant: only BUILD is looked for.
PathForPackageBUILD(package) ==
  IF package.project # Ours /\ package.project \notin DOMAIN Workspace THEN <<>>
  ELSE IF CanRead(BuildFileIn(package, Build)) THEN BuildFileIn(package, Build) ELSE <<>>
(* BUILD in front of BUILD.bazel. *)
PathForPackage(package) ==
  IF package.project # Ours /\ package.project \notin DOMAIN Workspace THEN <<>>
  ELSE IF CanRead(BuildFileIn(package, Build)) THEN BuildFileIn(package, Build)
  ELSE IF CanRead(BuildFileIn(package, BuildBazel)) THEN BuildFileIn(package, BuildBazel) ELSE <<>>

-----------------------------------------------------------------------------
FillInit ==
  /\ files \in DirectoryTrees /\ patterns \in Bundles
  /\ project = Ours /\ build_files = {} /\ unique_files = {}
  /\ package_to_parsed = {} /\ unreadable = {} /\ seen_before = {} /\ error_packages = {} /\ crashed = FALSE

FillFromPattern ==
  /\ build_files = {} /\ patterns # <<>>
  /\ patterns' = Tail(patterns)
  /\ project' = Head(patterns).project
  /\ build_files' = CollectBuildFiles(Head(patterns))
  /\ UNCHANGED <<files, unique_files, package_to_parsed, unreadable, seen_before, error_packages, crashed>>

(* In the order in which readdir() returned them. *)
FillFromFile ==
  \E file \in build_files :
    /\ build_files' = build_files \ {file}
    /\ unique_files' = unique_files \cup {file}
    /\ IF file \in unique_files THEN UNCHANGED <<package_to_parsed, unreadable, seen_before>>
       ELSE AddBuildFile(PackageOf(file), file)
    /\ UNCHANGED <<files, patterns, project, error_packages, crashed>>

Filled == build_files = {} /\ patterns = <<>>
FindParsedOrNull(package) == {k \in package_to_parsed : k.package = package}

FindMissingPackage ==
  \E package \in Requests :
    /\ Filled /\ ~crashed /\ FindParsedOrNull(package) = {} /\ package \notin error_packages
    /\ LET path == PathForPackage(package) IN
         IF path = <<>>
         THEN /\ error_packages' = error_packages \cup {package}
              /\ UNCHANGED <<package_to_parsed, unreadable, seen_before, crashed>>
         ELSE /\ AddBuildFile(package, path)
              /\ crashed' = (Kind(path) # "file")
              /\ UNCHANGED error_packages
    /\ UNCHANGED <<files, patterns, project, build_files, unique_files>>

FillNext == FillFromPattern \/ FillFromFile \/ FindMissingPackage
FillSpec == FillInit /\ [][FillNext]_fillVars

-----------------------------------------------------------------------------
(* The main project is in no other, and the others are behind links, which *)
(* neither a pattern nor a dependency names; none is inside another.       *)
ProjectsAreApart ==
  /\ \A p, q \in DOMAIN Workspace : IsInside(Workspace[q] \o Slash, Workspace[p]) => p = q
  /\ \A p \in DOMAIN Workspace : \E link \in Links :
       /\ IsInside(Workspace[p] \o Slash, link)
       /\ \A t \in Patterns \cup Requests : t.project = Ours => ~IsInside(t.path \o Slash, link)

(* A file that was found is the one of its package, or the user is told    *)
(* which file is used in its place, or that it can not be read: of BUILD   *)
(* and BUILD.bazel none is left out silently, and none is used twice in a  *)
(* project, nor in two that are apart (AddBuildFileContent()).             *)
AreSiblings(f, g) == Len(f) = Len(g) /\ \A i \in 1..(Len(f) - 1) : f[i] = g[i]
EveryFileIsAccountedFor ==
  /\ \A f \in unique_files :
       \/ \E k \in package_to_parsed : k.file = f
       \/ \E s \in seen_before : s[1] = f
       \/ f \in unreadable
  /\ \A s \in seen_before :
       /\ Kind(s[1]) = "file"
       /\ \E k \in package_to_parsed : k.file = s[2] /\ AreSiblings(Resolved(s[1]), Resolved(s[2]))
  /\ \A k, l \in package_to_parsed :
       /\ Resolved(k.file) = Resolved(l.file)
       /\ k.package.project = l.package.project \/ ProjectsAreApart
       => k = l

(* The package of a file is the one whose directory it is in, whether a    *)
(* pattern or a dependency led to it (TargetPathFromBuildFile()).          *)
PackagesAreDirectories ==
  \A k \in package_to_parsed : \E name \in BuildNames : Resolved(k.file) = In(PathOf(k.package), name)

(* A dependency on a package finds it if it has a file, whatever the       *)
(* patterns were (PathForPackage(), which looks for the file of the        *)
(* package in the root directory in "/BUILD").                             *)
PackagesAreFound ==
  \A package \in Requests \cap error_packages :
    \/ package = Package(Ours, <<>>)
    \/ package.project \notin DOMAIN Workspace \cup {Ours}
    \/ \A name \in BuildNames : Kind(In(PathOf(package), name)) # "file"

(* All three: of the packages those are read, and as those, that the       *)
(* patterns and dependencies mean (FillFromPattern() and                   *)
(* FindAndParseMissingPackages()).                                         *)
PackagesAreWhatIsMeant == EveryFileIsAccountedFor /\ PackagesAreDirectories /\ PackagesAreFound
=============================================================================
