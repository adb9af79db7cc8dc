# TLA+ models of bant

[bant](../src/README.md) reads the BUILD files of a Bazel project and answers
questions about it: who depends on what, which library provides a header, which
entries of `deps` a C++ target needs (`bant dwyu`). This directory holds TLA+
modules that model it, the TLC configurations that check them on small
instances, and proofs that TLAPS checks for every value of the constants.

Run `tlc -config X.cfg M` for a configuration, `tlapm M.tla` for a module of
proofs. `PROJECT.json` lists components, runs, mutants, hazards, findings and
theorems and, under `map`, the lines of the source each definition is translated
from. `MC*` modules give the constants their values and model no code.

## The system and its parts

| part | state | operations | what makes it correct | module |
|---|---|---|---|---|
| command line (`bant.cc`, `cli-commands.cc`) | flags, command, patterns | read options, find the command, run it | the command meant; as deep as asked; nothing elaborated twice | `CommandLine`, `RunCommand` |
| workspace (`workspace.cc`) | project locations | load, augment, look up by name and version | a declared name leads to the first declared version that is there | `Workspace` |
| parsed project (`frontend/parsed-project.cc`) | package to syntax tree, files seen | read the files of a pattern or of a dependency | each file accounted for, packages are their directories | `BuildFiles` |
| file utilities, globs (`util/`) | worklist, inodes seen | walk, match | ends, each directory once, finds what the pattern means | `CollectFiles`, `GlobMatch` |
| scanner (`frontend/scanner.cc`) | position, line index, look-ahead | Next, Peek | no token lost; newlines counted once | `Scanner` |
| parser, syntax tree, printing (`frontend/parser.cc`, `ast`, `print-visitor.cc`) | statements, error | parse, print | nothing accepted gets lost; errors keep what was read | `Parser`, `PrintVisitor` |
| elaboration (`frontend/elaboration.cc`) | variables, tree | substitute, evaluate +, glob, select | values mean what the source says; ends without a crash | `Elaboration` |
| target finder (`explore/query-utils.cc`) | current call, default visibility | walk of a file | attributes belong to the right call | `TargetFinder` |
| source locations, range map (`named-content`, `source-locator`, `disjoint-range-map.h`) | ranges of all texts | insert, find, position | every string can be located | `SourceLocations` |
| labels, patterns (`types-bazel.cc`) | patterns of a bundle | ParseFrom, print, Match | parse and print agree; a pattern matches what it covers | `BazelTarget`, `Labels`, `BazelPattern` |
| dependency graph (`explore/dependency-graph.cc`) | targets to do, next round, both edge maps, parsed packages | round: parse what is missing, walk packages, resolve, collect | each target called back once, nothing forgotten, only missing targets reported, ends | `DependencyGraph`, `FrontierSearch` |
| header providers, aliases (`explore/header-providers.cc`, `aliased-by.cc`) | header index, reversed-path order | index, FindBySuffix | longest suffix wins; all providers kept | `HeaderProviders`, `SuffixIndex` |
| dwyu (`tool/dwyu.cc`) | includes, needed alternatives, deps, edits | find includes, look up, collect, minimize, check deps, add | no include overlooked; edits are safe, complete, do not conflict, are stable | `SourceIncludes`, `Dwyu` |
| canonicalize, edit callback (`tool/`) | deps, edits | walk, emit | labels keep their meaning; a second run is quiet | `Canonicalize` |
| compilation database (`tool/compilation-db.cc`) | directories, entries | callback of the graph, write | complete whatever the order; once each | `CompilationDb` |
| arena, containers (`util/arena.h`, `arena-container.h`) | blocks, position | Alloc, Append, iterate | no memory twice; behaves as a sequence | `Arena`, `ArenaDeque`, `AppendOnly` |
| prewarm cache (`util/filesystem-prewarm-cache.cc`) | work queue, threads, flag, log file | replay, log, cancel, destroy | no lost wakeup, no use after free, complete replay, usable file | `PrewarmCache` |
| clang-tidy runner (`scripts/run-clang-tidy-cached.cc`) | content-addressed store, work queue, threads | hash, list, run, repair, rename, report | nothing interrupted is stored; results current as far as the key goes; nothing forgotten | `ClangTidyCache` |
| tables, statistics | none | output | layout only | none |

They interact by calls in a single thread: a command collects BUILD files into
the parsed project, elaborates them, builds the dependency graph (which parses
more of them on demand), makes an index of headers and targets, and walks the
result. Two parts are concurrent: the prewarm cache, whose threads touch the
files of the last run while the main thread goes about its business, and the
clang-tidy script, which is a program of its own. Hard to test are, accordingly,
the order in which packages, rules and dependencies meet in the graph; the order
in which alternatives are intersected and deps struck off; the order in which
`readdir()` answers; the thread pools and their shutdown; what an interrupted
process leaves on disk; trees that come from files with errors; and the
boundaries in arenas, ranges, labels, patterns and look-ahead. `hazards` in
`PROJECT.json` has each of them at its line.

How the modules compose. `PrintVisitor` and `Elaboration` extend `Parser`,
`TargetFinder` extends `Elaboration`, so that a file goes from tokens to reported
targets in one behaviour; `GlobMatch` extends `CollectFiles`, whose predicates are
constants; `Labels`,
`BazelPattern` and `Canonicalize` extend `BazelTarget`; `CompilationDb` extends
`DependencyGraph` with what its callback does; `ArenaDeque` extends `Arena`;
`ScannedText` is an instance of `Scanner` for the modules that stand beside it.
`RunCommand` is the sequence of all of them for one command, each reduced to which
packages it reads or changes.

Three chains are composed in the MC modules, where the result of one component
is the input of the next:

* `MCFrontEnd`: `Scanner` hands its tokens to `Parser` (`ParseText`), whose tree
  `PrintVisitor` prints;
* `MCDwyu`: `HeaderProviders` makes the index in which `SourceIncludes` looks up
  what a source includes (`UseIndex`), and `Dwyu` compares that with the
  dependencies of the target (`UseSource`);
* `MCCommands`: what `CommandLine` read is the command that `RunCommand` runs
  (`CallRunCommand`).

Other components that share a run share no state in the program either (the
labels, patterns and lists of `MCLabels`; the walk and the packages of `MCFiles`;
arena and locations in `MCMemory`; the workspace in `MCCommands`; the search by
suffix in `MCDwyu`): there a behaviour belongs to one of them, a variable `part` or
`phase` says to which, and the others' variables keep their idle values.

## The modules

### CommandLine, RunCommand

`CommandLine` is `main()` and `RunCliCommand()` (`LineInit`, `LineNext`): one action for each kind of option
(`ChangeDirectory`, `Quiet`, `OutputTo`, `SetFlag`, `Format`, `VersionOrUsage`), then
`FindCommand`, `AddPattern` for each argument, `CallCommand`. Options are taken in
the order of the command line, as `-C` and `-o` depend on it. `RunCommand` is
`RunCommand()` with its commands in groups that differ in what they read
(`LoadWorkspace`, `FillFromPattern`, `Elaborate`, `BuildDependencyGraph`) and in what
they walk (`PrintFiles`, `ListMatching`, `ListPackages`, `DependsOn`, `HasDependents`,
`Edit`, `ListWorkspace`, `WriteCompilationFlags`). A package has one target; some
packages show their dependencies only when they are elaborated. Abstracted:
wording and layout of what is printed; the tools themselves.

Runs: every prefix of every command, and each with a letter too many, with up to
two patterns, one of them invalid; some commands with every two options. For
`RunCommand` every graph over two packages of ours and one external, every choice
of packages with hidden dependencies, every command, `-r` of -1, 0, 1, 2 and
without limit. Three packages have a dependency behind the depth limit and a
dependent that only shows when packages outside of the pattern are read.

### Workspace

`BestEffortAugmentFromExternalDir()` and the loading of the four workspace files:
`OpenFile`, `Declare` (one rule of a file), `StartAugment`, `Augment` (one directory).
`FindPathByProject()` is an operator. Names are words and the characters that
Bazel puts between name and version; `CharRank` is their order, since the
map is ordered and the first entry of a name is found. Runs: up to three of nine
entries, each a directory, one that can not be opened, or a file, and up to two
declarations, one in an old and one in a new file: three versions of one project
in all pairs, two projects, one of which may go by the name of the other.
`DeclaredVersionsWin` says what `lower_bound()` makes of several declarations: the
name leads to the first version, in the order of texts, of those that are there.
A declaration without version comes before all others: with `a` and `a@1` declared, and
directories `a` and `a~1`, the name `a` leads to `a`. A project that is declared
once is found in its version, if this has a directory.

### BuildFiles

`FillFromPattern` begins a pattern of the bundle, `FillFromFile` is one file found
for it (`AddBuildFile()` with the choice between `BUILD` and `BUILD.bazel`, reading,
`PackageFromPath()`), `FindMissingPackage` is `PathForPackage()` and the reading of
one package for the graph. Paths are sequences of names, as what is in front of
them (`./`, nothing, the directory of a project) decides what package they become.
A function from paths to what is there is the file system, with nothing in it but
BUILD files. No name at the beginning of the path of a project begins with a dot: those would be taken
away (see the deviations), and so the model begins where they do not (`IsBuildFile`). Two
projects are apart (`ProjectsAreApart`) if neither is inside the other and the external
ones are reached through links, which is how bazel makes them; where they are not, a
file may be of two packages, each in its project.
Abstracted: the walk itself, which is `CollectFiles`; the contents of the files.
Runs: six directories, one of them not to be searched (`_tmp`), one of an external
project, each with none, one or both files, one with files that can not be read
or are directories; up to two of seven patterns; requests in any order.

### CollectFiles, GlobMatch

`CollectFiles` is `CollectFilesRecursive()`: `OpenDir`, `ReadDir` (one entry, any of
those left, as `readdir()` has no order), `CloseDir`. A file system is a set of
entries that lead to nodes; a link is an entry that leads to a directory
somewhere. `SearchIsExact` compares what is found with the wanted files in the
directories that wanted directories lead to (`Within`), where no directory has a
second name. A directory without inode number may be read as often as a name of it
is: a name in such a directory counts each time that directory is read. Inode numbers
are taken to be those of one device: the code compares `st_ino` without `st_dev`
(bant/util/file-utils.cc:107), and takes a directory of another device that has the
number of one already seen for that one, which the model leaves out.
What is wanted are the constants `want_dir_p` and `want_file_p`, as in the code.
`GlobMatch` has the predicates glob() and the search for BUILD files
pass in: the pattern becomes a sequence of characters, `.*`, `[^/]*` and `/?` exactly
as the replacements of `glob-match-builder.cc` make them, and `FullMatch` is what
RE2 does with it. Reference definitions of what Bazel means by a pattern stand
beside it (`MatchesAreFound`). Runs: all patterns of up to five of the characters `a`, `b`, `*`, `/` in four
trees (links up, down and to a sibling; directories whose inode is 0, one of them read
twice with another one in it; one that can not be opened). Fairness: the walk is a loop of one thread, `WF` of its step.

### Scanner

One behaviour pulls the tokens of one content; at any time it may `Peek`, which
scans ahead and fills the line index earlier. `NextPeeked` hands out what was
peeked at, `NextScanned` scans. A content is a sequence of atoms, one for each
character the scanner tells apart, words it compares and runs it never looks
into; a `string_view` is a pair of positions. `StringValue` is
`StringScalar::FromLiteral()`. Two deviations are conditions inside the properties: a
location is right unless a newline was between a `not` and its `in` before, and the
value of a string has its quotes removed unless these are three single ones. Runs:
all contents of up to six quotes, escapes and newlines, which is what an escaped
quote in a string in three quotes takes, all of three or four of the other groups,
and texts with either deviation.

### Parser, PrintVisitor

`Parser` has an operator for each production of `parser.cc` and one action, `parse`,
for a file, as nothing happens between two tokens that others could see. The
operators return the node, where the parser stands behind it and whether an error
was reported, so that every error path is there, with the partial tree it
leaves. A node is its kind, the position of its token and its subtrees.
`PrintVisitor` prints the tree as tokens that remember where they came from;
`PrintAndReadAgain` parses what was printed, or the file with a continuation.
Abstracted: spacing, colors, quotes of strings, texts of messages.

Runs: for each group of productions, behind a beginning that leads there, every
sequence of four or five tokens it tells apart, broken ones included. The parser
has quirks that the model keeps: parentheses are not in the tree, so that printing
changes the precedence; operators group to the right; `(-)` and `x[-]` give an
operator without operand, and no error.

### Elaboration, TargetFinder

A file is parsed (`ParseTheFile`), elaborated (`Elaborate`, one statement after the
other, with the variables known by then) and searched (`FindTargets`). The visitor
has all its cases: names, `+`, `select()` with the flags given, `glob()` with
its keyword arguments, list comprehensions, nested calls. `crashed` is set where
the code follows a null pointer. `TargetFinder` reports the calls with their
attributes and default visibility; `ReportsAreIndependent` compares each report
with that of a finder that saw the statement alone, and `DefaultVisibilityApplies`
takes the visibility due from the arguments of the statements themselves. A list
attribute is a pointer to a list of the tree: `None`, or `The` list, which may be
empty; `visibility = []` is a visibility, and `hdrs = []` is as good as no headers, as
in the code. Abstracted: a few attributes
stand for all of their type; which files a glob pattern matches is a constant
here, and `CollectFiles`' business.

Runs: files of up to three out of some twenty statements in which two
variables are assigned from each other, assigned again, shadowed by an argument
or a loop variable, and used; four statements of a smaller set, for a variable
that changes between two uses, on both sides of a `package()`, with empty lists among them; and a broken
statement behind each. Kept as the code has it: loop variables and names of
functions are substituted like any other name.

### SourceLocations

The files of packages and the strings made by `+` or `glob()` lie somewhere in a
small memory; `AddBuildFileContent`, `ConcatStrings`, `HandleGlob` register ranges
with the map, as `Insert()` does, which drops a range whose end is there already.
`GetLocation` is `FindBySubrange()` with the locator it leads to. Two blocks never
touch: a file ends in the NUL of its `std::string`, strings in the arena are
followed by the object allocated after them. Empty files and strings are
included, and a file for a package that has one, which is dropped. Abstracted: how
the arena places blocks, which is `Arena`.

### BazelTarget, Labels, BazelPattern

`BazelTarget` has parsing and printing of packages and targets as operators on
sequences of characters. `Labels` reads a text, or qualifies a name, prints it in
full or relative to a package, and reads it again there. `BazelPattern` adds
patterns to a bundle, from the command line or from a visibility list, and asks
for every target (`AddCommandLine`, `AddVisibility`, `Finish`). What each text means is
said by what it was written for, so that the code is compared with Bazel's rules
rather than with itself: a label by the target that it spells (`Spellings`), a pattern by
a kind, a package and a name (`WrittenPatterns`, `IsMeant`): the package, the package
and what is below it, part by part of the path (`IsBelow`), or the targets whose
names are the name with any text for each star (`FillsIn`). `LabelsOf` are the labels
that this is written as, each in any spelling. `GlobbingToRE2` and `FullMatch` are functions
defined by recursion over the parts of the expression. Runs: any text of up
to five characters, and every legal spelling of 48 targets in 8 packages; bundles
of two patterns of any kind against ten packages, one of whose names begins like
another's. Quirks kept: `a:x` with a package of one character is refused;
`//foo/` has an empty name. Not covered by what is meant: `//foo/...:all`, which
matches a package `foo/...` only; a `.` behind the last star of a name; and names with
other characters that mean something in an expression (`ExpressionsAssumption`).

### DependencyGraph, FrontierSearch

`DependencyGraph` is `BuildDependencyGraph()` step by step. What the call meets
(the rules in each package, the state of each BUILD file, the packages parsed
before, the targets the pattern selects, the depth) is the variable `world`,
chosen by `Init`. The variables have the names of the source: `todo` and
`next_round` are the two sets `deps_to_resolve_todo` and
`next_round_deps_to_resolve_todo`, `depends_on` and `has_dependents` the maps of
the result, `error_packages` and `error_targets` those of the project.
`BeginRound` is `FindAndParseMissingPackages()`, `OpenPackage`, `IgnoreRule`,
`VisitRule`, `ClosePackage` the walk of `FindTargets()`, `EndRound` the end of the
loop's body with its condition. `ReadFails` is the case of a file that can be
accessed and not read: `AddBuildFile()` returns a null pointer and the call
that follows dereferences it. Abstracted: rules are their name and the targets in
`deps` and `actual`; packages of a round are walked in any order; disk and syntax
trees do not change during the call; `Unlimited` is `INT_MAX`.

`FrontierSearch` is what this promises: a breadth first search that takes a
whole layer in one step. `ImplementsSearch` says that rounds, packages and rules
in any order come to that.

`MCDependencyGraph` has three targets in two packages, one of them parsed on
demand, its file readable, missing or not readable; lists with cycles, self
references, duplicates and missing targets; a name declared twice; depths 0, 1,
2 and unlimited. Three targets are enough for a target to be reached twice in
different rounds, for a cycle through both packages, and for a layer behind the
depth limit.
Fairness: the loop runs in one thread and waits for nobody, so `WF` of its step.

### HeaderProviders, SuffixIndex

`HeaderProviders` goes over the files of the project in the order of their
packages, three times: `ExtractAliasedBy`, `ExtractHeaderToLibMapping`,
`ExtractGeneratedFromGenrule`, one action for each file. `SuffixIndex` is
`FindBySuffix()`: the binary search, the two keys it looks at, the decision.
`TheBestMatchIsFound` compares it with the best match among all keys. Abstracted:
printing as a table. Runs: three BUILD files with any of fifteen rules, with
aliases ahead of and behind what they name; every index of up to three of
sixteen paths whose last parts are alike in all the ways that three parts allow,
with `.`, which sorts before `/`. Kept: `includes` is compared with a path that
has the package in front; `public_hdrs` counts as `textual_hdrs`.

### SourceIncludes, Dwyu

`SourceIncludes` runs the regular expression of `ExtractCCIncludes()` over the text
of a source until it finds nothing more (`FindQuote`, `FindInclude`, `NothingFound`)
and looks each include up: in the target's own files, in the index as written or
with the package in front, and then by its end (`OwnHeader`,
`OwnHeaderWithoutPrefix`, `FromLibrary`, `FromLibraryOfThisPackage`, `FromNowhere`,
`AllLookedAt`). The text is a sequence of newlines, spaces, `#`, `include`, quotes and
words. A line is ordinary (`IsOrdinary`) if its quotes are in pairs and its only `#`, if any,
is that of an include as everybody writes it. Runs: every text of up to three lines with
ordinary and odd includes.
Kept: an inexact match of the path as written wins over an exact one inside the
package; a header listed as `:h.h` in `srcs` is not recognised as the target's own.

`Dwyu` is `CreateEditsForTarget()` for one target, from its sources to the edits,
then `buildozer` and another run. A `world` has the sources with their `#include`
lines as the header index resolves them, what is known of each library and the
`deps` of the BUILD file before the first run. `needed`, `minimized`,
`already_covered`, `checked_off` are those of the source; the two loops of
`MinimizeDependencySet()` are `PickSet`, `Narrow`, `PushSet`; `CheckDep` is one
entry of `deps`, `AddNeeded` one of the sets that remain. Abstracted: an include is
the target's own header, the set of libraries that provide it, or unknown;
`checked_off_by` is reduced to its keys, as its values are only logged;
visibility lists to whether an entry matches.

Runs: `MCDwyu.cfg` has two includes and two libraries beside the target, each of
every kind that the predicates tell apart, with lists of `deps`; every three sets
of up to three out of four libraries, as it takes three for a set that is
intersected although it is covered already; and the targets that come out of
the chain from projects and texts. There are two runs of the tool, since a second
one is where instability shows. In `MCDwyuAmbiguous.cfg` TLC finds the violation
described under Findings. That `dwyu` never looks at `already_provided`, so that
a target can be told to depend on itself, is kept: `Self` may be in any set.

### Canonicalize

`CheckDependency` looks at one entry of `deps` and may emit a rename, `Execute` is
`buildozer` on the edits, `RunAgain` the next run. The labels are texts. Runs: every
label of up to five characters alone, all pairs of short ones and of a list of
spellings, in a package of ours and in two of an external project.

### CompilationDb

`CompilationDb` extends `DependencyGraph`: `CollectIncDirs` is a step of the graph that
calls `walk_cb` together with what the callback collects, `WalkOn` any other step,
`WalkFails` the case of a file that can not be read, `WriteEntries` the entries of
one package. The include directories have to be those of everything that was
visited, whatever the order of the walk. Runs: `MCDependencyGraph` has, beside the
graphs, projects with a library of ours next to an alias, two libraries of another project, protobuf, a project named alike, and a
project without directory, with each of seven dependencies alone and lists of two.
`AddAll` is the loop over what `CollectIncludeDirs()` and the virtual includes yield: a
key and the directories it stands for, added when the key is new to `already_seen`.
Fairness: the walk is that of `DependencyGraph`.
Kept: `strip_include_prefix` is used without the path of its package; the list
of options ends in a comma; the parameter of `ExtractOptionsFromBazelrc()` is
not used.

### Arena, ArenaDeque, AppendOnly

`Arena` is `Alloc()` with its blocks; `ArenaDeque` the containers whose chains of
blocks lie in it, with append, iteration, index and end as the code computes them
from addresses; `memory` is what was written. `AppendOnly` is what they promise,
and `ImplementsAppendOnly` the refinement: each iteration, from the first block on,
gives the values in the order they were appended. What a position of the iterator or an index comes to is a function of the number of
steps, and a block carries its length, where the code shifts the first one by the
number of blocks. Abstracted: alignment, statistics.
Runs: two containers with chains of 1, 2 and 2 values in an arena of blocks of
six units next to other requests, of no bytes too: each container crosses a block
that doubles, one at its maximum, and arena blocks that are full, nearly full and
too small for it.

### PrewarmCache

Its first half is the class `ThreadPool`: one action per critical section, and
`notify_one()`, `notify_all()`, which follow the unlock, as steps of their own. A
thread is in `check` (about to evaluate the condition), `waiting`, `run`,
`notify` or `exited`. The second half is the process: `main` reads the
file of the last run and queues its lines, queues the item that cancels the pool,
opens the file for writing, logs accesses, and destroys the static object;
`Kill` ends the process at any moment and leaves any part of the log on disk,
its last line cut off; `Restart` runs bant again with the same arguments. A
constant says whether `~unique_ptr()` clears the pointer before it deletes.

`MCPrewarmCache.cfg` has two threads, two paths, two accesses in each of two runs:
the second run replays what is left of the first; two threads suffice for one to
sleep while the other cancels. `PointerCleared` is TRUE: the last item reads `pool_`
in a thread of the pool while the main thread destroys it, and where the library
clears the pointer first, it may find null and the process ends (`NullPointer`).
The properties hold with that end among the outcomes.

Fairness: `WF` for the steps of the main thread in start-up and shutdown and for
each thread of the pool, as the operating system schedules threads that can run
and `access()` and `opendir()` return. None for spurious wakeups, for the death
of the process or for leaving the program's body.

### ClangTidyCache

The script, run after run over a project that its user edits in between. Hashes
are sets: the exclusive or of `hashContent()` of several contents is the set of
those that occur an odd number of times. `tmp` and `final` are the directory
entries in the store; each has its output and the workers whose `clang-tidy`
still has the file open, since an open file follows a `rename()`. Workers go
through `take`, `start`, `tidy`, `repair`, `write`, `rename`, `left`, or from
`start` to `refused`. Time is counted in
changes of the build environment.

How a `clang-tidy` may end: by itself (`TidyEnds`), with or without complaints; by an
error of its own, another signal than the two the code looks for, or without having
been started at all (`TidyDies`), whose output, of any length, is repaired and renamed like
any other; by Ctrl-C (`CtrlC`), which ends every `clang-tidy` and the workers that wait for
it, while others go on, as `system()` makes the script ignore the signal; with the
script (`Kill`); or with the machine (`PowerFails`). The last one takes more than
file systems do: as nothing is synced, each result may stay, be gone, be empty or
lack a part (`AfterFailure`), whenever it was written. That an older result comes back
under its name is left out; it was made for the same key.

If the store takes no file (`StoreRefuses`: no space, no permission), neither the shell nor
`RepairFilenameOccurences()` creates one, and the `rename()` of what is not there throws;
that it takes files again in between is as if `clang-tidy` had not been started
(`TidyDies`). Nothing catches the exception: the model ends with the script, and commands of
other threads that live on are left out.

What `clang-tidy` has read is kept with its output (`look`): the file, and the headers it
includes, those that these include, and so on (`HeadersRead`). The key combines less:
the file and the headers that it includes itself, of those below `start_dir`
(`Gathered`). So `CacheHitIsCurrent`, that a hit is what `clang-tidy` would say now, does
not hold; `HitHasDirectIncludes` is what does: the file and each such header were
as they are now. The other part of a hit is the length of its output. A crashed or torn output stays
like a complete one, and if it is empty it is never refreshed, as an empty one says
that there are no complaints (`NeedsRefresh`): `NothingInterruptedIsStored` names both.

Abstracted: the order of the work list is that of a directory and so any; hashes do not
collide; the layout of the report; the configuration and version of clang-tidy, of which
each has a store of its own. Left out: two scripts at once, and a script that is killed
alone while its clang-tidys go on writing.

`MCClangTidyCache.cfg`: a source, a header it includes, with two contents, one of which
includes a third file outside of `start_dir`, with two contents; two threads, two runs,
one edit or change of the environment, one failure (`MaxChanges`, `MaxFailures`): this has a
result that is reused, one outdated by its header, one of which only an
indirect header changed, one with complaints that is revisited, a crash, a file the store
does not take, and interruptions at every point; a second change would only repeat a first one, as there are two runs.
`EditWhileRunning` is FALSE: with TRUE, an edit between hashing and
`clang-tidy` files a result under the hash of the older text, and
`HitHasDirectIncludes` fails. `MCClangTidyCacheNames.cfg`: a source that includes two headers of
one name. `MCClangTidyCacheCopies.cfg`: two headers with name and
content in common, and no failure (`MaxFailures` = 0): an edit of the source, one run.

Fairness: `main()` goes on once it was started, and so does each worker, since the operating
system runs what can run, and `clang-tidy` ends one way or other, as `system()` waits without
a limit. None for `Start`, Ctrl-C, a kill or a failure: `RunEnds` holds whether they
come or not. It says that a run that is not killed comes to its report; an exception that
ends it counts against it, unless the store took no file (`ThrowsOnlyIfRefused`).

## What is checked

Every passing run explores its instance completely; none has a state constraint.
A run is named in lower case after its `MC` module. A property in bold is a
conjunction of named parts, which follow it.

| run | properties |
|---|---|
| dependency_graph | `NoDependencyForgotten`, `ErrorsAreGenuine`, **`TheGraphIsTrue`** (`EdgesAreMirrored`, `EdgesOfFirstRule`, `VisitedIsBall`), `ImplementsSearch`, `Termination`, **`TheDatabaseIsExact`** (`IncludesDoNotDependOnTheOrder`, `EveryIncludeOnce`, `EveryFileIsCompiledOnce`) |
| prewarm_cache | `ShutdownIsLast`, `NoUseAfterFree`, `NoPathLoggedTwice`, **`ThePoolWindsDown`** (`PoolDrains`, `ExitReturns`) |
| front_end | **`ScannerIsFaithful`** (`LocationsAreExact`, `LineIndexIsOrdered`, `NothingIsLost`, `BracketFlagIsRight`, `StringsEndWhereTheyClose`, `ValueHasQuotesRemoved`, `PeekingChangesNothing` and the types), **`TreesKeepTheText`** (`AcceptedIsBalanced`, `TreesAreComplete`, `PrintKeepsTokens`, `PrintIsStable`, `EarlierStatementsKept`), **`ElaborationKeepsTheMeaning`** (`ValuesAreWhatWasMeant`, `AcceptedFilesDoNotCrash`), **`ReportsAreRight`** (`ReportsAreIndependent`, `DefaultVisibilityApplies`) |
| memory | `NoOverlap`, **`ContainersAreSound`** (`IterationIsAppendOrder`, `IndexAgreesWithIteration`, `WritesAreAllocated` and the types), `EveryStringHasItsLocation`, **`LocationsAreTrue`** (`NoRangeDangles`, `PositionsAreTrue`, `LinesAreWhole`), `ImplementsAppendOnly` |
| labels | **`PatternsMatchWhatIsMeant`** (`MatchesAreMeant`, `MatchesAreReached`), **`LabelsKeepTheirMeaning`** (`LabelsKeepTheirTarget`, `PackagesHaveOneForm`, `MeaningIsKept`, `CanonicalizingSettles`) |
| files | **`WalkIsExact`** (`DirectoriesAreReadOnce`, `SearchIsExact`), `MatchesAreFound`, **`PackagesAreWhatIsMeant`** (`EveryFileIsAccountedFor`, `PackagesAreDirectories`, `PackagesAreFound`), `WalkEnds` |
| dwyu | `RemovalsAreSafe`, `EditsComplete`, `SecondRunIsQuiet`, `MinimizedCovers`, `IncludesKeepTheirLibrary`, **`WhatIsHandedOverIsTrue`** (`OrdinaryIncludesAreFound`, `EveryIncludeIsAccountedFor`, `AliasesProvideWhatTheyName`, `ProtoHeadersHaveTheirLibrary`, `FilesHaveOneCreator`, `TheBestMatchIsFound`) |
| commands | `EveryPackageIsElaboratedOnce`, **`CommandsReachFarEnough`** (`DwyuKnowsWhatIsReached`, `DependentsAreFoundEverywhere`, `ListsGoAsDeepAsAsked`), **`TheCommandIsDoneAsTyped`** (`TheCommandIsTheOneMeant`, `OnlyWhatWasAskedForIsEdited`, `TheFormatIsTheOneMeant`, `OnlyTypedTargetsAreEdited`), **`ProjectsAreAsDeclared`** (`ProjectsAreFound`, `DeclaredVersionsWin`) |
| clang_tidy | `NothingInterruptedIsStored`, `HitHasDirectIncludes`, **`RerunsAreExact`** (`EverythingRefreshed`, `WarmRunIsQuiet`), `RunEnds` |

`dependency_graph` runs `CompilationDb`, which extends
`DependencyGraph`: the walk with the callback of the compilation database. The front end's properties are about
texts of which the scanner or the parser make different things: those
of `TargetFinder` start from tokens of whole statements, as no text of six
characters has a rule in it. `IncludesKeepTheirLibrary` is about the whole chain:
a library that provides an included header is among `deps` when `bant dwyu` is
done. `OnlyTypedTargetsAreEdited` is about the chain from the words on the command
line to the edits.

What each run shows is its `about` in `PROJECT.json`; the bounds are given with the
modules above. Temporal properties are `ImplementsSearch`, `ImplementsAppendOnly`
(refinements), `Termination`, `ThePoolWindsDown`, `RunEnds`, `WalkEnds` (liveness).
Fairness is assumed only where a loop of one thread, or a thread that
the operating system schedules, can go on: the graph's loop, the walk over
directories, the main thread and the threads of the pool, `main()` and the workers of the
script. Deadlock is not checked where the program ends.

The type invariants of `DependencyGraph`, `Dwyu`, `PrewarmCache`, `ClangTidyCache` and
`Arena`, and `CallbackOncePerTarget`, `NoConflictingEdits`, `AlternativesDisjoint`,
`ReplayInOrder` and `CutFromTheFront` are in no run, since they are proved.

Each property has a mutant of the code model that it catches (`mutants`): the
operators whose comment begins with "Mutant".

### Findings

Each is a run that TLC finds violated, `expect` being `violation`.

* `dwyu_ambiguous` (bant/tool/dwyu.cc:517): overlapping alternatives are reduced
  to their intersection before `deps` is looked at. With headers provided by {a,
  b, c} and {a, b, d} and `deps = [c, d]`, c and d are removed and nothing is
  added, though removal is said to be conservative.
* `clang_tidy_names` (scripts/run-clang-tidy-cached.cc:420): headers of the same
  name cancel each other in the hash of a source that includes both, as
  `bant/cli-commands.cc` and `bant/tool/workspace.cc` do with the two `workspace.h`.
* `clang_tidy_copies` (scripts/run-clang-tidy-cached.cc:274): two files of the same name and
  content share a temporary file, which one thread renames under the hands of
  another; the second `rename()` throws and ends the script, though the hash is said
  to make the name unique.

### Deviations the models keep

The models do what the code does, also where a comment, a document or Bazel
says otherwise. The properties are stated so as to hold with these; each comment
in the modules says where. Scanner and syntax tree:

* a newline between `not` and `in` never gets into the line index, so that all
  locations behind it are a line too early (bant/frontend/scanner.cc:117); `not
  inside` is scanned as `not in` and `side` (:120);
* a string in three single quotes keeps two quotes on each side in its value
  (bant/frontend/ast.cc:60);
* with `A = r.f`, the name of a call `A(...)` is replaced by a node that is no
  identifier, and cast to one (bant/frontend/ast.h:302); the tree of a file with
  a syntax error has null operands, which elaboration follows
  (bant/frontend/elaboration.cc:97);
* the location of a text that ends in a newline is printed with column 0
  (bant/frontend/source-locator.cc:36).

Files, labels and projects:

* `**/a` finds a file `ba` (bant/util/glob-match-builder.cc:63); `**` and `b/**`
  find nothing below the first directory (:79);
* a directory is not searched for BUILD files if `readdir()` returned a link to
  it first (bant/util/file-utils.cc:209);
* `//a:*.b` matches `//a:bb`, as the part behind the last star is not quoted
  (bant/types-bazel.cc:215);
* the package at the root of the project is looked for in `/BUILD`
  (bant/explore/dependency-graph.cc:63); a file found for `//...` and for
  `//a:all` is read twice, as `./a/BUILD` and `a/BUILD`
  (bant/frontend/parsed-project.cc:126); `./.b/BUILD` becomes package `b` (:53).

Commands and tools:

* `-E` is in the usage text and has a case, and is not among the letters given
  to `getopt()` (bant/bant.cc:190); the message about an invalid pattern names
  the first pattern, whichever is invalid (bant/cli-commands.cc:342);
  `aliased-by` does not follow dependencies with `-r` (:152);
* an alias of an alias is not among the providers of a header
  (bant/explore/header-providers.cc:193); a header written `:h` in a library with
  `include_prefix` is stored with its colon (:154);
* an include without space in front of the quote, with an odd path, or behind
  an odd number of quotes, is overlooked, and removals are allowed all the same
  (bant/tool/dwyu.cc:546); the advice to include a header of the target itself
  with the path of its package is never given (:342);
* a target that includes its own header under its include prefix is told to
  depend on itself, since `already_provided` is never read (bant/tool/dwyu.cc:259);
* a project that is named by an alias only is not among a target's include
  directories (bant/tool/compilation-db.cc:262); the first project with
  `protobuf` in its name takes the virtual includes, the real one gets none (:131).

Concurrency:

* the last work item reads `pool_` in a thread of the pool while the main thread
  destroys it (bant/util/filesystem-prewarm-cache.cc:147);
* a change of a header that is included by a header only, or lies outside of
  `start_dir`, leaves results as they are (scripts/run-clang-tidy-cached.cc:407);
* the output of a `clang-tidy` that crashed becomes a result, which is never revisited if
  it is empty (scripts/run-clang-tidy-cached.cc:267, :216);
* an edit between hashing and `clang-tidy` files a result under the wrong hash
  (scripts/run-clang-tidy-cached.cc:264).

## What is proved

For every value of the constants, by TLAPS. The assumptions are the named ASSUMEs
of the modules, which TLC evaluates in each run, and what is named here.

`Induction` holds the two forms of induction that the proofs use: a set of natural
numbers that is not empty has a least one, and one that has 0 and with `n` also
`n + 1` is all of them; and what follows for orders: a finite set has a first
element, and texts are ordered from the front; that there is a function on the
numbers for each first value and step (`PrimitiveRecursion`); and that a finite set
of numbers is numbered in order (`Numbered`). They are about sets, not predicates, which is what the
provers can instantiate; where a model computes something step by step, it is a
recursive function, whose existence and uniqueness is shown with them where needed.

`DependencyGraphProofs`, for any targets, packages and worlds of the right type:
`TypeCorrect`, `CallbackOnce`, `NothingForgotten`, `GenuineErrors`,
`FirstRuleCounts` and `Refinement` (`Spec => Search!Spec`). `TypeOK` needs `CountersOK`
to be inductive: the depth drops below 0 only with the last round. `VisitInv`
relates the history of callbacks to the maps: a target called back is a vertex,
not to do any more, and its edges are visited, to do, next, or reported
(`Frontier`, `WalkedOK`). `RoundInv` relates the middle of a round to its beginning:
the graph has grown by the part of the layer that was walked (`GraphGrows`),
`next_round` is what these lead to (`NextLayer`), the packages of the targets to
do that can be parsed are (`ParsedOK`) and lie ahead (`Ahead`). At the end of a
round this gives the abstract step: what was not found could not be found.
`MirroredAlways`: the edges in `depends_on` are those in `has_dependents`, as bags.
`GraphIsTrue`, for finitely many targets: after `n` rounds what is visited or to do is
the ball of radius `n` around the targets selected, and without a limit all that
is reached. The balls grow until one is the same as the next, which by counting
is not later than there are targets; from there on they stay the same, by induction.

The same module has the theorems about `CompilationDb`, whose walk is a walk of the
graph (`DbWalks`). `FilesAreCompiledOnce` has no hypothesis: `EntriesInv` says that
the entries are the files of the packages written so far, each once.
`DatabaseIsExact`: at every step of the walk the include directories are those
that the targets visited so far need, and each is there once (`DirectoriesInv`); so at the
end they are those of all that is visited, in whatever order. That holds where
`KeysTellDirectories`: a key in `already_seen` stands for one list of directories, no
other key stands for one of them, and there is one project whose name contains
`protobuf`. The code does not see to that: `includes` in the root package of
another project and a `strip_include_prefix` of it can be one key, while only
the former adds the path below `bazel-bin` as well (bant/tool/compilation-db.cc:182,
:208, :245, :281), so that the directories then depend on which one is met first; and
any project named like protobuf uses up the mark of the extra includes (:122, :131).
The instance that TLC checks satisfies it, which `MCDependencyGraph` assumes
(`ProjectsAssumption`) and TLC evaluates.

`DwyuProofs`, for any libraries and worlds: `TypeCorrect` (with the CHECK that no
set of alternatives is empty), `Disjoint`, `Covers`, `EditsDoNotConflict`,
`SafeRemovals`. `MinimizeInv` says what the two loops have done so far: sets before
`i` are covered, covered ones contain a minimized or the current set, uncovered
ones have nothing in common with any of the minimized (`UncoveredApart`), which
is why the minimized are disjoint whatever the order. `EditInv` says that a set
still open is in no entry of `deps` seen so far and that a removed library is in
no minimized set; disjointness gives that nothing is added twice.
`RemovalInv` says what `all_known` means while sources are read.
`CompleteEdits`: an include with one visible provider that may be added has it, or had
one of its providers, in the end: the includes read so far are in `needed`
(`IncludesNeeded`), what is added may be used (`AllVisible`), and a set that is
closed has an entry that stays (`ClosedAreServed`).
`QuietSecondRun` is about two runs in a row. The search through the sources is
deterministic, so that what the first one knew at its end is what the second one
knows (`OneEnd`, by the least number of steps to where two of them part); the edits of the
first leave each minimized set with exactly the entry that serves it
(`RemovalsDone`, `AddsDone`), and over such a list a run removes and adds nothing
(`EditedIsQuiet`, `QuietAgain`).

About what `Dwyu` is handed over, for any project, text and index:
`AliasesAreProviders`, as all aliases are known before the first header is
(`AliasesAre`), and with each provider its aliases were added (`AliasesProvide`).
`CreatorsAreUnique`: each generated file has the creator that is first among all
files gone over (`CreatorsAreFirst`), none is missing (`OutsAreThere`) or has two
(`CreatorsDiffer`); that a creator is this project's if any of its genrules makes the
file rests on the order of packages, in which this project is first.
`IncludesAreAccountedFor`: the sets of libraries are counted against the includes that
are no file of the target (`AccountedFor`, `ForeignGrows`).
`OrdinaryIncludesFound`: `OrdinaryIncludesAreFound` for any text, with odd lines of every kind
among the ordinary ones. `GrepInv` says what is true each time the regular expression starts
again: what is left begins behind a quote, the flag tells whether the quotes in front are odd
in number, and the directives in front that had only ordinary lines before them are the
includes found, in that order (`AreFound`). The next match is never behind the next such
directive (`NonePassedOver`), though it may be many lines ahead of it, as `\s*` goes
across lines (`NoneBeforeTheFirst`); in an ordinary line it is the directive of that line,
word by word (`IncludeIs`); and the flag is not set there, as the lines in front have their
quotes in pairs (`QuotesInPairs`, an induction over lines). The hypotheses
(`ProjectsAssumption`: files and rules are numbered, packages sorted;
`TargetsAssumption`: a path is a sequence; `TextsAssumption`: a text is one, and what stands
between two quotes has no blank and no quote) are evaluated by TLC in `MCDwyu`.

`MemoryProofs`, for every block size and any sizes of requests: `ServedInsideTheBlock`,
`AllocationsAreDisjoint`. The invariant is the conjunction of both with the types:
disjointness needs that the position is behind everything cut from this block.
On top of it, for every minimum and maximum length of the blocks of a container:
`SoundContainers`, iteration and `operator[]` find what was appended in that order,
and `AppendOnlyIsImplemented`, the refinement of `AppendOnly`. The invariant `Chains`
gives each container a walk, the places of its iterator by the number of increments:
it reads the values in order (`Visits`), the last ones are in the last block
(`LastOnes`), and it arrives where the next value will be or off the chain (`Arrives`);
the last block ends the chain, is allocated, and not written behind its values
(`Room`); and no last block is behind a value or a block of another container, nor
behind a value of its own (`Apart`), so that the one pointer that Append() changes
turns the end of one walk and no other. That there is one such walk (`AfterIs`),
what it does in a block (`WithinBlock`), and how many blocks `operator[]` skips
(`SkipOne`) are inductions over positions.

The third part is the scanner. `ScannerFaithful`, for every text, without hypothesis
but that contents are sequences of atoms (`ContentsAssumption`), and for any order of
`Peek()` and `Next()`: all parts of `ScannerIsFaithful`. `ScannerInv` says that the scanner
is where scanning without ever peeking is after as many tokens (`TokenAt`, `StateAt`,
by recursion over the tokens), one further if a token was peeked at; what is said
of tokens is then said of these, by induction (`ScanAfterIs`). The step of the induction is
`AdvancedIs`, one token at any place of any text: it begins where the blanks behind the last
one end, ends behind it (with a lemma for each kind: `HandleStringIs`, `HandleWordIs`,
`HandleNumberIs`, ...), and the line index has grown by exactly the newlines that were
passed over (`PushedLinesAre`). For strings, `LoopAtIs` counts the quotes in a row and the
escapes in front of each place. That locations are true (`PositionIs`) numbers the newlines
in front of a token in order (`Numbered`).

`FileProofs` is about three components. For any threads, paths, accesses and runs of the
prewarm cache: `PrewarmCacheTyped`;
`PoolOutlivesItsThreads`, since the pool is freed after each thread was joined and no
thread comes back; `ShutdownDropsNothing`, as the item that cancels the pool is
behind all others while `main` reads the file (`CancelIsLast`); `CacheFileHasNoRepetition`,
since a path in the log is in the set of those that were logged (`LogRemembered`), and
the beginning of a file without repetition has none; `ReplayKeepsTheOrder`, where
what was taken followed by what is queued is in the order of the file (`Replay`).
`TornAssumption`: a line that was cut off is not one of the paths.

`ClangTidyCacheProofs`, for any files, workers, runs, edits, failures and interruptions:
`StoreTyped`, without hypothesis. `NothingInterrupted` is `NothingInterruptedIsStored` where no two
files of interest can ever have the same key (`KeysApart`, a condition on the contents the files
may get; bant's two `workspace.h` meet it, as what they include differs). It can not be dropped:
files of one name and content share a temporary file, which is the violation
`clang_tidy_copies`, in which `ThrowsOnlyIfRefused` fails. The invariant `Alone` says that
a file is with one worker or in the queue (`Exclusive`), that only the worker that waits for its `clang-tidy` has a
file open, its own (`OpenFiles`), what a worker finds in its temporary file
(`Held`), and that the keys of a run differ, since all were made from one set of
texts (`KeysDiffer`, `KeysStayApart`); so each has a file of its own.
`RerunsExact`, if nobody edits while the script runs: `RerunsAreExact`, which is that after a
run nobody interrupted there is a result for every file, none with complaints from before the
build environment the run started with, and that a run after which nothing changed is
followed by one without work. Hypotheses on the names or contents of files are not needed.
`HitsAreOfDirectIncludes` is `HitHasDirectIncludes`, if nobody edits while the script runs,
what a header may contain is in no other file, files of one name never have the
same content (`OwnTexts`), and no file includes one of its own name, or two of one
name (`PlainIncludes`: the hashes of what is included are XORed, so that two of
them cancel out). Then a key tells the file, its content and those of the headers
it includes (`KeyTells`), and `Truthful` says that every output is of what its key was made of.
The last hypothesis is one that bant's own sources do not meet:
`bant/cli-commands.cc`, `bant/tool/workspace.cc` and `bant/tool/workspace.h` include
headers named `workspace.h`, two of them, or as they are named themselves. For the first
two the violation `clang_tidy_names` is what becomes of it, for the last one its own content
cancels out. All headers it was said of are direct ones: the key holds no others.

And for any texts, packages and memory: `AllLocated`, that no
lookup of a part of a file or of a string made ends in the CHECK, and
`NothingDangles`. `MapInv` says that the map has exactly an entry for each block, and
that any two of them are apart, so that no two have the same end and the first
entry that ends behind a text is the one around it. `LocationsTrue`, that line and
column are those of the text: the line index and the newlines of the text
correspond one to one, and the line of a position is the one with the greatest
begin that is not behind it.

The second one is the walk over directories: `WalkExact`, for every file system in which a name is
one part of a path and once in its directory (`FilesAssumption`), all predicates and
every order of `readdir()`: the walk reads no directory without a reason, and finds
exactly what it looks for. `OnceInv` counts how often a directory was opened or waits
in the work list, against its names that `readdir()` returned, or its inode number
being in `seen_inode`. `TreeInv`, where no directory has a second name, says that
what is listed is a tree: every directory in it but the first is the entry of one
opened before (`Reached`), no two are at one path (`PathsTell`), and so a directory that
is found was not seen before (`DirectoryIsNew`, which needs that a path tells the
directory and the name below it, `BelowTells`); what is wanted among the entries
returned is in the list or the result (`WantedAreKept`), nothing else is
(`ResultsAreWanted`), nothing twice (`ResultsDiffer`), and each directory lies within as
many steps as were opened before it (`IsNear`). At the end, all directories within
any number of steps are opened, by induction (`DoneOpened`).

The third is what becomes of the BUILD files: `PackagesMeant`, for all three parts of
`PackagesAreWhatIsMeant`, in any file systems, workspaces, patterns and requests of the right form
(`BuildFilesAssumption`). A search finds a file under its own path or the one with `./` in front
(`WhatIsFound`, `FoundFor`), for an external project below its directory; cutting off the
project, the name and what is in front then leaves the directory (`MainPackageOf`,
`OtherPackageOf`, `FoundIsFileOf`), as a path to a package is put together again from just these
parts (`RequestedIsFileOf`). Two files of one package are siblings, and one file
is of one package in a project (`SameFileSamePackage`); in two that are apart it can not be, as it would
be behind a link for one and not for the other. `FillInv` adds to this what is found and not
looked at yet (`FoundFor`), and that nothing seen is forgotten.

`NameProofs` is about labels, for texts of any length over any characters. The
assumptions are those of the modules: no repository is named by nothing (`@~1`,
`NamesRepository`), the packages that labels stand in have their one form, a version
begins with `~`, and a target has no `:` in its name (`IsTargetOf`).
`SpellingsAreRead`: each spelling that Bazel allows of a target is read as the
target. It goes through the kinds of spellings, each a concatenation, and finds
in it the first and the last slash and colon that `ParseFrom` cuts at (`FirstWhere`,
`LastWhere`). `ParsedIs` is the other direction: what any text is read as has its
package in the one form. `PrintedIs` says that what `ToString()` prints is one of the
spellings, and `PrintedTargetsDiffer` follows: what is printed tells the target.
`LabelsMeanTheirTarget` and `CanonicalizingIsRight` are the invariants of `Labels` and
`Canonicalize`, and `MeaningsAreKept` the same of the specification that TLC runs
(`EachSpec`), whatever labels and lists it is given. `LabelInv`: the text to be read
next is a spelling of the target that is meant (`MeansTarget`). `CanonInv`: behind the
entry looked at next, a label is canonical, or the command that makes it so is still
to be executed (`IsCared`); all commands keep the target (`IsFaithful`), and there are
none after the first run. The rules whose dependencies have an empty name, as in
`//foo:`, are excluded (`ListsAssumption`).

`PatternsFaithful` is about bundles of any number of patterns, written in any spelling,
for names with any number of stars: both parts of `PatternsMatchWhatIsMeant`. That an expression
made of a name matches the texts that fill in the name (`GlobbingIs`) is an induction
over the name: the places that the expression reaches by its first parts are the places
where the characters in front fill in the beginning of the name (`ReachedIs`,
`FillsNext`), a star behind a star adding nothing to either. `LabelsMatch`: each spelling of
each label is read as that target (`SpellingsAreRead`), and the target becomes a pattern that
matches what is meant (`NamesMatch`, `PackageMatches`, `RecursiveMatches`; `DotsCut` for the
dots that are cut off, `BelowIs` for the parts of a path). A visibility attribute is told from
the name of a group of packages by its end, and each spelling ends with the name
(`SpellingEnds`). `BundleInv` says that the patterns added so far match what those written so
far mean together. The assumption (`PatternsAssumption`) is that what is
written is a spelling of what is meant, with the exceptions named above; it leaves open which
patterns, targets and packages there are.

`NameProofs` also has the search of `SuffixIndex`, for paths of any length over any
ordered characters, indices of any size and every `min_fuzzy_paths`: `BestMatchIsFound`, that of all the keys only
the one at the lower bound and the one before it need to be looked at. Of two keys
on one side of the key searched, the nearer one has at least the prefix in common
that the farther one has (`BelowIsCloser`, `AboveIsCloser`); a finite index has a first
key above and a last one below (`FirstAbove`, `LastBelow`, `NoneAbove`); and the
slashes in the common prefix of two keys are, one to one, the ends that the two
paths have in common (`InCommonIs`), since a key is its path backwards with a `/`
behind. `SearchInv` says at each place of the function what it has looked at.

`CommandsProofs`, for any packages, worlds and patterns: `ElaboratedOnce`.
`ElaborationInv` says that nothing is elaborated before its turn comes, and that
from then on a package is elaborated as it is read. `FarEnough`: a command has read
what it needs when it is done. `ReachInv` says that what is parsed are the packages
within as many steps as rounds were made; a round that finds nothing new is the
last, again by counting.

Its second half is the workspace: `ProjectsDeclared`, for names of any length over any
ordered characters, any number of directories and any declarations. The assumption
(`CheckoutsAssumption`) is on names: none begins with `@`, which
`FindEntryByProject()` takes off, and a project has no `~` in its name and no `+` at the
end, where bazel marks versions. `DirIs` and `ProjectDirIs` read the names: a directory
that is chosen for a rule is named for it, whichever of the five ways it was found
in. `FindIs`: the entry at the lower bound of a name without version is the first
version of that name if there is any. `WorkspaceInv` relates the map to what was read so far: a name leads to
its own directory unless another project was given it (`NamesAreOwn`); each rule read
is in the map or waits (`RulesAreStored`), so that no directory added behind
the last file can take a name that was declared, and each entry of such a name is a
declared version (`VersionsAreDeclared`), whatever else is declared; each directory
looked at has an entry (`DirsAreAdded`). The version found is the first of those, and no
comparison of versions as numbers (bant/workspace.h:34 has that as a plan).

Only model-checked: liveness under fairness, and that something is enabled, which are
out of the prover's reach; what RECURSIVE operators compute, and so
`Parser`, `PrintVisitor`, `Elaboration`, `TargetFinder`, `GlobMatch`, whose
trees are recursive. That the headers of a proto are those of its libraries (`ProtoHeadersHaveTheirLibrary`), whose names are
made by joining strings, of which the prover knows no characters; `CommandLine`, which
takes strings apart, too. The chains of `MCDwyu` and `MCCommands`:
what they compute is compared with references over bounded inputs.

## What is not modelled

Tables, statistics and the counters behind `-v`: layout. The wording of messages,
JSON and s-expressions as text. The regular expressions that find options in
`.bazelrc`. `FullyQualifiedFile()` but for what `CompilationDb` needs. Which of its
four places `TryOpenFile` finds a source in, beyond whether it is generated. The
loop of `dwyu` and `canonicalize` over all targets of a pattern: a target's edits do
not depend on another's. The memoized answers of `FilesystemPath`. Alignment. Two
processes of bant, or two clang-tidy scripts, at the same time on the same cache;
a clang-tidy that outlives its script; hash collisions; patterns that RE2 refuses. What `buildozer`, `clang-tidy`, the shell
and the file system do is modelled only as far as the code relies on it.

Noted while modelling, without a line that says otherwise: an unknown option ends
the program with status 0; `-f ""` picks the first format of the table;
packages read for the graph are elaborated even without `-e`; a directory named
`BUILD` is taken for the file of its package and then can not be read
(`ReadFails`); an external directory that can not be opened is added as a project.

## Plan

Done: all components above but tables and statistics; the three chains.

What is left, in this order:

1. Composition: `CollectFiles` behind the glob() of `Elaboration`; `BuildFiles` in place of
   the fixed world of `DependencyGraph`; the texts that `Elaboration` makes in front of
   `SourceLocations`.
2. Two processes at once on one cache, for `PrewarmCache` and `ClangTidyCache`.
3. `dwyu` over all targets of a pattern.
4. Proofs: the refinement of the chain of `MCDwyu`.
