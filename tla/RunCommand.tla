------------------------------ MODULE RunCommand ------------------------------
(***************************************************************************)
(* What a command is given to work with (RunCommand() in                   *)
(* bant/cli-commands.cc): which BUILD files are read first, which of them  *)
(* are elaborated, how deep dependencies are followed, and what of it all  *)
(* is printed.                                                             *)
(*                                                                         *)
(* A world has packages of one target each.  Some of them write their      *)
(* dependencies so that they are seen only once the package is elaborated. *)
(***************************************************************************)
EXTENDS Integers, FiniteSets

CONSTANTS
  Package,     \* the packages
  External,    \* those of other projects, each of one of its own
  Worlds,      \* records [deps, hidden, edits, workspace]
  Commands,    \* the commands
  Patterns,    \* records [filter, packages]: the packages that match
  Depths,      \* what -r may have been given
  Unlimited    \* std::numeric_limits<int>::max(), more than there are packages

ASSUME ProjectAssumption ==
  /\ IsFiniteSet(Package) /\ External \subseteq Package
  /\ \A w \in Worlds : w.deps \in [Package -> SUBSET Package]
  /\ \A p \in Patterns : p.packages \subseteq Package
  /\ Depths \subseteq Int /\ Unlimited \in Nat /\ Cardinality(Package) <= Unlimited

VARIABLES
  world,
  cmd, patterns, elaborate, print_ast,  \* the command line
  asked_depth,  \* -r of the command line, 0 without it
  depth,        \* flags.recurse_dependency_depth
  pc,
  parsed,       \* packages of the project
  elaborated,   \* how often each package was elaborated
  graph,        \* DependencyGraph::depends_on, pairs
  output,       \* packages, or pairs of them, written
  exit

vars == <<world, cmd, patterns, elaborate, print_ast, asked_depth, depth, pc, parsed, elaborated,
          graph, output, exit>>
Given == UNCHANGED <<world, cmd, patterns, elaborate, print_ast, asked_depth>>

kMatchAllBundle == [filter |-> FALSE, packages |-> Package]
\* Mutant: only what is asked for is searched for dependents.
dep_pattern_narrow == patterns
dep_pattern == IF cmd = "has-dependents" THEN kMatchAllBundle ELSE patterns
print_pattern == IF depth > 0 THEN kMatchAllBundle ELSE patterns

(* The dependencies seen in a package as it was when the graph came by: a  *)
(* package read for the graph has been elaborated.                         *)
Seen(p) == IF p \in world.hidden /\ p \in parsed /\ elaborated[p] = 0 THEN {} ELSE world.deps[p]

(* BuildDependencyGraph(): the packages walked when n levels are followed, *)
(* see the module DependencyGraph.                                         *)
Walked(roots, n) ==
  LET seen == [p \in Package |-> Seen(p)]
      round[i \in 0..Cardinality(Package)] ==
        IF i = 0 THEN roots
        ELSE IF i > n THEN round[i - 1] ELSE round[i - 1] \cup UNION {seen[p] : p \in round[i - 1]}
  IN round[Cardinality(Package)]

-----------------------------------------------------------------------------
(* RunCliCommand() refuses some commands without patterns. *)
Init ==
  /\ world \in Worlds /\ cmd \in Commands /\ patterns \in Patterns
  /\ cmd \in {"canonicalize", "dwyu", "print"} => patterns.filter
  /\ elaborate \in BOOLEAN /\ print_ast \in BOOLEAN /\ asked_depth \in Depths
  /\ depth = asked_depth
  /\ pc = "load"
  /\ parsed = {} /\ elaborated = [p \in Package |-> 0] /\ graph = {} /\ output = {} /\ exit = ""

LoadWorkspace ==
  /\ pc = "load"
  /\ IF world.workspace THEN pc' = "fill" /\ UNCHANGED exit ELSE pc' = "done" /\ exit' = "1"
  /\ Given /\ UNCHANGED <<depth, parsed, elaborated, graph, output>>

NeedsProjectPopulated == ~(cmd = "workspace" /\ ~patterns.filter)
(* A pattern that matches everything is searched for in the project itself. *)
Searched(p) == IF p.filter THEN p.packages ELSE p.packages \ External

FillFromPattern ==
  /\ pc = "fill"
  /\ parsed' = IF NeedsProjectPopulated THEN Searched(dep_pattern) ELSE {}
  /\ pc' = "elaborate"
  /\ Given /\ UNCHANGED <<depth, elaborated, graph, output, exit>>

WithoutLimit(d) == IF d <= 0 /\ cmd \in {"dwyu", "has-dependents"} THEN Unlimited ELSE d

Elaborate ==
  /\ pc = "elaborate"
  /\ depth' = WithoutLimit(depth)
  /\ elaborated' = IF elaborate \/ cmd \in {"dwyu", "compilation-db", "compile-flags"}
                   THEN [p \in Package |-> elaborated[p] + (IF p \in parsed THEN 1 ELSE 0)]
                   ELSE elaborated
  /\ pc' = "graph"
  /\ Given /\ UNCHANGED <<parsed, graph, output, exit>>

\* Mutant: the packages of a round are elaborated, whether they are new or not.
ReadMissingAgain(walked) ==
  /\ parsed' = parsed \cup walked
  /\ elaborated' = [p \in Package |-> elaborated[p] + (IF p \in walked THEN 1 ELSE 0)]
(* FindAndParseMissingPackages(): new ones are elaborated. *)
ReadMissing(walked) ==
  /\ parsed' = parsed \cup walked
  /\ elaborated' = [p \in Package |-> elaborated[p] + (IF p \in walked \ parsed THEN 1 ELSE 0)]

FollowsDependencies ==
  cmd \in {"dwyu", "parse", "lib-headers", "genrule-outputs", "list-targets", "list-packages",
           "depends-on", "has-dependents"}

BuildDependencyGraph ==
  /\ pc = "graph"
  /\ IF FollowsDependencies /\ depth >= 0
     THEN LET walked == Walked(parsed \cap dep_pattern.packages, depth) IN
          /\ graph' = {e \in walked \X Package : e[2] \in Seen(e[1])}
          /\ ReadMissing(walked)
     ELSE UNCHANGED <<graph, parsed, elaborated>>
  /\ pc' = "run"
  /\ Given /\ UNCHANGED <<depth, output, exit>>

-----------------------------------------------------------------------------
Done(status) == pc' = "done" /\ exit' = status
Written(what) == output' = what /\ Given /\ UNCHANGED <<depth, graph>>

PrintFiles ==
  /\ pc = "run" /\ cmd \in {"print", "parse"}
  /\ Written(IF cmd = "print" \/ print_ast THEN parsed \cap patterns.packages ELSE {})
  /\ Done("0") /\ UNCHANGED <<parsed, elaborated>>

ListMatching ==
  /\ pc = "run" /\ cmd \in {"lib-headers", "genrule-outputs", "list-targets", "aliased-by"}
  /\ Written(parsed \cap print_pattern.packages)
  /\ Done("0") /\ UNCHANGED <<parsed, elaborated>>

ListPackages ==
  /\ pc = "run" /\ cmd = "list-packages"
  /\ Written(parsed)
  /\ Done("0") /\ UNCHANGED <<parsed, elaborated>>

DependsOn ==
  /\ pc = "run" /\ cmd = "depends-on"
  /\ Written({e \in graph : e[1] \in print_pattern.packages})
  /\ Done("0") /\ UNCHANGED <<parsed, elaborated>>

HasDependents ==
  /\ pc = "run" /\ cmd = "has-dependents"
  /\ Written({<<e[2], e[1]>> : e \in {e \in graph : e[2] \in patterns.packages}})
  /\ Done("0") /\ UNCHANGED <<parsed, elaborated>>

\* Mutant: targets that were read for the graph are edited as well.
EditAll ==
  /\ pc = "run" /\ cmd \in {"dwyu", "canonicalize"}
  /\ LET edits == world.edits \cap parsed IN
       Written(edits) /\ Done(IF edits # {} THEN "3" ELSE "0")
  /\ UNCHANGED <<parsed, elaborated>>
(* CreateDependencyEdits() and CreateCanonicalizeEdits(). *)
Edit ==
  /\ pc = "run" /\ cmd \in {"dwyu", "canonicalize"}
  /\ LET edits == world.edits \cap parsed \cap patterns.packages IN
       Written(edits) /\ Done(IF edits # {} THEN "3" ELSE "0")
  /\ UNCHANGED <<parsed, elaborated>>

(* PrintMatchingWorkspaceExternalRepos(): without a pattern all projects.  *)
ListWorkspace ==
  /\ pc = "run" /\ cmd = "workspace"
  /\ Written(IF patterns.filter
             THEN {q \in External : \E p \in parsed \cap patterns.packages : q \in Seen(p) /\ q # p}
             ELSE External)
  /\ Done("0") /\ UNCHANGED <<parsed, elaborated>>

(* CollectIncDirs() has a graph of its own, 30 levels deep. *)
WriteCompilationFlags ==
  /\ pc = "run" /\ cmd \in {"compilation-db", "compile-flags"}
  /\ LET walked == Walked(parsed \cap patterns.packages, 30) IN Written(walked) /\ ReadMissing(walked)
  /\ Done("0")

Next == \/ LoadWorkspace \/ FillFromPattern \/ Elaborate \/ BuildDependencyGraph
        \/ PrintFiles \/ ListMatching \/ ListPackages \/ DependsOn \/ HasDependents \/ Edit \/ ListWorkspace
        \/ WriteCompilationFlags
Spec == Init /\ [][Next]_vars

-----------------------------------------------------------------------------
(* No package is elaborated twice, which would start from what the first   *)
(* time left; and where the command asks for it none is left out.          *)
EveryPackageIsElaboratedOnce ==
  /\ \A p \in Package : elaborated[p] <= (IF p \in parsed THEN 1 ELSE 0)
  /\ (pc \in {"run", "done"} /\ exit # "1" /\ (elaborate \/ cmd \in {"dwyu", "compilation-db", "compile-flags"}))
       => \A p \in Package : p \in parsed => elaborated[p] = 1

(* To say that a dependency is not needed, dwyu has to know the headers of *)
(* everything a target may reach, unless -r was given a limit.             *)
DwyuKnowsWhatIsReached ==
  (pc = "run" /\ cmd = "dwyu" /\ asked_depth <= 0) =>
    /\ patterns.packages \subseteq parsed
    /\ \A p \in parsed : world.deps[p] \subseteq parsed

(* has-dependents prints what depends on a target wherever in the project  *)
(* that is, though the pattern names the target only.                      *)
DependentsAreFoundEverywhere ==
  (pc = "done" /\ cmd = "has-dependents" /\ exit = "0") =>
    \A q \in patterns.packages, p \in Package \ External :
      (q \in world.deps[p] /\ (p \in world.hidden => elaborate)) <=> <<q, p>> \in output

(* "Given '-r', the following also follow dependencies recursively": what  *)
(* is listed is as deep as was asked for, no deeper and no less.           *)
(* (aliased-by, of which usage() says so as well, follows none.)           *)
Level(n) ==
  LET below[i \in 0..Cardinality(Package)] ==
        IF i = 0 THEN Searched(patterns)
        ELSE IF i > n THEN below[i - 1] ELSE below[i - 1] \cup UNION {world.deps[p] : p \in below[i - 1]}
  IN below[Cardinality(Package)]
ListsGoAsDeepAsAsked ==
  LET commands == {"list-packages", "list-targets", "depends-on", "lib-headers", "genrule-outputs"} IN
  (pc = "done" /\ cmd \in commands /\ exit = "0" /\ asked_depth >= 0 /\ (elaborate \/ world.hidden = {})) =>
    output = IF cmd = "depends-on" THEN {e \in Level(asked_depth) \X Package : e[2] \in world.deps[e[1]]}
             ELSE Level(asked_depth)

(* A command sees all it needs: dwyu the packages it may add from, a       *)
(* search for dependents every package, a list what -r asks for.           *)
CommandsReachFarEnough ==
  DwyuKnowsWhatIsReached /\ DependentsAreFoundEverywhere /\ ListsGoAsDeepAsAsked
=============================================================================
