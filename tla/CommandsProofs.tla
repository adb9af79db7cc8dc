--------------------------- MODULE CommandsProofs ---------------------------
(***************************************************************************)
(* RunCommand(): no package is elaborated twice, and a command reads all   *)
(* that it needs, whatever the project, the command, the patterns and the  *)
(* depth. LoadWorkspace(): projects are where the workspace says.          *)
(***************************************************************************)
EXTENDS RunCommand, Workspace, Induction, FiniteSetTheorems, SequenceTheorems, TLAPS

Asked == elaborate \/ cmd \in {"dwyu", "compilation-db", "compile-flags"}

(* Before its turn comes nothing is elaborated, and from then on a package *)
(* is at once as it is read.                                               *)
ElaborationInv ==
  /\ elaborated \in [Package -> {0, 1}]
  /\ pc \in {"load", "fill", "elaborate", "graph", "run", "done"}
  /\ pc \in {"load", "fill"} => parsed = {}
  /\ pc \in {"load", "fill", "elaborate"} => \A p \in Package : elaborated[p] = 0
  /\ exit = "1" => pc = "done"
  /\ \A p \in Package : elaborated[p] = 1 => p \in parsed
  /\ (pc \in {"graph", "run", "done"} /\ exit # "1" /\ Asked)
       => \A p \in Package : p \in parsed => elaborated[p] = 1

LEMMA ElaborationInit == Init => ElaborationInv
<1> SUFFICES ASSUME Init PROVE ElaborationInv
  OBVIOUS
<1>1. pc = "load" /\ parsed = {} /\ elaborated = [p \in Package |-> 0]
  BY DEF Init
<1>2. elaborated \in [Package -> {0, 1}] /\ \A p \in Package : elaborated[p] = 0
  BY <1>1
<1>3. exit # "1"
  BY Zenon DEF Init
<1> QED BY <1>1, <1>2, <1>3 DEF ElaborationInv

(* ReadMissing() elaborates what is new and nothing else.                  *)
LEMMA NewOnesOnce ==
  ASSUME ElaborationInv, NEW walked, ReadMissing(walked)
  PROVE  /\ elaborated' \in [Package -> {0, 1}]
         /\ \A p \in Package : elaborated'[p] = 1 => p \in parsed'
         /\ \A p \in Package : p \in parsed' =>
              elaborated'[p] = 1 \/ (p \in parsed /\ elaborated'[p] = elaborated[p])
<1>1. parsed' = parsed \cup walked
  BY DEF ReadMissing
<1>2. \A p \in Package :
        elaborated'[p] = IF p \in walked \ parsed THEN elaborated[p] + 1 ELSE elaborated[p]
  BY DEF ReadMissing, ElaborationInv
<1>3. \A p \in Package : p \notin parsed => elaborated[p] = 0
  BY DEF ElaborationInv
<1>4. DOMAIN elaborated' = Package /\ elaborated' = [p \in Package |-> elaborated'[p]]
  BY DEF ReadMissing
<1>5. \A p \in Package : elaborated'[p] \in {0, 1}
  BY <1>2, <1>3 DEF ElaborationInv
<1>6. elaborated' \in [Package -> {0, 1}]
  BY <1>4, <1>5
<1> QED BY <1>1, <1>2, <1>3, <1>6 DEF ElaborationInv

LEMMA ElaborationInductive ==
  ASSUME ElaborationInv, [Next]_vars
  PROVE  ElaborationInv'
<1> USE DEF ElaborationInv, Asked
<1>1. CASE LoadWorkspace
  BY <1>1 DEF LoadWorkspace, Given
<1>2. CASE FillFromPattern
  BY <1>2 DEF FillFromPattern, Given
<1>3. CASE Elaborate
  <2>1. CASE Asked
    <3>1. elaborated' = [p \in Package |-> elaborated[p] + (IF p \in parsed THEN 1 ELSE 0)]
      BY <1>3, <2>1 DEF Elaborate
    <3>2. \A p \in Package : elaborated'[p] = IF p \in parsed THEN 1 ELSE 0
      BY <1>3, <3>1 DEF Elaborate
    <3>3. elaborated' \in [Package -> {0, 1}]
      BY <3>1, <3>2
    <3> QED BY <1>3, <3>2, <3>3 DEF Elaborate, Given
  <2>2. CASE ~Asked
    BY <1>3, <2>2 DEF Elaborate, Given
  <2> QED BY <2>1, <2>2
<1>4. CASE BuildDependencyGraph
  <2>1. CASE FollowsDependencies /\ depth >= 0
    <3>1. PICK walked : ReadMissing(walked)
      BY <1>4, <2>1 DEF BuildDependencyGraph
    <3> QED BY <1>4, <3>1, NewOnesOnce DEF BuildDependencyGraph, Given
  <2>2. CASE ~(FollowsDependencies /\ depth >= 0)
    BY <1>4, <2>2 DEF BuildDependencyGraph, Given
  <2> QED BY <2>1, <2>2
<1>5. CASE WriteCompilationFlags
  <2>1. PICK walked : ReadMissing(walked)
    BY <1>5 DEF WriteCompilationFlags
  <2> QED BY <1>5, <2>1, NewOnesOnce DEF WriteCompilationFlags, Written, Done, Given
<1>6. ASSUME UNCHANGED <<parsed, elaborated, cmd, elaborate>>,
             pc = "run", pc' = "done", exit' # "1"
      PROVE  ElaborationInv'
  BY <1>6
<1>7. CASE PrintFiles
  BY <1>6, <1>7 DEF PrintFiles, Written, Done, Given
<1>8. CASE ListMatching
  BY <1>6, <1>8 DEF ListMatching, Written, Done, Given
<1>9. CASE ListPackages
  BY <1>6, <1>9 DEF ListPackages, Written, Done, Given
<1>10. CASE DependsOn
  BY <1>6, <1>10 DEF DependsOn, Written, Done, Given
<1>11. CASE HasDependents
  BY <1>6, <1>11 DEF HasDependents, Written, Done, Given
<1>12. CASE Edit
  BY <1>6, <1>12 DEF Edit, Written, Done, Given
<1>13. CASE ListWorkspace
  BY <1>6, <1>13 DEF ListWorkspace, Written, Done, Given
<1>14. CASE UNCHANGED vars
  BY <1>14 DEF vars
<1> QED
  BY <1>1, <1>2, <1>3, <1>4, <1>5, <1>7, <1>8, <1>9, <1>10, <1>11, <1>12, <1>13, <1>14 DEF Next

(* A second elaboration would start from what the first one left; and      *)
(* where the command needs elaborated packages none is left out.           *)
THEOREM ElaboratedOnce == Spec => []EveryPackageIsElaboratedOnce
<1>1. ElaborationInv => EveryPackageIsElaboratedOnce
  BY DEF ElaborationInv, EveryPackageIsElaboratedOnce, Asked
<1> QED BY <1>1, ElaborationInit, ElaborationInductive, PTL DEF Spec

-----------------------------------------------------------------------------
(* How far a walk over the dependencies goes.                              *)

\* f[i] is what is walked in i rounds, of which n follow dependencies.
IsRounds(f, roots, succ, n, last) ==
  f = [i \in 0..last |->
         IF i = 0 THEN roots
         ELSE IF i > n THEN f[i - 1] ELSE f[i - 1] \cup UNION {succ[p] : p \in f[i - 1]}]
Rounds(roots, succ, n, last) == CHOOSE f : IsRounds(f, roots, succ, n, last)
Reach(roots, succ, n) ==
  Rounds(roots, succ, n, Cardinality(Package))[Cardinality(Package)]

LEMMA RoundsExist ==
  ASSUME NEW roots, NEW succ, NEW n \in Int
  PROVE  \A last \in Nat : IsRounds(Rounds(roots, succ, n, last), roots, succ, n, last)
<1> DEFINE S == {last \in Nat : \E f : IsRounds(f, roots, succ, n, last)}
<1>1. 0 \in S
  <2> DEFINE f == [i \in 0..0 |-> roots]
  <2>1. IsRounds(f, roots, succ, n, 0)
    BY DEF IsRounds
  <2> QED BY <2>1
<1>2. ASSUME NEW last \in Nat, last \in S PROVE last + 1 \in S
  <2>1. PICK f : IsRounds(f, roots, succ, n, last)
    BY <1>2
  <2> DEFINE Further(s) == s \cup UNION {succ[p] : p \in s}
             Next1(i, s) == IF i > n THEN s ELSE Further(s)
             g == [i \in 0..(last + 1) |-> IF i = last + 1 THEN Next1(i, f[last]) ELSE f[i]]
  <2>2. f = [i \in 0..last |-> IF i = 0 THEN roots ELSE Next1(i, f[i - 1])]
    BY <2>1 DEF IsRounds
  <2> HIDE DEF Next1
  <2>3. ASSUME NEW i \in 0..(last + 1)
        PROVE  g[i] = IF i = 0 THEN roots ELSE Next1(i, g[i - 1])
    <3>1. CASE i = last + 1
      <4>1. i # 0 /\ i - 1 = last /\ last \in 0..(last + 1) /\ last # last + 1
        BY <3>1
      <4>2. g[last] = f[last]
        BY <4>1
      <4> QED BY <3>1, <4>1, <4>2
    <3>2. CASE i = 0
      BY <3>2, <2>2
    <3>3. CASE i \in 1..last
      <4>1. i - 1 \in 0..(last + 1) /\ i - 1 # last + 1 /\ i \in 0..last /\ i # last + 1 /\ i # 0
        BY <3>3
      <4>2. g[i - 1] = f[i - 1] /\ g[i] = f[i]
        BY <4>1
      <4> QED BY <2>2, <4>1, <4>2
    <3> QED BY <3>1, <3>2, <3>3
  <2> HIDE DEF g
  <2>4. g = [i \in 0..(last + 1) |-> g[i]]
    BY DEF g
  <2>5. IsRounds(g, roots, succ, n, last + 1)
    BY <2>3, <2>4 DEF IsRounds, Next1
  <2> QED BY <2>5
<1>3. Nat \subseteq S
  BY <1>1, <1>2, AllNaturals
<1> QED BY <1>3 DEF Rounds

\* A walk begins with the roots and meets packages only.
LEMMA RoundsType ==
  ASSUME NEW roots \in SUBSET Package, NEW succ \in [Package -> SUBSET Package],
         NEW n \in Int, NEW last \in Nat, NEW f, IsRounds(f, roots, succ, n, last)
  PROVE  \A i \in 0..last : roots \subseteq f[i] /\ f[i] \subseteq Package
<1> DEFINE S == {i \in Nat : i \in 0..last => roots \subseteq f[i] /\ f[i] \subseteq Package}
<1>1. 0 \in S
  BY DEF IsRounds
<1>2. ASSUME NEW i \in Nat, i \in S PROVE i + 1 \in S
  <2> SUFFICES ASSUME i + 1 \in 0..last PROVE roots \subseteq f[i + 1] /\ f[i + 1] \subseteq Package
    OBVIOUS
  <2>1. i \in 0..last /\ i + 1 # 0 /\ (i + 1) - 1 = i
    OBVIOUS
  <2>2. roots \subseteq f[i] /\ f[i] \subseteq Package
    BY <1>2, <2>1
  <2>3. f[i + 1] = IF i + 1 > n THEN f[i] ELSE f[i] \cup UNION {succ[p] : p \in f[i]}
    BY <2>1 DEF IsRounds
  <2>4. UNION {succ[p] : p \in f[i]} \subseteq Package
    BY <2>2
  <2> QED BY <2>2, <2>3, <2>4
<1>3. Nat \subseteq S
  BY <1>1, <1>2, AllNaturals
<1> QED BY <1>3

Closed(s, succ) == \A p \in s : succ[p] \subseteq s

\* A round that follows dependencies adds a package, or there is none to add; so
\* after as many rounds as there are packages there is none.
LEMMA WalkIsComplete ==
  ASSUME NEW roots \in SUBSET Package, NEW succ \in [Package -> SUBSET Package],
         NEW n \in Int, Cardinality(Package) <= n, IsFiniteSet(Package)
  PROVE  Closed(Reach(roots, succ, n), succ)
<1> DEFINE c == Cardinality(Package)
           f == Rounds(roots, succ, n, c)
           S == {i \in Nat : i \in 0..c => Closed(f[i], succ) \/ Cardinality(f[i]) >= i}
<1>1. c \in Nat
  BY FS_CardinalityType
<1>2. IsRounds(f, roots, succ, n, c)
  BY <1>1, RoundsExist
<1> HIDE DEF f
<1>3. \A i \in 0..c : f[i] \subseteq Package /\ IsFiniteSet(f[i]) /\ Cardinality(f[i]) \in Nat
  <2>1. \A i \in 0..c : f[i] \subseteq Package
    BY <1>1, <1>2, RoundsType
  <2> QED BY <2>1, FS_Subset, FS_CardinalityType
<1>4. 0 \in S
  BY <1>1, <1>3
<1>5. ASSUME NEW i \in Nat, i \in S PROVE i + 1 \in S
  <2> SUFFICES ASSUME i + 1 \in 0..c PROVE Closed(f[i + 1], succ) \/ Cardinality(f[i + 1]) >= i + 1
    OBVIOUS
  <2>1. i \in 0..c /\ i + 1 # 0 /\ (i + 1) - 1 = i /\ ~(i + 1 > n)
    BY <1>1
  <2>2. f[i + 1] = f[i] \cup UNION {succ[p] : p \in f[i]}
    BY <1>2, <2>1 DEF IsRounds
  <2>3. CASE Closed(f[i], succ)
    <3>1. f[i + 1] = f[i]
      BY <2>2, <2>3 DEF Closed
    <3> QED BY <2>3, <3>1
  <2>4. CASE ~Closed(f[i], succ) /\ Cardinality(f[i]) >= i
    <3>1. f[i] \subseteq f[i + 1] /\ f[i] # f[i + 1]
      BY <2>2, <2>4 DEF Closed
    <3>2. IsFiniteSet(f[i + 1]) /\ Cardinality(f[i + 1]) \in Nat /\ Cardinality(f[i]) \in Nat
      BY <1>3, <2>1
    <3>3. Cardinality(f[i]) <= Cardinality(f[i + 1]) /\ Cardinality(f[i]) # Cardinality(f[i + 1])
      BY <3>1, <3>2, FS_Subset
    <3> QED BY <2>4, <3>2, <3>3
  <2> QED BY <1>5, <2>1, <2>3, <2>4
<1>6. c \in S
  <2>1. Nat \subseteq S
    BY <1>4, <1>5, AllNaturals
  <2> QED BY <1>1, <2>1
<1>7. CASE Cardinality(f[c]) >= c
  <2>1. f[c] \subseteq Package /\ Cardinality(f[c]) \in Nat
    BY <1>1, <1>3
  <2>2. Cardinality(f[c]) <= c
    BY <2>1, FS_Subset
  <2>3. f[c] = Package
    BY <1>1, <1>7, <2>1, <2>2, FS_Subset
  <2> QED BY <2>3 DEF Closed, Reach, f
<1> QED BY <1>1, <1>6, <1>7 DEF Reach, f

\* A walk of no rounds stays where it is.
LEMMA NoRounds ==
  ASSUME NEW roots \in SUBSET Package, NEW succ \in [Package -> SUBSET Package], IsFiniteSet(Package)
  PROVE  Reach(roots, succ, 0) = roots
<1> DEFINE c == Cardinality(Package)
           f == Rounds(roots, succ, 0, c)
           S == {i \in Nat : i \in 0..c => f[i] = roots}
<1>1. c \in Nat
  BY FS_CardinalityType
<1>2. IsRounds(f, roots, succ, 0, c)
  BY <1>1, RoundsExist
<1> HIDE DEF f
<1>3. 0 \in S
  BY <1>2 DEF IsRounds
<1>4. ASSUME NEW i \in Nat, i \in S PROVE i + 1 \in S
  <2> SUFFICES ASSUME i + 1 \in 0..c PROVE f[i + 1] = roots
    OBVIOUS
  <2>1. i \in 0..c /\ i + 1 # 0 /\ (i + 1) - 1 = i /\ i + 1 > 0
    BY <1>1
  <2>2. f[i] = roots
    BY <1>4, <2>1
  <2> QED BY <1>2, <2>1, <2>2 DEF IsRounds
<1>5. Nat \subseteq S
  BY <1>3, <1>4, AllNaturals
<1> QED BY <1>1, <1>5 DEF Reach, f

LEMMA ReachType ==
  ASSUME NEW roots \in SUBSET Package, NEW succ \in [Package -> SUBSET Package],
         NEW n \in Int, IsFiniteSet(Package)
  PROVE  roots \subseteq Reach(roots, succ, n) /\ Reach(roots, succ, n) \subseteq Package
<1>1. Cardinality(Package) \in Nat
  BY FS_CardinalityType
<1>2. IsRounds(Rounds(roots, succ, n, Cardinality(Package)), roots, succ, n, Cardinality(Package))
  BY <1>1, RoundsExist
<1>3. \A i \in 0..Cardinality(Package) :
        /\ roots \subseteq Rounds(roots, succ, n, Cardinality(Package))[i]
        /\ Rounds(roots, succ, n, Cardinality(Package))[i] \subseteq Package
  <2> DEFINE f == Rounds(roots, succ, n, Cardinality(Package))
  <2>1. IsRounds(f, roots, succ, n, Cardinality(Package))
    BY <1>2
  <2> HIDE DEF f
  <2>2. \A i \in 0..Cardinality(Package) : roots \subseteq f[i] /\ f[i] \subseteq Package
    BY <1>1, <2>1, RoundsType
  <2> QED BY <2>2 DEF f
<1> QED BY <1>1, <1>3 DEF Reach

LEMMA WalkedIs ==
  ASSUME NEW roots, NEW n
  PROVE  Walked(roots, n) = Reach(roots, [p \in Package |-> Seen(p)], n)
BY DEF Walked, Reach, Rounds, IsRounds

LEMMA LevelIs ==
  ASSUME NEW n
  PROVE  Level(n) = Reach(Searched(patterns), world.deps, n)
BY DEF Level, Reach, Rounds, IsRounds

-----------------------------------------------------------------------------
(* What a command has to work with.                                        *)

\* What FillFromPattern() reads, and what BuildDependencyGraph() sees in it and reaches
\* from it.
Collected == IF NeedsProjectPopulated THEN Searched(dep_pattern) ELSE {}
Deps == [p \in Package |-> IF p \in world.hidden /\ p \in Collected /\ ~Asked THEN {} ELSE world.deps[p]]
Reached == Reach(Collected \cap dep_pattern.packages, Deps, WithoutLimit(asked_depth))
GraphIsBuilt == FollowsDependencies /\ WithoutLimit(asked_depth) >= 0

ChosenInv ==
  /\ world \in Worlds /\ patterns \in Patterns /\ asked_depth \in Depths
  /\ cmd = "dwyu" => patterns.filter

(* From step to step: what was read, and what came of it.                  *)
CommandInv ==
  /\ pc \in {"load", "fill", "elaborate"} => depth = asked_depth
  /\ pc \in {"graph", "run"} \/ (pc = "done" /\ exit # "1") => depth = WithoutLimit(asked_depth)
  /\ pc \in {"elaborate", "graph"} => parsed = Collected
  /\ (pc = "graph" /\ ~Asked) => \A p \in Package : elaborated[p] = 0
  /\ (pc = "run" /\ GraphIsBuilt) =>
       /\ parsed = Collected \cup Reached
       /\ graph = {e \in Reached \X Package : e[2] \in Deps[e[1]]}

(* The output of the commands that follow dependencies.                    *)
OutputInv ==
  (pc = "done" /\ exit = "0" /\ GraphIsBuilt) =>
    /\ cmd = "has-dependents" =>
         output = {<<e[2], e[1]>> : e \in {e \in Reached \X Package :
                                             e[2] \in Deps[e[1]] /\ e[2] \in patterns.packages}}
    /\ cmd = "depends-on" =>
         output = {e \in Reached \X Package : e[2] \in Deps[e[1]] /\ e[1] \in print_pattern.packages}
    /\ cmd = "list-packages" => output = Collected \cup Reached
    /\ cmd \in {"list-targets", "lib-headers", "genrule-outputs"} =>
         output = (Collected \cup Reached) \cap print_pattern.packages

ReachInv == ElaborationInv /\ ChosenInv /\ CommandInv /\ OutputInv

LEMMA ReachInit == Init => ChosenInv /\ CommandInv /\ OutputInv
<1> SUFFICES ASSUME Init PROVE ChosenInv /\ CommandInv /\ OutputInv
  OBVIOUS
<1>1. pc = "load" /\ depth = asked_depth
  BY Zenon DEF Init
<1>2. ChosenInv
  BY DEF Init, ChosenInv
<1>3. CommandInv /\ OutputInv
  BY <1>1 DEF CommandInv, OutputInv
<1> QED BY <1>2, <1>3

LEMMA GivenStays ==
  ASSUME Given
  PROVE  /\ Collected' = Collected /\ Deps' = Deps /\ Reached' = Reached
         /\ GraphIsBuilt' = GraphIsBuilt /\ WithoutLimit(asked_depth)' = WithoutLimit(asked_depth)
         /\ (ChosenInv <=> ChosenInv')
BY DEF Given, Collected, Deps, Reached, GraphIsBuilt, FollowsDependencies, WithoutLimit, ChosenInv,
       NeedsProjectPopulated, Searched, dep_pattern, kMatchAllBundle, Asked

LEMMA DepsType ==
  ASSUME ChosenInv
  PROVE  /\ Deps \in [Package -> SUBSET Package] /\ world.deps \in [Package -> SUBSET Package]
         /\ patterns.packages \in SUBSET Package
         /\ Collected \in SUBSET Package
         /\ WithoutLimit(asked_depth) \in Int /\ asked_depth \in Int
         /\ Reached \in SUBSET Package
         /\ Collected \cap dep_pattern.packages \subseteq Reached
<1>1. world.deps \in [Package -> SUBSET Package]
  BY ProjectAssumption DEF ChosenInv
<1>2. Deps \in [Package -> SUBSET Package]
  <2>1. \A p \in Package : world.deps[p] \in SUBSET Package
    BY <1>1
  <2> QED BY <2>1 DEF Deps
<1>3. patterns.packages \in SUBSET Package /\ dep_pattern.packages \in SUBSET Package
  BY ProjectAssumption DEF ChosenInv, dep_pattern, kMatchAllBundle
<1>4. Collected \in SUBSET Package
  BY <1>3 DEF Collected, Searched
<1>5. WithoutLimit(asked_depth) \in Int /\ asked_depth \in Int
  BY ProjectAssumption DEF ChosenInv, WithoutLimit
<1>6. Collected \cap dep_pattern.packages \in SUBSET Package /\ IsFiniteSet(Package)
  BY <1>4, ProjectAssumption
<1>7. Reached \in SUBSET Package /\ Collected \cap dep_pattern.packages \subseteq Reached
  <2> HIDE DEF Collected, Deps
  <2> QED BY <1>2, <1>5, <1>6, ReachType DEF Reached
<1> QED BY <1>1, <1>2, <1>3, <1>4, <1>5, <1>7

\* When the graph is built, what was elaborated shows all its dependencies, and what
\* was not shows what it does not hide.
LEMMA SeenIsDeps ==
  ASSUME ReachInv, pc = "graph"
  PROVE  [p \in Package |-> Seen(p)] = Deps
<1>1. parsed = Collected
  BY DEF ReachInv, CommandInv
<1>2. \A p \in Package : p \in Collected => (elaborated[p] = 0 <=> ~Asked)
  <2>1. exit # "1"
    BY Zenon DEF ReachInv, ElaborationInv
  <2>2. Asked => \A p \in Package : p \in parsed => elaborated[p] = 1
    BY <2>1 DEF ReachInv, ElaborationInv
  <2>3. ~Asked => \A p \in Package : elaborated[p] = 0
    BY DEF ReachInv, CommandInv
  <2> QED BY <1>1, <2>2, <2>3
<1> QED BY <1>1, <1>2 DEF Seen, Deps

LEMMA ReachSteps ==
  ASSUME ReachInv, [Next]_vars
  PROVE  ChosenInv' /\ CommandInv' /\ OutputInv'
<1>a. Given => ChosenInv'
  BY GivenStays DEF ReachInv
<1>b. pc' # "done" \/ exit' # "0" => OutputInv'
  BY Zenon DEF OutputInv
<1>1. CASE LoadWorkspace
  <2>1. Given /\ pc = "load" /\ UNCHANGED <<depth, parsed, elaborated, graph, output>>
    BY <1>1 DEF LoadWorkspace
  <2>2. depth = asked_depth /\ asked_depth' = asked_depth
    BY <2>1 DEF ReachInv, CommandInv, Given
  <2>3. CASE world.workspace
    <3>1. pc' = "fill" /\ exit' = exit
      BY <1>1, <2>3 DEF LoadWorkspace
    <3> QED BY <1>a, <1>b, <2>1, <2>2, <3>1 DEF CommandInv
  <2>4. CASE ~world.workspace
    <3>1. pc' = "done" /\ exit' = "1"
      BY <1>1, <2>4 DEF LoadWorkspace
    <3> QED BY <1>a, <1>b, <2>1, <2>2, <3>1 DEF CommandInv
  <2> QED BY <2>3, <2>4
<1>2. CASE FillFromPattern
  <2>1. Given /\ pc = "fill" /\ pc' = "elaborate" /\ UNCHANGED <<depth, exit>> /\ parsed' = Collected
    BY <1>2 DEF FillFromPattern, Collected
  <2>2. depth = asked_depth /\ asked_depth' = asked_depth
    BY <2>1 DEF ReachInv, CommandInv, Given
  <2> QED BY <1>a, <1>b, <2>1, <2>2, GivenStays DEF CommandInv
<1>3. CASE Elaborate
  <2>1. Given /\ pc = "elaborate" /\ pc' = "graph" /\ depth' = WithoutLimit(depth) /\ UNCHANGED <<parsed, exit>>
    BY <1>3 DEF Elaborate
  <2>2. ~Asked => elaborated' = elaborated
    BY <1>3 DEF Elaborate, Asked
  <2>3. Asked' = Asked
    BY <2>1 DEF Given, Asked
  <2>4. \A p \in Package : elaborated[p] = 0
    BY <2>1 DEF ReachInv, ElaborationInv
  <2> QED BY <2>1, <2>2, <2>3, <2>4, GivenStays DEF ReachInv, CommandInv, OutputInv
<1>4. CASE BuildDependencyGraph
  <2>1. Given /\ pc = "graph" /\ pc' = "run" /\ UNCHANGED <<depth, output, exit>>
    BY <1>4 DEF BuildDependencyGraph
  <2>2. parsed = Collected /\ depth = WithoutLimit(asked_depth)
    BY <2>1 DEF ReachInv, CommandInv
  <2>3. GraphIsBuilt => parsed' = Collected \cup Reached /\ graph' = {e \in Reached \X Package : e[2] \in Deps[e[1]]}
    <3> SUFFICES ASSUME GraphIsBuilt
                 PROVE  parsed' = Collected \cup Reached /\ graph' = {e \in Reached \X Package : e[2] \in Deps[e[1]]}
      OBVIOUS
    <3>1. Walked(parsed \cap dep_pattern.packages, depth) = Reached
      BY <2>1, <2>2, SeenIsDeps, WalkedIs DEF Reached
    <3>2. ReadMissing(Reached) /\ graph' = {e \in Reached \X Package : e[2] \in Seen(e[1])}
      BY <1>4, <2>2, <3>1 DEF BuildDependencyGraph, GraphIsBuilt
    <3>3. \A p \in Package : Seen(p) = Deps[p]
      BY <2>1, SeenIsDeps
    <3>4. Reached \subseteq Package
      BY DepsType DEF ReachInv
    <3>5. parsed' = Collected \cup Reached
      BY <2>2, <3>2 DEF ReadMissing
    <3>6. \A e \in Reached \X Package : Seen(e[1]) = Deps[e[1]]
      BY <3>3, <3>4
    <3> QED BY <3>2, <3>5, <3>6
  <2>4. CommandInv'
    BY <2>1, <2>2, <2>3, GivenStays DEF CommandInv
  <2> QED BY <1>a, <1>b, <2>1, <2>4
<1>5. ASSUME Given, pc = "run", pc' = "done", UNCHANGED depth,
             cmd \notin {"has-dependents", "depends-on", "list-packages", "list-targets", "lib-headers",
                         "genrule-outputs"}
      PROVE  ChosenInv' /\ CommandInv' /\ OutputInv'
  <2>1. cmd' = cmd
    BY <1>5 DEF Given
  <2> QED BY <1>5, <2>1, GivenStays DEF ReachInv, CommandInv, OutputInv
<1>6. ASSUME Given, pc = "run", pc' = "done", UNCHANGED depth,
             exit' = "0" /\ GraphIsBuilt => OutputInv'
      PROVE  ChosenInv' /\ CommandInv' /\ OutputInv'
  <2>1. depth = WithoutLimit(asked_depth)
    BY <1>6 DEF ReachInv, CommandInv
  <2>2. CommandInv'
    BY <1>6, <2>1, GivenStays DEF CommandInv
  <2>3. exit' = "0" /\ GraphIsBuilt' => OutputInv'
    BY <1>6, GivenStays
  <2>4. OutputInv'
    BY <2>3 DEF OutputInv
  <2> QED BY <1>6, <1>a, <2>2, <2>4
<1> DEFINE Read == Collected \cup Reached
           Edges == {e \in Reached \X Package : e[2] \in Deps[e[1]]}
<1>7. (pc = "run" /\ GraphIsBuilt) => parsed = Read /\ graph = Edges
  BY DEF ReachInv, CommandInv
<1>8. Given /\ UNCHANGED depth => print_pattern' = print_pattern /\ patterns' = patterns /\ cmd' = cmd
  BY DEF Given, print_pattern, kMatchAllBundle
<1>9. CASE PrintFiles
  BY <1>5, <1>9 DEF PrintFiles, Written, Done
<1>10. CASE Edit
  BY <1>5, <1>10 DEF Edit, Written, Done
<1>11. CASE ListWorkspace
  BY <1>5, <1>11 DEF ListWorkspace, Written, Done
<1>12. CASE WriteCompilationFlags
  BY <1>5, <1>12 DEF WriteCompilationFlags, Written, Done
<1>13. CASE ListMatching
  <2>1. Given /\ pc = "run" /\ pc' = "done" /\ exit' = "0" /\ UNCHANGED depth
        /\ cmd \in {"lib-headers", "genrule-outputs", "list-targets", "aliased-by"}
        /\ output' = parsed \cap print_pattern.packages
    BY <1>13 DEF ListMatching, Written, Done
  <2>2. GraphIsBuilt => OutputInv'
    BY <1>7, <1>8, <2>1, GivenStays DEF OutputInv
  <2> QED BY <1>6, <2>1, <2>2
<1>14. CASE ListPackages
  <2>1. Given /\ pc = "run" /\ pc' = "done" /\ exit' = "0" /\ UNCHANGED depth
        /\ cmd = "list-packages" /\ output' = parsed
    BY <1>14 DEF ListPackages, Written, Done
  <2>2. GraphIsBuilt => OutputInv'
    BY <1>7, <1>8, <2>1, GivenStays DEF OutputInv
  <2> QED BY <1>6, <2>1, <2>2
<1>15. CASE DependsOn
  <2>1. Given /\ pc = "run" /\ pc' = "done" /\ exit' = "0" /\ UNCHANGED depth
        /\ cmd = "depends-on" /\ output' = {e \in graph : e[1] \in print_pattern.packages}
    BY <1>15 DEF DependsOn, Written, Done
  <2>2. GraphIsBuilt => OutputInv'
    BY <1>7, <1>8, <2>1, GivenStays DEF OutputInv
  <2> QED BY <1>6, <2>1, <2>2
<1>16. CASE HasDependents
  <2>1. Given /\ pc = "run" /\ pc' = "done" /\ exit' = "0" /\ UNCHANGED depth
        /\ cmd = "has-dependents"
        /\ output' = {<<e[2], e[1]>> : e \in {e \in graph : e[2] \in patterns.packages}}
    BY <1>16 DEF HasDependents, Written, Done
  <2>2. GraphIsBuilt => OutputInv'
    BY <1>7, <1>8, <2>1, GivenStays DEF OutputInv
  <2> QED BY <1>6, <2>1, <2>2
<1>17. CASE UNCHANGED vars
  <2>1. Given /\ UNCHANGED <<depth, pc, exit, parsed, elaborated, graph, output>>
    BY <1>17 DEF vars, Given
  <2>2. Asked' = Asked
    BY <2>1 DEF Given, Asked
  <2>3. CommandInv /\ OutputInv
    BY DEF ReachInv
  <2>6. /\ Collected' = Collected /\ Reached' = Reached /\ Deps' = Deps /\ GraphIsBuilt' = GraphIsBuilt
        /\ WithoutLimit(asked_depth)' = WithoutLimit(asked_depth) /\ asked_depth' = asked_depth
    BY <2>1, GivenStays DEF Given
  <2>4. CommandInv'
    BY <2>1, <2>2, <2>3, <2>6 DEF CommandInv
  <2>5. OutputInv'
    BY <1>8, <2>1, <2>3, GivenStays DEF OutputInv
  <2> QED BY <1>a, <2>1, <2>4, <2>5
<1> QED
  BY <1>1, <1>2, <1>3, <1>4, <1>9, <1>10, <1>11, <1>12, <1>13, <1>14, <1>15, <1>16, <1>17 DEF Next

-----------------------------------------------------------------------------
(* What the invariant says of each command.                                *)

LEMMA DwyuReaches ==
  ASSUME ReachInv, pc = "run", cmd = "dwyu", asked_depth <= 0
  PROVE  /\ patterns.packages \subseteq parsed
         /\ \A p \in parsed : world.deps[p] \subseteq parsed
<1>1. Asked /\ FollowsDependencies /\ NeedsProjectPopulated /\ dep_pattern = patterns
  BY DEF Asked, FollowsDependencies, NeedsProjectPopulated, dep_pattern
<1>2. WithoutLimit(asked_depth) = Unlimited /\ Unlimited \in Nat /\ Cardinality(Package) <= Unlimited
  BY ProjectAssumption DEF WithoutLimit
<1>3. parsed = Collected \cup Reached
  BY <1>1, <1>2 DEF ReachInv, CommandInv, GraphIsBuilt
<1>4. Collected = patterns.packages
  BY <1>1 DEF ReachInv, ChosenInv, Collected, Searched
<1>5. /\ world.deps \in [Package -> SUBSET Package] /\ patterns.packages \in SUBSET Package
      /\ Collected \cap dep_pattern.packages \subseteq Reached
  BY DepsType DEF ReachInv
<1>6. Deps = world.deps
  BY <1>1, <1>5 DEF Deps
<1>7. parsed = Reached
  BY <1>1, <1>3, <1>4, <1>5
<1>8. Reached = Reach(patterns.packages, world.deps, Unlimited)
  BY <1>1, <1>2, <1>4, <1>6 DEF Reached
<1>9. Closed(Reached, world.deps)
  BY <1>2, <1>5, <1>8, WalkIsComplete, ProjectAssumption
<1> QED BY <1>3, <1>4, <1>7, <1>9 DEF Closed

LEMMA DependentsReached ==
  ASSUME ReachInv, pc = "done", cmd = "has-dependents", exit = "0",
         NEW q \in patterns.packages, NEW p \in Package \ External
  PROVE  (q \in world.deps[p] /\ (p \in world.hidden => elaborate)) <=> <<q, p>> \in output
<1>1. FollowsDependencies /\ NeedsProjectPopulated /\ dep_pattern = kMatchAllBundle
      /\ (Asked <=> elaborate)
  BY DEF Asked, FollowsDependencies, NeedsProjectPopulated, dep_pattern
<1>2. GraphIsBuilt
  BY <1>1, DepsType, ProjectAssumption DEF ReachInv, GraphIsBuilt, WithoutLimit
<1>3. output = {<<e[2], e[1]>> : e \in {e \in Reached \X Package :
                                          e[2] \in Deps[e[1]] /\ e[2] \in patterns.packages}}
  BY <1>2 DEF ReachInv, OutputInv
<1>4. Collected = Package \ External
  BY <1>1 DEF Collected, Searched, kMatchAllBundle
<1>5. p \in Reached /\ p \in Collected /\ q \in Package
  BY <1>1, <1>4, DepsType DEF ReachInv, kMatchAllBundle
<1>6. q \in Deps[p] <=> q \in world.deps[p] /\ (p \in world.hidden => elaborate)
  BY <1>1, <1>5 DEF Deps
<1>7. <<q, p>> \in output <=> q \in Deps[p]
  <2>1. ASSUME q \in Deps[p] PROVE <<q, p>> \in output
    <3>1. <<p, q>> \in {e \in Reached \X Package : e[2] \in Deps[e[1]] /\ e[2] \in patterns.packages}
      BY <1>5, <2>1
    <3> QED BY <1>3, <3>1
  <2>2. ASSUME <<q, p>> \in output PROVE q \in Deps[p]
    <3>1. PICK e \in Reached \X Package : e[2] \in Deps[e[1]] /\ <<e[2], e[1]>> = <<q, p>>
      BY <1>3, <2>2
    <3> QED BY <3>1
  <2> QED BY <2>1, <2>2
<1> QED BY <1>6, <1>7

LEMMA ListsReach ==
  ASSUME ReachInv, pc = "done", exit = "0", asked_depth >= 0,
         elaborate \/ world.hidden = {},
         cmd \in {"list-packages", "list-targets", "depends-on", "lib-headers", "genrule-outputs"}
  PROVE  output = IF cmd = "depends-on" THEN {e \in Level(asked_depth) \X Package : e[2] \in world.deps[e[1]]}
                  ELSE Level(asked_depth)
<1>1. /\ FollowsDependencies /\ NeedsProjectPopulated /\ dep_pattern = patterns
      /\ WithoutLimit(asked_depth) = asked_depth
  BY DEF FollowsDependencies, NeedsProjectPopulated, dep_pattern, WithoutLimit
<1>2. GraphIsBuilt
  BY <1>1 DEF GraphIsBuilt
<1>3. depth = asked_depth
  BY <1>1 DEF ReachInv, CommandInv
<1>4. /\ world.deps \in [Package -> SUBSET Package] /\ patterns.packages \in SUBSET Package
      /\ asked_depth \in Int /\ Reached \in SUBSET Package
      /\ Collected \cap dep_pattern.packages \subseteq Reached
  BY DepsType DEF ReachInv
<1>5. Deps = world.deps
  <2>1. \A p \in Package : Deps[p] = world.deps[p]
    BY DEF Deps, Asked
  <2> QED BY <1>4, <2>1 DEF Deps
<1>6. Collected = Searched(patterns) /\ Collected \subseteq patterns.packages
  BY <1>1 DEF Collected, Searched
<1>7. Collected \cap dep_pattern.packages = Searched(patterns)
  BY <1>1, <1>6
<1>8. Reached = Level(asked_depth)
  BY <1>1, <1>5, <1>7, LevelIs DEF Reached
<1>9. Collected \subseteq Reached
  BY <1>4, <1>6, <1>7
<1>10. depth = 0 => Reached = Collected
  BY <1>1, <1>3, <1>4, <1>5, <1>6, <1>7, NoRounds, ProjectAssumption DEF Reached
<1>11. Reached \subseteq print_pattern.packages
  BY <1>3, <1>4, <1>6, <1>10 DEF print_pattern, kMatchAllBundle
<1>12. CASE cmd = "depends-on"
  <2>1. output = {e \in Reached \X Package : e[2] \in Deps[e[1]] /\ e[1] \in print_pattern.packages}
    BY <1>2, <1>12 DEF ReachInv, OutputInv
  <2>2. output = {e \in Reached \X Package : e[2] \in world.deps[e[1]]}
    BY <1>5, <1>11, <2>1
  <2> QED BY <1>8, <1>12, <2>2
<1>13. CASE cmd = "list-packages"
  BY <1>2, <1>8, <1>9, <1>13 DEF ReachInv, OutputInv
<1>14. CASE cmd \in {"list-targets", "lib-headers", "genrule-outputs"}
  <2>1. output = (Collected \cup Reached) \cap print_pattern.packages
    BY <1>2, <1>14 DEF ReachInv, OutputInv
  <2> QED BY <1>8, <1>9, <1>11, <1>14, <2>1
<1> QED BY <1>12, <1>13, <1>14

(* dwyu has read everything its targets may reach, has-dependents finds    *)
(* what depends on a target wherever it is, and lists go as deep as -r     *)
(* asks for: for every project, command line and number of packages.       *)
THEOREM FarEnough == Spec => []CommandsReachFarEnough
<1>1. ReachInv => CommandsReachFarEnough
  <2>1. ReachInv => DwyuKnowsWhatIsReached
    BY DwyuReaches DEF DwyuKnowsWhatIsReached
  <2>2. ReachInv => DependentsAreFoundEverywhere
    BY DependentsReached DEF DependentsAreFoundEverywhere
  <2>3. ReachInv => ListsGoAsDeepAsAsked
    BY ListsReach DEF ListsGoAsDeepAsAsked
  <2> QED BY <2>1, <2>2, <2>3 DEF CommandsReachFarEnough
<1>2. Init => ReachInv
  BY ElaborationInit, ReachInit DEF ReachInv
<1>3. ReachInv /\ [Next]_vars => ReachInv'
  BY ElaborationInductive, ReachSteps DEF ReachInv
<1> QED BY <1>1, <1>2, <1>3, PTL DEF Spec

-----------------------------------------------------------------------------
(* Loading the workspace.                                                  *)

\* The directory that a name is the project of, by what bazel appends.
LEMMA TildeIs ==
  ASSUME NEW n \in DirNames, n # <<>>, ~Has(n, "~"), NEW d \in DirNames, Len(d) > Len(n),
         \A i \in 1..Len(n) : d[i] = n[i], d[Len(n) + 1] = "~"
  PROVE  Bare(d) = n
<1>0. Len(n) \in Nat /\ Len(d) \in Nat /\ DOMAIN n = 1..Len(n) /\ DOMAIN d = 1..Len(d)
  BY DEF DirNames
<1>1. Len(n) + 1 \in 1..Len(d)
  BY <1>0
<1>2. Has(d, "~")
  BY <1>0, <1>1 DEF Has
<1>3. \A j \in 1..Len(n) : d[j] # "~"
  BY <1>0 DEF Has
<1> DEFINE k == First(d, "~")
<1>4. k \in DOMAIN d /\ d[k] = "~" /\ \A j \in 1..(k - 1) : d[j] # "~"
  <2>1. \A j \in 1..((Len(n) + 1) - 1) : d[j] # "~"
    BY <1>0, <1>3
  <2>2. \E i \in DOMAIN d : d[i] = "~" /\ \A j \in 1..(i - 1) : d[j] # "~"
    BY <1>0, <1>1, <2>1
  <2> QED BY <2>2 DEF First
<1> HIDE DEF k
<1>5. k = Len(n) + 1
  BY <1>0, <1>1, <1>3, <1>4
<1>6. SubSeq(d, 1, k - 1) = n
  <2>1. k - 1 = Len(n)
    BY <1>0, <1>5
  <2>2. SubSeq(d, 1, Len(n)) \in Seq(DOMAIN CharRank) /\ Len(SubSeq(d, 1, Len(n))) = Len(n)
        /\ \A i \in 1..Len(n) : SubSeq(d, 1, Len(n))[i] = d[i]
    BY <1>0 DEF DirNames
  <2>3. n \in Seq(DOMAIN CharRank)
    BY DEF DirNames
  <2> QED BY <1>0, <2>1, <2>2, <2>3
<1> QED BY <1>2, <1>6 DEF Bare, k

LEMMA PlainIs == ASSUME NEW n, IsProjectName(n) PROVE Bare(n) = n
BY DEF IsProjectName, Bare

LEMMA PlusIs ==
  ASSUME NEW n, IsProjectName(n)
  PROVE  Bare(n \o <<"+">>) = n
<1> DEFINE d == n \o <<"+">>
           C == DOMAIN CharRank \cup {"+"}
<1>1. n \in Seq(C) /\ <<"+">> \in Seq(C) /\ Len(n) \in Nat /\ n \in Seq(DOMAIN CharRank)
  BY DEF IsProjectName, MayBeName, DirNames
<1>2. d \in Seq(C) /\ Len(d) = Len(n) + 1 /\ d[Len(n) + 1] = "+" /\ \A i \in 1..Len(n) : d[i] = n[i]
  BY <1>1
<1> HIDE DEF d
<1>3. ~Has(d, "~")
  <2> SUFFICES ASSUME NEW i \in DOMAIN d, d[i] = "~" PROVE FALSE
    BY DEF Has
  <2>1. i \in 1..(Len(n) + 1)
    BY <1>2
  <2>2. i \in 1..Len(n)
    BY <1>1, <1>2, <2>1
  <2>3. i \in DOMAIN n /\ n[i] = "~"
    BY <1>1, <1>2, <2>2
  <2> QED BY <2>3 DEF IsProjectName, Has
<1>4. SubSeq(d, 1, Len(d) - 1) = n
  <2>1. Len(d) - 1 = Len(n)
    BY <1>1, <1>2
  <2>2. SubSeq(d, 1, Len(n)) \in Seq(C) /\ Len(SubSeq(d, 1, Len(n))) = Len(n)
        /\ \A i \in 1..Len(n) : SubSeq(d, 1, Len(n))[i] = d[i]
    BY <1>1, <1>2
  <2> QED BY <1>1, <1>2, <2>1, <2>2
<1>5. d # <<>> /\ d[Len(d)] = "+"
  BY <1>1, <1>2
<1> QED BY <1>3, <1>4, <1>5 DEF Bare, d

\* What is read of the name of a directory.
LEMMA DirIs ==
  ASSUME NEW d, MayBeName(d)
  PROVE  /\ MayBeName(Bare(d))
         /\ \/ ParseFromDir(d) = {} /\ Bare(d) = <<>>
            \/ \E v \in DirNames : ParseFromDir(d) = {VersionedProject(Bare(d), v)}
<1>0. d \in Seq(DOMAIN CharRank) /\ Len(d) \in Nat /\ <<>> \in DirNames
  BY DEF MayBeName, DirNames
<1>1. CASE d = <<>>
  BY <1>1 DEF Bare, ParseFromDir, NotAProject, MayBeName, Has
<1>2. CASE d # <<>> /\ ~Has(d, "~")
  <2>1. Len(d) >= 1
    BY <1>0, <1>2
  <2>2. SubSeq(d, 1, Len(d) - 1) \in Seq(DOMAIN CharRank) /\ Len(SubSeq(d, 1, Len(d) - 1)) = Len(d) - 1
        /\ \A i \in 1..(Len(d) - 1) : SubSeq(d, 1, Len(d) - 1)[i] = d[i]
    <3> DEFINE m == Len(d) - 1
    <3>1. m \in 0..Len(d)
      BY <1>0, <2>1
    <3> HIDE DEF m
    <3>2. /\ SubSeq(d, 1, m) \in Seq(DOMAIN CharRank) /\ Len(SubSeq(d, 1, m)) = m
          /\ \A i \in 1..m : SubSeq(d, 1, m)[i] = d[i]
      BY <1>0, <3>1
    <3> QED BY <3>2 DEF m
  <2>3. MayBeName(SubSeq(d, 1, Len(d) - 1))
    <3>1. SubSeq(d, 1, Len(d) - 1) # <<>> => SubSeq(d, 1, Len(d) - 1)[1] = d[1]
      BY <1>0, <2>1, <2>2
    <3> QED BY <1>2, <2>2, <3>1 DEF MayBeName, DirNames
  <2>4. ParseFromDir(d) = {VersionedProject(Bare(d), <<>>)}
    BY <1>2 DEF ParseFromDir, Bare
  <2>5. MayBeName(Bare(d))
    BY <1>2, <2>3 DEF Bare
  <2> QED BY <1>0, <2>4, <2>5
<1>3. CASE Has(d, "~")
  <2> DEFINE k == First(d, "~")
  <2>1. k \in 1..Len(d) /\ d[k] = "~" /\ \A j \in 1..(k - 1) : d[j] # "~"
    <3> DEFINE T == {i \in 1..Len(d) : d[i] = "~"}
    <3>1. T # {} /\ T \subseteq Nat
      BY <1>0, <1>3 DEF Has
    <3> HIDE DEF T
    <3>2. PICK i \in T : \A j \in T : i <= j
      BY <3>1, LeastNatural
    <3>3. i \in DOMAIN d /\ d[i] = "~" /\ \A j \in 1..(i - 1) : d[j] # "~"
      <4>1. i \in 1..Len(d) /\ d[i] = "~"
        BY <3>2 DEF T
      <4>2. ASSUME NEW j \in 1..(i - 1), d[j] = "~" PROVE FALSE
        <5>1. j \in T /\ j < i
          BY <1>0, <4>1, <4>2 DEF T
        <5> QED BY <3>1, <3>2, <5>1
      <4> QED BY <1>0, <4>1, <4>2
    <3>4. \E m \in DOMAIN d : d[m] = "~" /\ \A j \in 1..(m - 1) : d[j] # "~"
      BY <3>3
    <3> QED BY <1>0, <3>4 DEF First
  <2> HIDE DEF k
  <2>2. SubSeq(d, 1, k - 1) \in Seq(DOMAIN CharRank) /\ Len(SubSeq(d, 1, k - 1)) = k - 1
        /\ \A i \in 1..(k - 1) : SubSeq(d, 1, k - 1)[i] = d[i]
    BY <1>0, <2>1
  <2>3. MayBeName(SubSeq(d, 1, k - 1))
    <3>1. SubSeq(d, 1, k - 1) # <<>> => SubSeq(d, 1, k - 1)[1] = d[1] /\ d # <<>>
      BY <1>0, <2>1, <2>2
    <3> QED BY <2>2, <3>1 DEF MayBeName, DirNames
  <2>4. SubSeq(d, k + 1, Len(d)) \in DirNames
    BY <1>0, <2>1 DEF DirNames
  <2>5. Bare(d) = SubSeq(d, 1, k - 1)
    BY <1>3 DEF Bare, k
  <2>6. d # <<>>
    BY <1>0, <2>1
  <2>7. CASE d[1] = "~"
    <3>1. k = 1
      BY <1>0, <2>1, <2>7
    <3>2. Bare(d) = <<>>
      BY <2>2, <2>5, <3>1
    <3>3. ParseFromDir(d) = {}
      BY <1>3, <2>6, <2>7 DEF ParseFromDir, NotAProject
    <3> QED BY <2>3, <2>5, <3>2, <3>3
  <2>8. CASE d[1] # "~"
    <3>1. ParseFromDir(d) = {VersionedProject(Bare(d), SubSeq(d, k + 1, Len(d)))}
      BY <1>3, <2>5, <2>6, <2>8 DEF ParseFromDir, k
    <3> QED BY <2>3, <2>4, <2>5, <3>1
  <2> QED BY <2>7, <2>8
<1> QED BY <1>1, <1>2, <1>3

-----------------------------------------------------------------------------
(* The order of names and projects.                                        *)
LEMMA NameOrder ==
  /\ \A a \in DirNames : ~LessName(a, a) /\ ~LessName(a, <<>>)
  /\ \A a, b \in DirNames : a = b \/ LessName(a, b) \/ LessName(b, a)
  /\ \A a, b, c \in DirNames : LessName(a, b) /\ LessName(b, c) => LessName(a, c)
<1>1. CharRank \in Ranks(DOMAIN CharRank)
  BY CheckoutsAssumption DEF Ranks
<1>2. \A s, t : LessName(s, t) <=> TextLess(CharRank, s, t)
  BY DEF LessName, TextLess, TextLessAt
<1>3. \A s : ~LessName(s, <<>>)
  BY DEF LessName
<1>4. ASSUME NEW a \in DirNames, NEW b \in DirNames, a # b PROVE LessName(a, b) \/ LessName(b, a)
  BY <1>1, <1>2, <1>4, TextTotal DEF DirNames
<1>5. ASSUME NEW a \in DirNames, NEW b \in DirNames, NEW c \in DirNames, LessName(a, b), LessName(b, c)
      PROVE  LessName(a, c)
  BY <1>1, <1>2, <1>5, TextTransitive DEF DirNames
<1>6. ASSUME NEW a \in DirNames PROVE ~LessName(a, a)
  BY <1>1, <1>2, TextIrreflexive DEF DirNames
<1> QED BY <1>3, <1>4, <1>5, <1>6

LEMMA LeastNameIs ==
  ASSUME NEW T, T \subseteq DirNames, IsFiniteSet(T), T # {}
  PROVE  LeastName(T) \in T
<1> DEFINE R == {ss \in T \X T : LessName(ss[1], ss[2])}
<1>1. \A a, b \in T : <<a, b>> \in R <=> LessName(a, b)
  OBVIOUS
<1> HIDE DEF R
<1>2. \A a, b \in T : a = b \/ <<a, b>> \in R \/ <<b, a>> \in R
  BY <1>1, NameOrder
<1>3. \A a, b, c \in T : <<a, b>> \in R /\ <<b, c>> \in R => <<a, c>> \in R
  BY <1>1, NameOrder
<1>4. PICK e \in T : \A f \in T : f = e \/ <<e, f>> \in R
  BY <1>2, <1>3, FirstOf
<1>5. \A f \in T : ~LessName(f, e)
  BY <1>1, <1>4, NameOrder
<1> QED BY <1>5 DEF LeastName

Keys == [project : DirNames, version : DirNames]

LEMMA ProjectOrder ==
  /\ \A a \in Keys : ~LessProject(a, a)
  /\ \A a, b \in Keys : a = b \/ LessProject(a, b) \/ LessProject(b, a)
  /\ \A a, b, c \in Keys : LessProject(a, b) /\ LessProject(b, c) => LessProject(a, c)
<1>1. \A a \in Keys : a.project \in DirNames /\ a.version \in DirNames
  BY DEF Keys
<1>2. ASSUME NEW a \in Keys, NEW b \in Keys, a # b PROVE LessProject(a, b) \/ LessProject(b, a)
  <2>1. a.project # b.project \/ a.version # b.version
    BY <1>2 DEF Keys
  <2> QED BY <1>1, <2>1, NameOrder DEF LessProject
<1>3. ASSUME NEW a \in Keys, NEW b \in Keys, NEW c \in Keys, LessProject(a, b), LessProject(b, c)
      PROVE  LessProject(a, c)
  BY <1>1, <1>3, NameOrder DEF LessProject
<1> QED BY <1>1, <1>2, <1>3, NameOrder DEF LessProject

\* What is known of the map while it is filled.
LocationsTyped ==
  /\ IsFiniteSet(DOMAIN project_location)
  /\ \A k \in DOMAIN project_location : k \in Keys /\ project_location[k] \in DOMAIN dirs

\* The search finds the first version of the project if there is one.
LEMMA FindIs ==
  ASSUME LocationsTyped, NEW n, MayBeName(n), n # <<>>, NEW typed \in {n, <<"@">> \o n}
  PROVE  /\ FindEntryByProject(typed) = FindEntryByProject(n)
         /\ \A k \in FindEntryByProject(typed) : k \in DOMAIN project_location /\ k.project = n
         /\ (\E k \in DOMAIN project_location : k.project = n) => FindEntryByProject(typed) # {}
         /\ \A k \in FindEntryByProject(typed) :
              /\ FindEntryByProject(typed) = {k}
              /\ \A q \in DOMAIN project_location : q.project = n => ~LessName(q.version, k.version)
<1>0. n \in DirNames /\ n[1] # "@" /\ <<>> \in DirNames /\ n \in Seq(DOMAIN CharRank)
  BY DEF MayBeName, DirNames
<1> DEFINE query == VersionedProject(n, <<>>)
           behind == {k \in DOMAIN project_location : ~LessProject(k, query)}
           found == CHOOSE k \in behind : \A r \in behind : ~LessProject(r, k)
           Result == IF behind = {} THEN {} ELSE IF found.project # n THEN {} ELSE {found}
<1>1. FindEntryByProject(n) = Result
  BY <1>0 DEF FindEntryByProject, NotFound
<1>2. FindEntryByProject(typed) = Result
  <2>1. CASE typed = <<"@">> \o n
    <3> DEFINE C == DOMAIN CharRank \cup {"@"}
    <3>1. n \in Seq(C) /\ <<"@">> \in Seq(C)
      BY <1>0
    <3>2. typed \in Seq(C) /\ typed # <<>> /\ typed[1] = "@" /\ Tail(typed) = n
      BY <2>1, <3>1
    <3> QED BY <3>2 DEF FindEntryByProject, NotFound
  <2> QED BY <1>1, <2>1
<1>3. behind # {} => found \in behind /\ \A r \in behind : ~LessProject(r, found)
  <2> SUFFICES ASSUME behind # {} PROVE \E k \in behind : \A r \in behind : ~LessProject(r, k)
    OBVIOUS
  <2>1. behind \subseteq Keys /\ IsFiniteSet(behind)
    BY FS_Subset DEF LocationsTyped
  <2> HIDE DEF behind
  <2> DEFINE R == {ss \in behind \X behind : LessProject(ss[1], ss[2])}
  <2>2. \A a, b \in behind : <<a, b>> \in R <=> LessProject(a, b)
    OBVIOUS
  <2> HIDE DEF R
  <2>3. \A a, b \in behind : a = b \/ <<a, b>> \in R \/ <<b, a>> \in R
    BY <2>1, <2>2, ProjectOrder
  <2>4. \A a, b, c \in behind : <<a, b>> \in R /\ <<b, c>> \in R => <<a, c>> \in R
    BY <2>1, <2>2, ProjectOrder
  <2>5. PICK e \in behind : \A f \in behind : f = e \/ <<e, f>> \in R
    BY <2>1, <2>3, <2>4, FirstOf
  <2>6. \A f \in behind : ~LessProject(f, e)
    BY <2>1, <2>2, <2>5, ProjectOrder
  <2> QED BY <2>6
<1>a. ASSUME NEW k \in DOMAIN project_location, k.project = n PROVE k \in behind
  <2>1. k \in Keys /\ k.version \in DirNames
    BY DEF LocationsTyped, Keys
  <2> QED BY <1>0, <1>a, <2>1, NameOrder DEF LessProject, VersionedProject
<1>4. ASSUME NEW k \in DOMAIN project_location, k.project = n PROVE Result # {}
  <2>1. k \in Keys /\ k.version \in DirNames
    BY DEF LocationsTyped, Keys
  <2>2. k \in behind
    BY <1>4, <1>a
  <2>3. found \in behind /\ ~LessProject(k, found)
    BY <1>3, <2>2
  <2>4. found \in DOMAIN project_location /\ ~LessProject(found, query)
    BY <2>3
  <2>5. found.project \in DirNames
    BY <2>4 DEF LocationsTyped, Keys
  <2> HIDE DEF found
  <2>6. ~LessName(n, found.project)
    BY <1>4, <2>3 DEF LessProject
  <2>7. ~LessName(found.project, n)
    BY <2>4 DEF LessProject, VersionedProject
  <2>8. found.project = n
    BY <1>0, <2>5, <2>6, <2>7, NameOrder
  <2> QED BY <2>2, <2>8
<1>5. \A k \in Result : k \in DOMAIN project_location /\ k.project = n
  BY <1>3
<1>6. ASSUME NEW k \in Result
      PROVE  Result = {k} /\ \A q \in DOMAIN project_location : q.project = n => ~LessName(q.version, k.version)
  <2>1. Result = {found} /\ k = found /\ found.project = n
    BY <1>6
  <2>2. \A q \in DOMAIN project_location : q.project = n => ~LessProject(q, found)
    BY <1>3, <1>a
  <2> HIDE DEF found, Result
  <2> QED BY <2>1, <2>2 DEF LessProject
<1> HIDE DEF Result
<1> QED BY <1>1, <1>2, <1>4, <1>5, <1>6

-----------------------------------------------------------------------------
(* Where a project is looked for.                                          *)
LEMMA PlacesAre ==
  ASSUME NEW a, NEW b, NEW c, NEW e
  PROVE  /\ <<>> \o <<b, c, e>> = <<b, c, e>>
         /\ <<a>> \o <<b, c, e>> = <<a, b, c, e>>
         /\ <<b, c, e>> \in [1..3 -> {b, c, e}]
         /\ <<a, b, c, e>> \in [1..4 -> {a, b, c, e}]
<1> DEFINE S == {a, b, c, e}
           s == <<b, c, e>>
           o == <<a>>
           w == <<a, b, c, e>>
<1>1. s \in Seq(S) /\ Len(s) = 3 /\ o \in Seq(S) /\ Len(o) = 1 /\ w \in Seq(S) /\ Len(w) = 4
  OBVIOUS
<1>2. s[1] = b /\ s[2] = c /\ s[3] = e /\ o[1] = a /\ w[1] = a /\ w[2] = b /\ w[3] = c /\ w[4] = e
  OBVIOUS
<1>3. s \in [1..3 -> {b, c, e}] /\ w \in [1..4 -> {a, b, c, e}]
  OBVIOUS
<1> HIDE DEF S, s, o, w
<1>4. <<>> \o s = s
  BY <1>1
<1>5. o \o s = w
  <2> DEFINE t == o \o s
  <2>0. /\ t \in Seq(S) /\ Len(t) = Len(o) + Len(s)
        /\ \A i \in 1..Len(o) + Len(s) : t[i] = IF i <= Len(o) THEN o[i] ELSE s[i - Len(o)]
    BY <1>1, ConcatProperties, Zenon
  <2>1. t \in Seq(S) /\ Len(t) = Len(o) + Len(s)
        /\ \A i \in 1..Len(t) : t[i] = IF i <= Len(o) THEN o[i] ELSE s[i - Len(o)]
    <3> HIDE DEF t
    <3> QED BY <2>0
  <2> HIDE DEF t
  <2>3. Len(t) = 4
    BY <1>1, <2>1
  <2>4. t[1] = o[1]
    BY <1>1, <2>1, <2>3
  <2>5. t[2] = s[1] /\ t[3] = s[2] /\ t[4] = s[3]
    BY <1>1, <2>1, <2>3
  <2>6. \A i \in 1..4 : i = 1 \/ i = 2 \/ i = 3 \/ i = 4
    OBVIOUS
  <2>7. \A i \in 1..4 : t[i] = w[i]
    BY <1>2, <2>4, <2>5, <2>6
  <2>8. t = w
    BY <1>1, <2>1, <2>3, <2>7
  <2> QED BY <2>8 DEF t
<1> QED BY <1>3, <1>4, <1>5 DEF s, o, w

LEMMA ProjectDirIs ==
  ASSUME \A d \in DOMAIN dirs : MayBeName(d), IsFiniteSet(DOMAIN dirs), NEW r \in Declarations, NEW d \in ProjectDir(r)
  PROVE  d \in DOMAIN dirs /\ Bare(d) = r.name
<1> DEFINE n == r.name
           tried == search_dirs(r)
<1>1. IsProjectName(n) /\ n \in DirNames /\ r.version \in DirNames /\ n # <<>> /\ ~Has(n, "~")
  BY DEF Declarations, IsProjectName, MayBeName
<1>2. Len(n) \in Nat /\ n \in Seq(DOMAIN CharRank) /\ r.version \in Seq(DOMAIN CharRank)
  BY <1>1 DEF DirNames
<1> HIDE DEF n
\* What has a "~" behind the name.
<1>3. ASSUME NEW v, NEW S, v \in Seq(S), n \o <<"~">> \o v \in DirNames
      PROVE  Bare(n \o <<"~">> \o v) = n
  <2> DEFINE w == n \o <<"~">> \o v
             C == DOMAIN CharRank \cup {"~"} \cup S
  <2>1. n \in Seq(C) /\ <<"~">> \in Seq(C) /\ v \in Seq(C)
    BY <1>2, <1>3
  <2>2. Len(w) > Len(n) /\ w[Len(n) + 1] = "~" /\ \A i \in 1..Len(n) : w[i] = n[i]
    BY <2>1
  <2> QED BY <1>1, <1>3, <2>2, TildeIs
<1>4. CASE d \in maybe_match(r)
  <2> DEFINE names == {e \in DOMAIN dirs : /\ Len(e) > Len(n)
                                           /\ SubSeq(e, 1, Len(n) + 1) = n \o <<"~">>}
  <2>1. d = LeastName(names) /\ names # {}
    BY <1>4 DEF maybe_match, n
  <2>2. names \subseteq DirNames /\ IsFiniteSet(names)
    BY FS_Subset DEF MayBeName
  <2>3. d \in names
    BY <2>1, <2>2, LeastNameIs
  <2>4. d \in DOMAIN dirs /\ d \in DirNames /\ Len(d) > Len(n) /\ SubSeq(d, 1, Len(n) + 1) = n \o <<"~">>
    BY <2>3 DEF MayBeName
  <2>5. Len(d) \in Nat /\ d \in Seq(DOMAIN CharRank)
    BY <2>4 DEF DirNames
  <2> DEFINE m == Len(n) + 1
  <2>6. m \in 1..Len(d)
    BY <1>2, <2>4, <2>5
  <2>7. \A i \in 1..m : SubSeq(d, 1, m)[i] = d[i]
    <3> HIDE DEF m
    <3> QED BY <2>5, <2>6
  <2>8. (n \o <<"~">>)[m] = "~" /\ \A i \in 1..Len(n) : (n \o <<"~">>)[i] = n[i]
    <3> DEFINE C == DOMAIN CharRank \cup {"~"}
    <3>1. n \in Seq(C) /\ <<"~">> \in Seq(C)
      BY <1>2
    <3> QED BY <3>1
  <2>9. d[m] = "~" /\ \A i \in 1..Len(n) : d[i] = n[i]
    <3>1. m \in 1..m /\ \A i \in 1..Len(n) : i \in 1..m
      BY <1>2
    <3> QED BY <2>4, <2>7, <2>8, <3>1
  <2>10. Bare(d) = n
    BY <1>1, <2>4, <2>9, TildeIs
  <2> QED BY <2>4, <2>10 DEF n
<1>5. CASE d \notin maybe_match(r)
  <2> DEFINE usable == {i \in DOMAIN tried : Usable(tried[i])}
  <2> DEFINE Places == {n \o <<"~">> \o r.version, n, n \o <<"~", "override">>, n \o <<"+">>}
  <2>0. tried \in [1..3 -> Places] \/ tried \in [1..4 -> Places]
    <3> DEFINE a == n \o <<"~">> \o r.version
               b == n \o <<"~", "override">>
               c == n \o <<"+">>
    <3>1. tried = (IF r.version = <<>> THEN <<>> ELSE <<a>>) \o <<n, b, c>>
      BY DEF search_dirs, n
    <3>2. a \in Places /\ n \in Places /\ b \in Places /\ c \in Places
      OBVIOUS
    <3> HIDE DEF tried, a, b, c
    <3>3. /\ <<>> \o <<n, b, c>> = <<n, b, c>> /\ <<a>> \o <<n, b, c>> = <<a, n, b, c>>
          /\ <<n, b, c>> \in [1..3 -> {n, b, c}] /\ <<a, n, b, c>> \in [1..4 -> {a, n, b, c}]
      BY PlacesAre
    <3>4. {n, b, c} \subseteq Places /\ {a, n, b, c} \subseteq Places
      BY <3>2
    <3> HIDE DEF Places
    <3>5. CASE r.version = <<>>
      <4>1. tried = <<n, b, c>>
        BY <3>1, <3>3, <3>5
      <4> QED BY <3>3, <3>4, <4>1
    <3>6. CASE r.version # <<>>
      <4>1. tried = <<a, n, b, c>>
        BY <3>1, <3>3, <3>6
      <4> QED BY <3>3, <3>4, <4>1
    <3> QED BY <3>5, <3>6
  <2> HIDE DEF Places
  <2>1. usable # {} /\ d = tried[CHOOSE i \in usable : \A j \in usable : i <= j]
    BY <1>5 DEF ProjectDir
  <2>2. usable \subseteq Nat
    BY <2>0
  <2>3. \E i \in usable : \A j \in usable : i <= j
    BY <2>1, <2>2, LeastNatural
  <2>4. PICK i \in usable : d = tried[i]
    BY <2>1, <2>3
  <2>5. d \in DOMAIN dirs /\ d \in DirNames
    BY <2>4 DEF Usable, MayBeName
  <2>6. d \in {n \o <<"~">> \o r.version, n, n \o <<"~", "override">>, n \o <<"+">>}
    BY <2>0, <2>4 DEF Places
  <2> HIDE DEF tried, usable
  <2>7. CASE d = n \o <<"~">> \o r.version
    BY <1>2, <1>3, <2>5, <2>7 DEF n
  <2>8. CASE d = n
    BY <1>1, <2>5, <2>8, PlainIs DEF n
  <2>9. CASE d = n \o <<"~", "override">>
    <3>1. n \o <<"~", "override">> = n \o <<"~">> \o <<"override">>
      <4> DEFINE C == DOMAIN CharRank \cup {"~", "override"}
      <4>1. n \in Seq(C)
        BY <1>2
      <4> QED BY <4>1
    <3>2. <<"override">> \in Seq({"override"})
      OBVIOUS
    <3> QED BY <1>3, <2>5, <2>9, <3>1, <3>2 DEF n
  <2>10. CASE d = n \o <<"+">>
    BY <1>1, <2>5, <2>10, PlusIs DEF n
  <2> QED BY <2>6, <2>7, <2>8, <2>9, <2>10
<1> QED BY <1>4, <1>5

LEMMA OneDirectory == \A r : ProjectDir(r) # {} => \E d : ProjectDir(r) = {d}
BY DEF ProjectDir, maybe_match

\* The very version is looked for first.
LEMMA VeryVersionIs ==
  ASSUME NEW r \in Declarations, r.version # <<>>, Usable(Exact(r))
  PROVE  ProjectDir(r) = {Exact(r)}
<1> DEFINE tried == search_dirs(r)
           usable == {i \in DOMAIN tried : Usable(tried[i])}
<1>1. tried = <<Exact(r), r.name, r.name \o <<"~", "override">>, r.name \o <<"+">>>>
  <2> DEFINE n == r.name
             a == Exact(r)
             b == r.name \o <<"~", "override">>
             c == r.name \o <<"+">>
  <2>1. tried = <<a>> \o <<n, b, c>>
    BY DEF search_dirs, Exact
  <2> HIDE DEF tried, n, a, b, c
  <2>2. /\ <<>> \o <<n, b, c>> = <<n, b, c>> /\ <<a>> \o <<n, b, c>> = <<a, n, b, c>>
        /\ <<n, b, c>> \in [1..3 -> {n, b, c}] /\ <<a, n, b, c>> \in [1..4 -> {a, n, b, c}]
    BY PlacesAre
  <2> QED BY <2>1, <2>2 DEF n, a, b, c
<1>2. ProjectDir(r) = IF usable = {} THEN maybe_match(r)
                      ELSE {tried[CHOOSE i \in usable : \A j \in usable : i <= j]}
  BY DEF ProjectDir
<1> HIDE DEF tried
<1>3. tried[1] = Exact(r) /\ 1 \in usable /\ usable \subseteq 1..4
  BY <1>1
<1>4. (CHOOSE i \in usable : \A j \in usable : i <= j) = 1
  <2>1. 1 \in usable /\ \A j \in usable : 1 <= j
    BY <1>3
  <2>2. \A i \in usable : (\A j \in usable : i <= j) => i = 1
    BY <1>3
  <2> HIDE DEF usable
  <2> QED BY <2>1, <2>2
<1> QED BY <1>2, <1>3, <1>4
-----------------------------------------------------------------------------
Waiting == {rules[i] : i \in DOMAIN rules}
KeysOf(r) == {VersionedProject(n, r.version) : n \in NamesOf(r)}
Stored(r) == ProjectDir(r) # {} => KeysOf(r) \subseteq DOMAIN project_location

WorkspaceTyped ==
  /\ \A i \in 1..4 : ws_files[i].rules \in Seq(Declarations)
  /\ IsFiniteSet(DOMAIN dirs) /\ \A d \in DOMAIN dirs : MayBeName(d)
  /\ ws \in 0..5 /\ (ws = 5 => rules = <<>>)
  /\ rules \in Seq(Declarations) /\ Waiting \subseteq Rules
  /\ project_dirs \subseteq DOMAIN dirs /\ (ws < 5 => project_dirs = {})
  /\ LocationsTyped /\ \A k \in DOMAIN project_location : MayBeName(k.project)

\* A name leads to its own directory, or the workspace gave it away.
NamesAreOwn ==
  \A k \in DOMAIN project_location :
    Bare(project_location[k]) = k.project \/ \E r \in Rules : r.repo_name = k.project
\* What was read is in the map, or is about to be.
RulesAreStored ==
  \A i \in 1..4 : i <= ws => \A j \in DOMAIN ws_files[i].rules :
    ws_files[i].rules[j] \in Waiting \/ Stored(ws_files[i].rules[j])
DirsAreAdded ==
  ws = 5 => \A d \in DOMAIN dirs \ project_dirs :
    dirs[d] # "file" /\ Bare(d) # <<>> => \E k \in DOMAIN project_location : k.project = Bare(d)
\* A name that was declared for a project that is there stands for nothing but
\* declared versions of such projects.
Gives(s, k) ==
  k.project \in NamesOf(s) /\ k.version = s.version /\ ProjectDir(s) = {project_location[k]}
VersionsAreDeclared ==
  \A k \in DOMAIN project_location :
    Present(k.project) # {} => \E s \in Rules : Gives(s, k)
WorkspaceInv == WorkspaceTyped /\ NamesAreOwn /\ RulesAreStored /\ DirsAreAdded /\ VersionsAreDeclared

LEMMA RulesAre ==
  ASSUME \A i \in 1..4 : ws_files[i].rules \in Seq(Declarations)
  PROVE  /\ Rules \subseteq Declarations
         /\ \A r \in Rules : \E i \in 1..4 : \E j \in DOMAIN ws_files[i].rules : r = ws_files[i].rules[j]
<1>1. \A r \in Rules : \E i \in 1..4 : \E j \in DOMAIN ws_files[i].rules : r = ws_files[i].rules[j]
  BY DEF Rules
<1>2. ASSUME NEW i \in 1..4, NEW j \in DOMAIN ws_files[i].rules PROVE ws_files[i].rules[j] \in Declarations
  <2> DEFINE s == ws_files[i].rules
  <2>1. s \in Seq(Declarations) /\ j \in DOMAIN s
    OBVIOUS
  <2> HIDE DEF s
  <2>2. s[j] \in Declarations
    BY <2>1
  <2> QED BY <2>2 DEF s
<1> QED BY <1>1, <1>2

LEMMA NamesAre ==
  ASSUME NEW r \in Declarations
  PROVE  /\ \A n \in NamesOf(r) : MayBeName(n) /\ n # <<>>
         /\ \A k \in KeysOf(r) : k \in Keys /\ k.project \in NamesOf(r) /\ k.version = r.version
         /\ IsFiniteSet(KeysOf(r)) /\ r.name \in NamesOf(r)
         /\ \A n \in NamesOf(r) : n = r.name \/ n = r.repo_name
         /\ \A n \in NamesOf(r) : \E k \in KeysOf(r) : k.project = n
<1>1. r.name \in DirNames /\ r.version \in DirNames /\ IsProjectName(r.name) /\ MayBeName(r.repo_name)
  BY DEF Declarations
<1>2. \A n \in NamesOf(r) : MayBeName(n) /\ n # <<>> /\ (n = r.name \/ n = r.repo_name)
  BY <1>1 DEF NamesOf, IsProjectName
<1>3. \A k \in KeysOf(r) : \E n \in NamesOf(r) : k = VersionedProject(n, r.version)
  BY DEF KeysOf
<1>4. \A k \in KeysOf(r) : k \in Keys /\ k.project \in NamesOf(r) /\ k.version = r.version
  BY <1>1, <1>2, <1>3 DEF VersionedProject, Keys, MayBeName
<1>5. IsFiniteSet(KeysOf(r))
  <2> DEFINE a == VersionedProject(r.name, r.version)
             b == VersionedProject(r.repo_name, r.version)
  <2>1. KeysOf(r) \subseteq {a} \cup {b}
    BY <1>2, <1>3
  <2> HIDE DEF a, b
  <2>2. IsFiniteSet({a})
    BY FS_Singleton, Zenon
  <2>3. IsFiniteSet({a} \cup {b})
    BY <2>2, FS_AddElement
  <2> DEFINE K == KeysOf(r)
             T == {a} \cup {b}
  <2>4. K \subseteq T /\ IsFiniteSet(T)
    BY <2>1, <2>3
  <2> HIDE DEF K, T
  <2>5. IsFiniteSet(K)
    BY <2>4, FS_Subset
  <2> QED BY <2>5 DEF K
<1>6. \A n \in NamesOf(r) : \E k \in KeysOf(r) : k.project = n
  <2>1. \A n \in NamesOf(r) : VersionedProject(n, r.version) \in KeysOf(r) /\ VersionedProject(n, r.version).project = n
    BY DEF KeysOf, VersionedProject
  <2> QED BY <2>1
<1>7. r.name \in NamesOf(r)
  BY DEF NamesOf
<1> QED BY <1>2, <1>4, <1>5, <1>6, <1>7

\* The directories and the files do not change.
LEMMA PlacesStay ==
  ASSUME UNCHANGED <<ws_files, dirs>>
  PROVE  /\ Rules' = Rules
         /\ \A r : ProjectDir(r)' = ProjectDir(r)
         /\ \A d : Usable(d)' <=> Usable(d)
         /\ \A n : Present(n)' = Present(n)
<1>1. \A d : Usable(d)' <=> Usable(d)
  BY DEF Usable
<1>2. \A r : maybe_match(r)' = maybe_match(r)
  BY <1>1 DEF maybe_match, Usable
<1>3. \A r : ProjectDir(r)' = ProjectDir(r)
  BY <1>1, <1>2 DEF ProjectDir, Usable
<1>4. Rules' = Rules
  BY DEF Rules
<1>5. \A n : Present(n)' = Present(n)
  BY <1>3, <1>4 DEF Present, NamesOf
<1> QED BY <1>1, <1>3, <1>4, <1>5

\* Where the map does not change, nothing it stands for does.
LEMMA VersionsStay ==
  ASSUME VersionsAreDeclared, UNCHANGED <<ws_files, dirs, project_location>>
  PROVE  VersionsAreDeclared'
<1>1. /\ Rules' = Rules /\ (\A r : ProjectDir(r)' = ProjectDir(r)) /\ \A n : Present(n)' = Present(n)
  BY PlacesStay
<1>2. \A s, k : Gives(s, k) => Gives(s, k)'
  BY <1>1 DEF Gives, NamesOf
<1> QED BY <1>1, <1>2 DEF VersionsAreDeclared

LEMMA InitialWorkspace == ASSUME LoadInit PROVE WorkspaceInv
<1>1. PICK w \in Checkouts : ws_files = w.files /\ dirs = w.dirs
  BY DEF LoadInit
<1>2. ws = 0 /\ rules = <<>> /\ project_location = <<>> /\ project_dirs = {}
  BY DEF LoadInit
<1>3. DOMAIN project_location = {} /\ Waiting = {} /\ rules \in Seq(Declarations)
  BY <1>2 DEF Waiting
<1>4. LocationsTyped
  BY <1>3, FS_EmptySet DEF LocationsTyped
<1>5. /\ \A i \in 1..4 : ws_files[i].rules \in Seq(Declarations)
      /\ IsFiniteSet(DOMAIN dirs) /\ \A d \in DOMAIN dirs : MayBeName(d)
  BY <1>1, CheckoutsAssumption
<1>6. WorkspaceTyped
  BY <1>2, <1>3, <1>4, <1>5 DEF WorkspaceTyped
<1>7. NamesAreOwn /\ VersionsAreDeclared
  BY <1>3 DEF NamesAreOwn, VersionsAreDeclared
<1>8. RulesAreStored /\ DirsAreAdded
  BY <1>2 DEF RulesAreStored, DirsAreAdded
<1> QED BY <1>6, <1>7, <1>8 DEF WorkspaceInv

LEMMA OpenFileStep == ASSUME WorkspaceInv, OpenFile PROVE WorkspaceInv'
<1>0. /\ WorkspaceTyped /\ rules = <<>> /\ ws < 4 /\ ws' = ws + 1 /\ rules' = ws_files[ws + 1].rules
      /\ UNCHANGED <<ws_files, dirs, project_location, project_dirs>>
  BY DEF WorkspaceInv, OpenFile
<1>1. ws \in 0..5 /\ ws' \in 1..4
  BY <1>0 DEF WorkspaceTyped
<1>2. Rules' = Rules /\ (\A r : ProjectDir(r)' = ProjectDir(r)) /\ \A d : Usable(d)' <=> Usable(d)
  BY <1>0, PlacesStay
<1>3. rules' = ws_files[ws'].rules /\ rules' \in Seq(Declarations)
  BY <1>0, <1>1 DEF WorkspaceTyped
<1>4. Waiting' = {ws_files[ws'].rules[j] : j \in DOMAIN ws_files[ws'].rules}
  BY <1>3 DEF Waiting
<1>5. Waiting' \subseteq Rules
  BY <1>1, <1>4 DEF Rules
<1>6. LocationsTyped'
  BY <1>0 DEF LocationsTyped, WorkspaceTyped
<1>7. WorkspaceTyped'
  BY <1>0, <1>1, <1>2, <1>3, <1>5, <1>6 DEF WorkspaceTyped
<1>8. NamesAreOwn' /\ VersionsAreDeclared'
  BY <1>0, <1>2, VersionsStay DEF WorkspaceInv, NamesAreOwn
<1>9. RulesAreStored'
  <2> SUFFICES ASSUME NEW i \in 1..4, i <= ws', NEW j \in DOMAIN ws_files[i].rules
               PROVE  ws_files[i].rules[j] \in Waiting' \/ Stored(ws_files[i].rules[j])'
    BY <1>0 DEF RulesAreStored
  <2>1. CASE i = ws'
    BY <1>4, <2>1
  <2>2. CASE i # ws'
    <3>1. i <= ws
      BY <1>0, <1>1, <2>2
    <3>2. Waiting = {}
      BY <1>0 DEF Waiting
    <3>3. Stored(ws_files[i].rules[j])
      BY <3>1, <3>2 DEF WorkspaceInv, RulesAreStored
    <3> QED BY <1>0, <1>2, <3>3 DEF Stored
  <2> QED BY <2>1, <2>2
<1>10. DirsAreAdded'
  BY <1>1 DEF DirsAreAdded
<1> QED BY <1>7, <1>8, <1>9, <1>10 DEF WorkspaceInv

LEMMA StartAugmentStep == ASSUME WorkspaceInv, StartAugment PROVE WorkspaceInv'
<1>0. /\ WorkspaceTyped /\ rules = <<>> /\ ws = 4 /\ ws' = 5 /\ project_dirs' = DOMAIN dirs
      /\ UNCHANGED <<ws_files, dirs, rules, project_location>>
  BY DEF WorkspaceInv, StartAugment
<1>1. Rules' = Rules /\ (\A r : ProjectDir(r)' = ProjectDir(r)) /\ \A d : Usable(d)' <=> Usable(d)
  BY <1>0, PlacesStay
<1>2. LocationsTyped' /\ Waiting' = Waiting
  BY <1>0 DEF LocationsTyped, WorkspaceTyped, Waiting
<1>3. WorkspaceTyped'
  BY <1>0, <1>1, <1>2 DEF WorkspaceTyped
<1>4. NamesAreOwn' /\ VersionsAreDeclared'
  BY <1>0, <1>1, VersionsStay DEF WorkspaceInv, NamesAreOwn
<1>5. RulesAreStored'
  <2> SUFFICES ASSUME NEW i \in 1..4, NEW j \in DOMAIN ws_files[i].rules
               PROVE  ws_files[i].rules[j] \in Waiting' \/ Stored(ws_files[i].rules[j])'
    BY <1>0 DEF RulesAreStored
  <2>1. ws_files[i].rules[j] \in Waiting \/ Stored(ws_files[i].rules[j])
    BY <1>0 DEF WorkspaceInv, RulesAreStored
  <2> QED BY <1>0, <1>1, <1>2, <2>1 DEF Stored
<1>6. DirsAreAdded'
  BY <1>0 DEF DirsAreAdded
<1> QED BY <1>3, <1>4, <1>5, <1>6 DEF WorkspaceInv

LEMMA DeclareStep == ASSUME WorkspaceInv, Declare PROVE WorkspaceInv'
<1>r. PICK r : r = Head(rules)
  OBVIOUS
<1>0. /\ WorkspaceTyped /\ rules # <<>> /\ rules' = Tail(rules)
      /\ UNCHANGED <<ws_files, dirs, ws, project_dirs>>
  BY DEF WorkspaceInv, Declare
<1>1. Rules' = Rules /\ (\A s : ProjectDir(s)' = ProjectDir(s)) /\ \A d : Usable(d)' <=> Usable(d)
  BY <1>0, PlacesStay
<1>2. rules \in Seq(Declarations) /\ Waiting \subseteq Rules
  BY <1>0 DEF WorkspaceTyped
<1>3. r \in Declarations /\ r \in Waiting /\ rules' \in Seq(Declarations)
  <2>1. Len(rules) \in Nat /\ Len(rules) >= 1 /\ rules[1] \in Declarations /\ r = rules[1]
    BY <1>0, <1>2, <1>r
  <2> QED BY <1>0, <1>2, <2>1 DEF Waiting
<1>4. Waiting' \subseteq Waiting /\ Waiting \subseteq {r} \cup Waiting'
  <2>1. Len(rules) \in Nat /\ Len(rules) >= 1 /\ DOMAIN rules = 1..Len(rules) /\ r = rules[1]
    BY <1>0, <1>2, <1>r
  <2>2. Len(rules') = Len(rules) - 1 /\ DOMAIN rules' = 1..(Len(rules) - 1)
        /\ \A i \in 1..(Len(rules) - 1) : rules'[i] = rules[i + 1]
    BY <1>0, <1>2, <2>1
  <2>3. ASSUME NEW i \in 1..Len(rules) PROVE rules[i] \in {r} \cup Waiting'
    <3>1. CASE i = 1
      BY <2>1, <3>1
    <3>2. CASE i # 1
      <4>1. i - 1 \in 1..(Len(rules) - 1) /\ (i - 1) + 1 = i
        BY <2>1, <2>3, <3>2
      <4>2. rules'[i - 1] = rules[i]
        BY <2>2, <4>1
      <4> QED BY <2>2, <4>1, <4>2 DEF Waiting
    <3> QED BY <3>1, <3>2
  <2>4. ASSUME NEW i \in 1..(Len(rules) - 1) PROVE rules'[i] \in Waiting
    <3>1. i + 1 \in DOMAIN rules /\ rules'[i] = rules[i + 1]
      BY <2>1, <2>2, <2>4
    <3> QED BY <3>1 DEF Waiting
  <2> QED BY <2>1, <2>2, <2>3, <2>4 DEF Waiting
<1>5. r \in Rules /\ \A k \in KeysOf(r) : k \in Keys /\ k.project \in NamesOf(r) /\ k.version = r.version
  BY <1>2, <1>3, NamesAre
<1>6. \/ ProjectDir(r) = {} /\ UNCHANGED project_location
      \/ /\ ProjectDir(r) # {}
         /\ project_location' = [q \in DOMAIN project_location \cup KeysOf(r) |->
              IF q \in KeysOf(r) THEN CHOOSE d \in ProjectDir(r) : TRUE ELSE project_location[q]]
  BY <1>r DEF Declare, KeysOf, NamesOf
<1>7. CASE ProjectDir(r) = {} /\ UNCHANGED project_location
  <2>1. LocationsTyped'
    BY <1>0, <1>7 DEF LocationsTyped, WorkspaceTyped
  <2>2. WorkspaceTyped'
    BY <1>0, <1>1, <1>2, <1>3, <1>4, <1>7, <2>1 DEF WorkspaceTyped
  <2>3. NamesAreOwn' /\ VersionsAreDeclared' /\ DirsAreAdded'
    BY <1>0, <1>1, <1>7, VersionsStay DEF WorkspaceInv, NamesAreOwn, DirsAreAdded
  <2>4. RulesAreStored'
    <3> SUFFICES ASSUME NEW i \in 1..4, i <= ws, NEW j \in DOMAIN ws_files[i].rules,
                        NEW s, s = ws_files[i].rules[j]
                 PROVE  s \in Waiting' \/ Stored(s)'
      BY <1>0 DEF RulesAreStored, Stored
    <3>1. s \in Waiting \/ Stored(s)
      BY DEF WorkspaceInv, RulesAreStored
    <3>2. Stored(s) => Stored(s)'
      BY <1>1, <1>7 DEF Stored
    <3>3. Stored(r)'
      BY <1>1, <1>7 DEF Stored
    <3> QED BY <1>4, <3>1, <3>2, <3>3
  <2> QED BY <2>2, <2>3, <2>4 DEF WorkspaceInv
<1>8. CASE /\ ProjectDir(r) # {}
           /\ project_location' = [q \in DOMAIN project_location \cup KeysOf(r) |->
                IF q \in KeysOf(r) THEN CHOOSE d \in ProjectDir(r) : TRUE ELSE project_location[q]]
  <2> DEFINE dir == CHOOSE d \in ProjectDir(r) : TRUE
  <2>1. dir \in ProjectDir(r)
    BY <1>8
  <2>2. /\ DOMAIN project_location' = DOMAIN project_location \cup KeysOf(r)
        /\ \A q \in DOMAIN project_location' :
             project_location'[q] = IF q \in KeysOf(r) THEN dir ELSE project_location[q]
    BY <1>8
  <2> HIDE DEF dir
  <2>3. dir \in DOMAIN dirs /\ Bare(dir) = r.name
    BY <1>0, <1>3, <2>1, ProjectDirIs DEF WorkspaceTyped
  <2>4. \A k \in KeysOf(r) : MayBeName(k.project)
    BY <1>3, <1>5, NamesAre
  <2>5. IsFiniteSet(DOMAIN project_location')
    <3>1. IsFiniteSet(DOMAIN project_location) /\ IsFiniteSet(KeysOf(r))
      BY <1>0, <1>3, NamesAre DEF WorkspaceTyped, LocationsTyped
    <3> QED BY <2>2, <3>1, FS_Union
  <2>6. LocationsTyped'
    BY <1>0, <1>5, <2>2, <2>3, <2>5 DEF WorkspaceTyped, LocationsTyped
  <2>7. \A k \in DOMAIN project_location' : MayBeName(k.project)
    BY <1>0, <2>2, <2>4 DEF WorkspaceTyped
  <2>8. WorkspaceTyped'
    BY <1>0, <1>1, <1>2, <1>3, <1>4, <2>6, <2>7 DEF WorkspaceTyped
  <2>9. NamesAreOwn'
    <3> SUFFICES ASSUME NEW k \in DOMAIN project_location'
                 PROVE  Bare(project_location'[k]) = k.project \/ \E s \in Rules : s.repo_name = k.project
      BY <1>1 DEF NamesAreOwn
    <3>1. CASE k \in KeysOf(r)
      BY <1>3, <1>5, <2>2, <2>3, <3>1, NamesAre
    <3>2. CASE k \notin KeysOf(r)
      BY <2>2, <3>2 DEF WorkspaceInv, NamesAreOwn
    <3> QED BY <3>1, <3>2
  <2>10. RulesAreStored'
    <3> SUFFICES ASSUME NEW i \in 1..4, i <= ws, NEW j \in DOMAIN ws_files[i].rules,
                        NEW s, s = ws_files[i].rules[j]
                 PROVE  s \in Waiting' \/ Stored(s)'
      BY <1>0 DEF RulesAreStored, Stored
    <3>1. s \in Waiting \/ Stored(s)
      BY DEF WorkspaceInv, RulesAreStored
    <3>2. KeysOf(s)' = KeysOf(s)
      BY DEF KeysOf
    <3>3. Stored(s) => Stored(s)'
      BY <1>1, <2>2, <3>2 DEF Stored
    <3>4. Stored(r)'
      BY <2>2 DEF Stored
    <3> QED BY <1>4, <3>1, <3>3, <3>4
  <2>11. DirsAreAdded'
    BY <1>0, <2>2 DEF WorkspaceInv, DirsAreAdded
  <2>12. VersionsAreDeclared'
    <3>1. \A n : Present(n)' = Present(n)
      BY <1>0, PlacesStay
    <3> SUFFICES ASSUME NEW k \in DOMAIN project_location', Present(k.project) # {}
                 PROVE  \E s \in Rules : Gives(s, k)'
      BY <1>1, <3>1 DEF VersionsAreDeclared
    <3>2. CASE k \in KeysOf(r)
      <4>1. ProjectDir(r) = {dir}
        BY <2>1, OneDirectory
      <4>2. Gives(r, k)'
        BY <1>1, <1>5, <2>2, <3>2, <4>1 DEF Gives, NamesOf
      <4> QED BY <1>5, <4>2
    <3>3. CASE k \notin KeysOf(r)
      <4>1. k \in DOMAIN project_location /\ project_location'[k] = project_location[k]
        BY <2>2, <3>3
      <4>2. PICK s \in Rules : Gives(s, k)
        BY <4>1 DEF WorkspaceInv, VersionsAreDeclared
      <4>3. Gives(s, k)'
        BY <1>1, <4>1, <4>2 DEF Gives, NamesOf
      <4> QED BY <4>3
    <3> QED BY <3>2, <3>3
  <2> QED BY <2>8, <2>9, <2>10, <2>11, <2>12 DEF WorkspaceInv
<1> QED BY <1>6, <1>7, <1>8

LEMMA AugmentStep == ASSUME WorkspaceInv, Augment PROVE WorkspaceInv'
<1> DEFINE dir == LeastName(project_dirs)
           found == ParseFromDir(dir)
           key == CHOOSE k \in found : TRUE
<1>0. /\ WorkspaceTyped /\ project_dirs # {} /\ project_dirs' = project_dirs \ {dir}
      /\ UNCHANGED <<ws_files, dirs, ws, rules>>
  BY DEF WorkspaceInv, Augment
<1>1. Rules' = Rules /\ (\A s : ProjectDir(s)' = ProjectDir(s)) /\ \A d : Usable(d)' <=> Usable(d)
  BY <1>0, PlacesStay
<1>2. dir \in DOMAIN dirs /\ MayBeName(dir) /\ dir \in project_dirs
  <2>1. project_dirs \subseteq DOMAIN dirs /\ IsFiniteSet(DOMAIN dirs) /\ \A d \in DOMAIN dirs : MayBeName(d)
    BY <1>0 DEF WorkspaceTyped
  <2>2. project_dirs \subseteq DirNames /\ IsFiniteSet(project_dirs)
    BY <2>1, FS_Subset DEF MayBeName
  <2>3. dir \in project_dirs
    BY <1>0, <2>2, LeastNameIs
  <2> QED BY <2>1, <2>3
<1>3. ws = 5 /\ rules = <<>> /\ Waiting = {} /\ Waiting' = Waiting
  <2>1. ws = 5 /\ rules = <<>>
    BY <1>0 DEF WorkspaceTyped
  <2> QED BY <1>0, <2>1 DEF Waiting
<1>4. MayBeName(Bare(dir)) /\ (\/ found = {} /\ Bare(dir) = <<>>
                              \/ \E v \in DirNames : found = {VersionedProject(Bare(dir), v)})
  BY <1>2, DirIs
<1>5. \/ UNCHANGED project_location /\ (dirs[dir] = "file" \/ \A k \in found : FindPathByProject(k.project) # {})
      \/ /\ UNCHANGED dirs /\ project_location' = Store(project_location, key, dir)
         /\ ~\A k \in found : FindPathByProject(k.project) # {}
  BY <1>0 DEF Augment, NotFound
<1>6. LocationsTyped
  BY <1>0 DEF WorkspaceTyped
<1>7. \A n : MayBeName(n) /\ n # <<>> /\ FindPathByProject(n) # {} => \E k \in DOMAIN project_location : k.project = n
  <2> SUFFICES ASSUME NEW n, MayBeName(n), n # <<>>, FindPathByProject(n) # {}
               PROVE  \E k \in DOMAIN project_location : k.project = n
    OBVIOUS
  <2>1. FindEntryByProject(n) # {}
    BY DEF FindPathByProject
  <2> QED BY <1>6, <2>1, FindIs
<1> HIDE DEF dir, found, key
<1>8. CASE UNCHANGED project_location /\ (dirs[dir] = "file" \/ \A k \in found : FindPathByProject(k.project) # {})
  <2>1. LocationsTyped'
    BY <1>0, <1>6, <1>8 DEF LocationsTyped
  <2>2. WorkspaceTyped'
    BY <1>0, <1>1, <1>3, <1>8, <2>1 DEF WorkspaceTyped
  <2>3. NamesAreOwn' /\ VersionsAreDeclared'
    BY <1>0, <1>1, <1>8, VersionsStay DEF WorkspaceInv, NamesAreOwn
  <2>4. RulesAreStored'
    BY <1>0, <1>1, <1>3, <1>8 DEF WorkspaceInv, RulesAreStored, Stored
  <2>5. DirsAreAdded'
    <3> SUFFICES ASSUME NEW d \in DOMAIN dirs, d \notin project_dirs', dirs[d] # "file", Bare(d) # <<>>
                 PROVE  \E k \in DOMAIN project_location : k.project = Bare(d)
      BY <1>0, <1>8 DEF DirsAreAdded
    <3>1. CASE d \notin project_dirs
      BY <1>3, <3>1 DEF WorkspaceInv, DirsAreAdded
    <3>2. CASE d = dir
      <4>1. PICK v \in DirNames : found = {VersionedProject(Bare(dir), v)}
        BY <1>4, <3>2
      <4>2. FindPathByProject(Bare(dir)) # {}
        BY <1>8, <3>2, <4>1 DEF VersionedProject
      <4> QED BY <1>4, <1>7, <3>2, <4>2
    <3> QED BY <1>0, <3>1, <3>2
  <2> QED BY <2>2, <2>3, <2>4, <2>5 DEF WorkspaceInv
<1>9. CASE /\ project_location' = Store(project_location, key, dir)
           /\ ~\A k \in found : FindPathByProject(k.project) # {}
  <2>1. PICK v \in DirNames : found = {VersionedProject(Bare(dir), v)}
    BY <1>4, <1>9
  <2>2. key \in Keys /\ key.project = Bare(dir) /\ FindPathByProject(Bare(dir)) = {}
    <3>1. key = VersionedProject(Bare(dir), v)
      BY <2>1 DEF key
    <3> QED BY <1>4, <1>9, <2>1, <3>1 DEF VersionedProject, Keys, MayBeName
  <2>3. /\ DOMAIN project_location' = DOMAIN project_location \cup {key}
        /\ \A q \in DOMAIN project_location' :
             project_location'[q] = IF q = key THEN dir ELSE project_location[q]
    BY <1>9 DEF Store
  <2>4. LocationsTyped'
    <3>1. IsFiniteSet(DOMAIN project_location')
      BY <1>6, <2>3, FS_AddElement DEF LocationsTyped
    <3> QED BY <1>0, <1>2, <1>6, <2>2, <2>3, <3>1 DEF LocationsTyped
  <2>5. WorkspaceTyped'
    <3>1. \A k \in DOMAIN project_location' : MayBeName(k.project)
      BY <1>0, <1>4, <2>2, <2>3 DEF WorkspaceTyped
    <3> QED BY <1>0, <1>1, <1>3, <2>4, <3>1 DEF WorkspaceTyped
  <2>6. NamesAreOwn'
    BY <1>1, <2>2, <2>3 DEF WorkspaceInv, NamesAreOwn
  <2>7. RulesAreStored'
    <3> SUFFICES ASSUME NEW i \in 1..4, i <= ws, NEW j \in DOMAIN ws_files[i].rules
                 PROVE  Stored(ws_files[i].rules[j])'
      BY <1>0 DEF RulesAreStored
    <3>1. Stored(ws_files[i].rules[j])
      BY <1>3 DEF WorkspaceInv, RulesAreStored
    <3>2. \A s : KeysOf(s)' = KeysOf(s)
      BY DEF KeysOf
    <3>3. \A s : Stored(s) => Stored(s)'
      BY <1>1, <2>3, <3>2 DEF Stored
    <3> QED BY <1>0, <3>1, <3>3
  <2>8. DirsAreAdded'
    <3> SUFFICES ASSUME NEW d \in DOMAIN dirs, d \notin project_dirs', dirs[d] # "file", Bare(d) # <<>>
                 PROVE  \E k \in DOMAIN project_location' : k.project = Bare(d)
      BY <1>0 DEF DirsAreAdded
    <3>1. CASE d \notin project_dirs
      BY <1>3, <2>3, <3>1 DEF WorkspaceInv, DirsAreAdded
    <3>2. CASE d = dir
      BY <2>2, <2>3, <3>2
    <3> QED BY <1>0, <3>1, <3>2
  \* A project that was declared and is there is known by now: the key is not
  \* one of its.
  <2>9. VersionsAreDeclared'
    <3>1. \A n : Present(n)' = Present(n)
      BY <1>0, PlacesStay
    <3> SUFFICES ASSUME NEW k \in DOMAIN project_location', Present(k.project) # {}
                 PROVE  \E s \in Rules : Gives(s, k)'
      BY <1>1, <3>1 DEF VersionsAreDeclared
    <3>2. k # key
      <4> SUFFICES ASSUME k = key PROVE FALSE
        OBVIOUS
      <4>1. PICK s \in Rules : Bare(dir) \in NamesOf(s) /\ ProjectDir(s) # {}
        BY <2>2 DEF Present
      <4>2. PICK i \in 1..4 : \E j \in DOMAIN ws_files[i].rules : s = ws_files[i].rules[j]
        BY <1>0, RulesAre DEF WorkspaceTyped
      <4>3. s \in Declarations /\ Stored(s)
        BY <1>0, <1>3, <4>2, RulesAre DEF WorkspaceTyped, WorkspaceInv, RulesAreStored
      <4>4. PICK q \in KeysOf(s) : q.project = Bare(dir) /\ MayBeName(Bare(dir)) /\ Bare(dir) # <<>>
        BY <4>1, <4>3, NamesAre
      <4>5. q \in DOMAIN project_location
        BY <4>1, <4>3, <4>4 DEF Stored
      <4>6. FindEntryByProject(Bare(dir)) # {}
        BY <1>6, <4>4, <4>5, FindIs
      <4> QED BY <2>2, <4>6 DEF FindPathByProject
    <3>3. k \in DOMAIN project_location /\ project_location'[k] = project_location[k]
      BY <2>3, <3>2
    <3>4. PICK s \in Rules : Gives(s, k)
      BY <3>3 DEF WorkspaceInv, VersionsAreDeclared
    <3>5. Gives(s, k)'
      BY <1>1, <3>3, <3>4 DEF Gives, NamesOf
    <3> QED BY <3>5
  <2> QED BY <2>5, <2>6, <2>7, <2>8, <2>9 DEF WorkspaceInv
<1> QED BY <1>5, <1>8, <1>9

LEMMA WorkspaceInvariant == LoadSpec => []WorkspaceInv
<1>1. LoadInit => WorkspaceInv
  BY InitialWorkspace
<1>2. WorkspaceInv /\ [LoadNext]_workspaceVars => WorkspaceInv'
  <2> SUFFICES ASSUME WorkspaceInv, [LoadNext]_workspaceVars PROVE WorkspaceInv'
    OBVIOUS
  <2>1. CASE UNCHANGED workspaceVars
    <3>1. UNCHANGED <<ws_files, dirs, ws, rules, project_location, project_dirs>>
      BY <2>1 DEF workspaceVars
    <3>2. Rules' = Rules /\ (\A r : ProjectDir(r)' = ProjectDir(r)) /\ \A d : Usable(d)' <=> Usable(d)
      BY <3>1, PlacesStay
    <3>3. LocationsTyped' /\ Waiting' = Waiting
      BY <3>1 DEF LocationsTyped, WorkspaceInv, WorkspaceTyped, Waiting
    <3>4. WorkspaceTyped'
      BY <3>1, <3>2, <3>3 DEF WorkspaceInv, WorkspaceTyped
    <3>5. NamesAreOwn' /\ VersionsAreDeclared' /\ DirsAreAdded'
      BY <3>1, <3>2, VersionsStay DEF WorkspaceInv, NamesAreOwn, DirsAreAdded
    <3>6. RulesAreStored'
      BY <3>1, <3>2, <3>3 DEF WorkspaceInv, RulesAreStored, Stored
    <3> QED BY <3>4, <3>5, <3>6 DEF WorkspaceInv
  <2> QED BY <2>1, OpenFileStep, DeclareStep, StartAugmentStep, AugmentStep DEF LoadNext
<1> QED BY <1>1, <1>2, PTL DEF LoadSpec

LEMMA FoundWhenLoaded == WorkspaceInv => ProjectsAreFound
<1> SUFFICES ASSUME WorkspaceInv, ws = 5, project_dirs = {},
                    NEW dir \in DOMAIN dirs, dirs[dir] = "directory", Bare(dir) # <<>>
             PROVE  /\ FindPathByProject(Bare(dir)) # {}
                    /\ FindPathByProject(<<"@">> \o Bare(dir)) = FindPathByProject(Bare(dir))
                    /\ \A path \in FindPathByProject(Bare(dir)) :
                         (~\E r \in Rules : r.repo_name = Bare(dir)) => Bare(path) = Bare(dir)
  BY DEF ProjectsAreFound, Loaded, NotFound
<1> DEFINE n == Bare(dir)
<1>1. LocationsTyped /\ MayBeName(dir)
  BY DEF WorkspaceInv, WorkspaceTyped
<1>2. MayBeName(n) /\ n # <<>>
  BY <1>1, DirIs
<1>3. \E k \in DOMAIN project_location : k.project = n
  BY DEF WorkspaceInv, DirsAreAdded
<1> HIDE DEF n
<1>4. /\ FindEntryByProject(n) # {} /\ \A k \in FindEntryByProject(n) : k \in DOMAIN project_location /\ k.project = n
      /\ FindEntryByProject(<<"@">> \o n) = FindEntryByProject(n)
  BY <1>1, <1>2, <1>3, FindIs
<1>5. FindPathByProject(n) # {} /\ FindPathByProject(<<"@">> \o n) = FindPathByProject(n)
  BY <1>4 DEF FindPathByProject
<1>6. ASSUME NEW path \in FindPathByProject(n), ~\E r \in Rules : r.repo_name = n PROVE Bare(path) = n
  <2>1. PICK k \in FindEntryByProject(n) : path = project_location[k]
    BY DEF FindPathByProject
  <2> QED BY <1>4, <1>6, <2>1 DEF WorkspaceInv, NamesAreOwn
<1> QED BY <1>5, <1>6 DEF n

LEMMA DeclaredWhenLoaded == WorkspaceInv => DeclaredVersionsWin
<1> SUFFICES ASSUME WorkspaceInv, ws = 5, project_dirs = {}, NEW r \in Rules, NEW typed \in NamesOf(r),
                    Present(typed) # {}
             PROVE  \E s \in Present(typed) : /\ FindPathByProject(typed) = Expected(s)
                                              /\ \A t \in Present(typed) : ~LessName(t.version, s.version)
  BY DEF DeclaredVersionsWin, Loaded
<1>1. LocationsTyped /\ rules = <<>> /\ \A i \in 1..4 : ws_files[i].rules \in Seq(Declarations)
  BY DEF WorkspaceInv, WorkspaceTyped
\* Every declaration of the name has its key.
<1>2. ASSUME NEW t \in Present(typed)
      PROVE  /\ t \in Declarations /\ MayBeName(typed) /\ typed # <<>>
             /\ \E q \in DOMAIN project_location : q.project = typed /\ q.version = t.version
  <2>1. t \in Rules /\ typed \in NamesOf(t) /\ ProjectDir(t) # {}
    BY DEF Present
  <2>2. PICK i \in 1..4 : \E j \in DOMAIN ws_files[i].rules : t = ws_files[i].rules[j]
    BY <1>1, <2>1, RulesAre
  <2>3. t \in Declarations /\ Stored(t)
    BY <1>1, <2>2, RulesAre DEF WorkspaceInv, RulesAreStored, Waiting
  <2>4. PICK q \in KeysOf(t) : q.project = typed /\ q.version = t.version
    BY <2>1, <2>3, NamesAre
  <2>5. q \in DOMAIN project_location
    BY <2>1, <2>3, <2>4 DEF Stored
  <2>6. MayBeName(typed) /\ typed # <<>>
    BY <2>1, <2>3, NamesAre
  <2> QED BY <2>3, <2>4, <2>5, <2>6
<1>3. PICK k \in FindEntryByProject(typed) :
        /\ FindEntryByProject(typed) = {k} /\ k \in DOMAIN project_location /\ k.project = typed
        /\ \A q \in DOMAIN project_location : q.project = typed => ~LessName(q.version, k.version)
  <2>1. MayBeName(typed) /\ typed # <<>> /\ \E q \in DOMAIN project_location : q.project = typed
    BY <1>2
  <2>2. FindEntryByProject(typed) # {}
    BY <1>1, <2>1, FindIs
  <2>3. \A k \in FindEntryByProject(typed) : k \in DOMAIN project_location /\ k.project = typed
    BY <1>1, <2>1, FindIs
  <2>4. \A k \in FindEntryByProject(typed) :
          /\ FindEntryByProject(typed) = {k}
          /\ \A q \in DOMAIN project_location : q.project = typed => ~LessName(q.version, k.version)
    BY <1>1, <2>1, FindIs
  <2> QED BY <2>2, <2>3, <2>4
<1>4. PICK s \in Rules : Gives(s, k)
  <2>1. k \in DOMAIN project_location /\ k.project = typed
    BY <1>3
  <2>2. Present(k.project) # {}
    BY <2>1
  <2> QED BY <2>1, <2>2 DEF WorkspaceInv, VersionsAreDeclared
<1>5. s \in Present(typed) /\ k.version = s.version /\ ProjectDir(s) = {project_location[k]}
  BY <1>3, <1>4 DEF Gives, Present
<1>6. FindPathByProject(typed) = ProjectDir(s)
  BY <1>3, <1>5 DEF FindPathByProject
<1>7. ProjectDir(s) = Expected(s)
  BY <1>2, <1>5, VeryVersionIs DEF Expected
<1>8. \A t \in Present(typed) : ~LessName(t.version, s.version)
  BY <1>2, <1>3, <1>5
<1> QED BY <1>5, <1>6, <1>7, <1>8

(* Whatever the workspace declares and bazel left: a project that is there *)
(* is found under its name, with and without "@", in a directory of its    *)
(* own, and one that is declared in the first of its declared versions     *)
(* that are there (Workspace: LoadWorkspaceFromFile,                       *)
(* BestEffortAugmentFromExternalDir, FindEntryByProject).                  *)
THEOREM ProjectsDeclared == LoadSpec => []ProjectsAreAsDeclared
<1>1. WorkspaceInv => ProjectsAreAsDeclared
  BY FoundWhenLoaded, DeclaredWhenLoaded DEF ProjectsAreAsDeclared
<1> QED BY <1>1, WorkspaceInvariant, PTL
=============================================================================
