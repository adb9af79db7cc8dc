-------------------------- MODULE DependencyGraph --------------------------
(***************************************************************************)
(* BuildDependencyGraph() of bant/explore/dependency-graph.cc: follow the  *)
(* deps and alias references of the targets a pattern selects, round by    *)
(* round, parsing on demand the packages a round needs.                    *)
(*                                                                         *)
(* What the traversal finds in the project is a world, chosen by Init and  *)
(* never changed: the rules the AST of every package declares, whether its *)
(* BUILD file can be read, the packages parsed before the call, and the    *)
(* targets the pattern matches.                                            *)
(***************************************************************************)
EXTENDS Integers, Sequences, FiniteSets

CONSTANTS
  Target,      \* the fully qualified targets (BazelTarget)
  Package,     \* the packages (BazelPackage)
  PackageOf,   \* the package field of a target
  None,        \* no package is being walked
  Unlimited,   \* numeric_limits<int>::max(), too deep to be counted down
  Worlds       \* the worlds to explore, all of type World

\* One call in a BUILD file: its qualified name, then the targets its deps and
\* its actual attribute parse to, in order (unparsable entries are skipped).
Rule == [target : Target, follow : Seq(Target)]

\* What PathForPackage() and AddBuildFile() meet: a readable file, no file, or
\* a path that passes access() but whose content can not be read.
DiskState == {"ok", "missing", "unreadable"}

World ==
  [ ast    : [Package -> Seq(Rule)],
    disk   : [Package -> DiskState],
    files  : SUBSET Package,
    wanted : SUBSET Target,
    depth  : Nat \cup {Unlimited} ]

ASSUME NamesAssumption ==
  /\ PackageOf \in [Target -> Package]
  /\ None \notin Package
  /\ Unlimited \notin Int

\* QualifiedTarget(name) puts a rule in the package it is read from, and the
\* packages parsed before the call were readable.
ASSUME WorldsAssumption ==
  \A w \in Worlds :
    /\ w \in World
    /\ \A p \in Package : \A i \in 1..Len(w.ast[p]) :
         PackageOf[w.ast[p][i].target] = p
    /\ \A p \in w.files : w.disk[p] = "ok"

VARIABLES
  world,            \* the world this call meets
  pc,               \* "round", "walk", "done" or "crashed"
  parsed,           \* keys of ParsedProject::package_to_parsed_
  error_packages,   \* packages without BUILD file
  error_targets,    \* targets no package declared
  todo,             \* deps_to_resolve_todo
  next_round,       \* next_round_deps_to_resolve_todo
  scan_package,     \* packages of this round still to be walked
  current_package,  \* the package FindTargets() is walking, or None
  pos,              \* the rule FindTargets() looks at next
  depends_on,       \* DependencyGraph::depends_on
  has_dependents,   \* DependencyGraph::has_dependents
  nesting_depth,    \* rounds that may still follow this one
  walked,           \* history: the targets walk_cb was called with
  round_start       \* history: todo and the visited targets as the round began

vars == <<world, pc, parsed, error_packages, error_targets, todo, next_round,
          scan_package, current_package, pos, depends_on, has_dependents,
          nesting_depth, walked, round_start>>

Elements(s) == {s[i] : i \in DOMAIN s}

\* The targets a package of world w declares.
Declared(w, p) == {r.target : r \in Elements(w.ast[p])}

\* The value of f at k, or the empty vector a new map entry starts with.
At(f, k) == IF k \in DOMAIN f THEN f[k] ELSE <<>>

\* The vector of as many t as there are occurrences of d in deps.
Dependents(t, d, deps) ==
  [i \in 1..Cardinality({j \in DOMAIN deps : deps[j] = d}) |-> t]

ToQueueUnlessVisited(deps, visited, open) == Elements(deps) \ visited
ToQueueIfParsed(deps, visited, open) ==
  {d \in Elements(deps) \ (visited \cup open) : PackageOf[d] \in parsed}

\* The dependencies not seen yet and not to be seen in this round.
ToQueue(deps, visited, open) == Elements(deps) \ (visited \cup open)

-----------------------------------------------------------------------------

Init ==
  /\ world \in Worlds
  /\ pc = "round"
  /\ parsed = world.files
  /\ error_packages = {}
  /\ error_targets = {}
  /\ todo = {t \in world.wanted : \E p \in world.files : t \in Declared(world, p)}
  /\ next_round = {}
  /\ scan_package = {}
  /\ current_package = None
  /\ pos = 0
  /\ depends_on = <<>>
  /\ has_dependents = <<>>
  /\ nesting_depth = world.depth
  /\ walked = <<>>
  /\ round_start = [todo |-> todo, visited |-> {}]

\* Mutant: packages parsed already are thought to be done with.
PackagesToScanOnce == {PackageOf[t] : t \in todo} \ parsed

\* The packages this round needs, and those of them not parsed yet.
PackagesToScan == {PackageOf[t] : t \in todo}
NotParsedYet == PackagesToScan \ parsed

\* Head of the loop: FindAndParseMissingPackages() adds every package it can.
BeginRound ==
  /\ pc = "round"
  /\ \A p \in NotParsedYet : world.disk[p] # "unreadable"
  /\ pc' = "walk"
  /\ parsed' = parsed \cup {p \in NotParsedYet : world.disk[p] = "ok"}
  /\ error_packages' =
       error_packages \cup {p \in NotParsedYet : world.disk[p] = "missing"}
  /\ scan_package' = PackagesToScan
  /\ UNCHANGED <<world, error_targets, todo, next_round, current_package, pos,
                 depends_on, has_dependents, nesting_depth, walked, round_start>>

\* AddBuildFile() returns nullptr for a file it can not read, and the call of
\* Elaborate() that follows dereferences it.
ReadFails ==
  /\ pc = "round"
  /\ \E p \in NotParsedYet : world.disk[p] = "unreadable"
  /\ pc' = "crashed"
  /\ UNCHANGED <<world, parsed, error_packages, error_targets, todo, next_round,
                 scan_package, current_package, pos, depends_on, has_dependents,
                 nesting_depth, walked, round_start>>

\* Next package of scan_package (any order); one that is not parsed is skipped.
OpenPackage(p) ==
  /\ pc = "walk"
  /\ current_package = None
  /\ p \in scan_package
  /\ scan_package' = scan_package \ {p}
  /\ IF p \in parsed
     THEN current_package' = p /\ pos' = 1
     ELSE UNCHANGED <<current_package, pos>>
  /\ UNCHANGED <<world, pc, parsed, error_packages, error_targets, todo,
                 next_round, depends_on, has_dependents, nesting_depth, walked,
                 round_start>>

InPackage ==
  /\ pc = "walk"
  /\ current_package # None

RulesHere == world.ast[current_package]

\* A rule nobody asked for, or a second one of a name already taken off todo.
IgnoreRule ==
  /\ InPackage
  /\ pos <= Len(RulesHere)
  /\ RulesHere[pos].target \notin todo
  /\ pos' = pos + 1
  /\ UNCHANGED <<world, pc, parsed, error_packages, error_targets, todo,
                 next_round, scan_package, current_package, depends_on,
                 has_dependents, nesting_depth, walked, round_start>>

\* deps_to_resolve_todo.erase(t) == 1: call back, then record all its edges.
VisitRule ==
  /\ InPackage
  /\ pos <= Len(RulesHere)
  /\ LET t    == RulesHere[pos].target
         deps == RulesHere[pos].follow
     IN  /\ t \in todo
         /\ todo' = todo \ {t}
         /\ walked' = Append(walked, t)
         /\ depends_on' =
              [u \in DOMAIN depends_on \cup {t} |->
                 IF u = t THEN At(depends_on, t) \o deps ELSE depends_on[u]]
         /\ has_dependents' =
              [d \in DOMAIN has_dependents \cup Elements(deps) |->
                 At(has_dependents, d) \o Dependents(t, d, deps)]
         /\ next_round' = next_round \cup ToQueue(deps, DOMAIN depends_on', todo')
  /\ pos' = pos + 1
  /\ UNCHANGED <<world, pc, parsed, error_packages, error_targets, scan_package,
                 current_package, nesting_depth, round_start>>

ClosePackage ==
  /\ InPackage
  /\ pos > Len(RulesHere)
  /\ current_package' = None
  /\ pos' = 0
  /\ UNCHANGED <<world, pc, parsed, error_packages, error_targets, todo,
                 next_round, scan_package, depends_on, has_dependents,
                 nesting_depth, walked, round_start>>

\* Mutant: off by one in the comparison of the depth.
MayDescendOneMore == nesting_depth = Unlimited \/ nesting_depth >= 0

MayDescend == nesting_depth = Unlimited \/ nesting_depth > 0

\* Mutant: what could not be resolved is tried again in the next round.
NextTodoWithLeftovers == next_round \cup todo

\* What deps_to_resolve_todo is assigned at the end of a round.
NextTodo == next_round

\* while (!todo.empty() && (nesting_depth-- > 0)): the depth is counted down
\* only if there is something left to do.
EndRound ==
  /\ pc = "walk"
  /\ current_package = None
  /\ scan_package = {}
  /\ error_targets' = error_targets \cup todo
  /\ todo' = NextTodo
  /\ next_round' = {}
  /\ pc' = IF NextTodo # {} /\ MayDescend THEN "round" ELSE "done"
  /\ nesting_depth' = IF NextTodo = {} \/ nesting_depth = Unlimited
                      THEN nesting_depth
                      ELSE nesting_depth - 1
  /\ round_start' = [todo |-> NextTodo, visited |-> DOMAIN depends_on]
  /\ UNCHANGED <<world, parsed, error_packages, scan_package, current_package,
                 pos, depends_on, has_dependents, walked>>

\* The call has returned, or the process is gone.
Finished ==
  /\ pc \in {"done", "crashed"}
  /\ UNCHANGED vars

Step ==
  \/ BeginRound
  \/ ReadFails
  \/ \E p \in Package : OpenPackage(p)
  \/ IgnoreRule
  \/ VisitRule
  \/ ClosePackage
  \/ EndRound

Next == Step \/ Finished

Spec == Init /\ [][Next]_vars

\* A single thread runs the loop; nothing in it waits for anybody.
FairSpec == Spec /\ WF_vars(Step)

-----------------------------------------------------------------------------
(* Reference definitions over the world alone.                             *)

\* A target can be visited if its package can be read and declares it.
Resolvable(t) ==
  /\ PackageOf[t] \in world.files \/ world.disk[PackageOf[t]] = "ok"
  /\ t \in Declared(world, PackageOf[t])

\* What the first rule of that name depends on.
FollowOf(t) ==
  LET rules == world.ast[PackageOf[t]]
      first == CHOOSE i \in DOMAIN rules :
                 /\ rules[i].target = t
                 /\ \A j \in 1..(i - 1) : rules[j].target # t
  IN  rules[first].follow

\* The targets of the pattern that are there to begin with.
Selected == {t \in world.wanted : PackageOf[t] \in world.files /\ Resolvable(t)}

\* Those targets and what can be visited of what they depend on.
OneFurther(targets) ==
  targets \cup {d \in UNION {Elements(FollowOf(t)) : t \in targets} : Resolvable(d)}

\* The targets at most n edges away from those the pattern selects.
Ball(n) ==
  LET ball[k \in 0..n] == IF k = 0 THEN Selected ELSE OneFurther(ball[k - 1])
  IN  ball[n]

-----------------------------------------------------------------------------
(* The abstract search this traversal implements.                          *)

Search == INSTANCE FrontierSearch WITH
  Node     <- Target,
  succ     <- [t \in {u \in Target : Resolvable(u)} |-> Elements(FollowOf(t))],
  visited  <- round_start.visited,
  frontier <- round_start.todo,
  missing  <- error_targets,
  layers   <- nesting_depth,
  state    <- CASE pc = "done" -> "done"
                [] pc = "crashed" -> "aborted"
                [] OTHER -> "searching"

-----------------------------------------------------------------------------

\* Every variable has its type.
TypeOK ==
  /\ world \in Worlds
  /\ pc \in {"round", "walk", "done", "crashed"}
  /\ parsed \in SUBSET Package
  /\ error_packages \in SUBSET Package
  /\ error_targets \in SUBSET Target
  /\ todo \in SUBSET Target
  /\ next_round \in SUBSET Target
  /\ scan_package \in SUBSET Package
  /\ current_package \in Package \cup {None}
  /\ pos \in Nat
  /\ DOMAIN depends_on \in SUBSET Target
  /\ depends_on \in [DOMAIN depends_on -> Seq(Target)]
  /\ DOMAIN has_dependents \in SUBSET Target
  /\ has_dependents \in [DOMAIN has_dependents -> Seq(Target)]
  /\ nesting_depth \in Nat \cup {-1, Unlimited}
  /\ walked \in Seq(Target)
  /\ round_start \in [todo : SUBSET Target, visited : SUBSET Target]

\* walk_cb is called at most once per target however many rounds, rules of the
\* same name or dependents lead to it: compilation-db collects the include
\* directories of a target in it.
CallbackOncePerTarget ==
  \A i, j \in DOMAIN walked : walked[i] = walked[j] => i = j

\* depends_on and has_dependents are the same edges read in both directions,
\* with the same multiplicity, at every step ("... and the reverse").
EdgesAreMirrored ==
  \A t, d \in Target :
    Cardinality({i \in DOMAIN At(depends_on, t) : depends_on[t][i] = d})
      = Cardinality({i \in DOMAIN At(has_dependents, d) : has_dependents[d][i] = t})

\* No dependency of a visited target is forgotten: it is visited, still to be
\* visited in this or the next round, or reported as not found.
NoDependencyForgotten ==
  \A t \in DOMAIN depends_on : \A d \in Elements(depends_on[t]) :
    d \in DOMAIN depends_on \cup todo \cup next_round \cup error_targets

\* A target is reported as not found only if no readable package declares it,
\* whatever the order in which rounds met its dependents.
ErrorsAreGenuine == \A t \in error_targets : ~Resolvable(t)

\* Each vertex carries the edges of its first rule, once, however often the
\* name occurs in the package or in deps lists.
EdgesOfFirstRule ==
  \A t \in DOMAIN depends_on : Resolvable(t) /\ depends_on[t] = FollowOf(t)

\* The graph returned for depth n has a vertex for each target that n edges or
\* fewer lead to from the targets of the pattern, and no other.
VisitedIsBall ==
  pc = "done" =>
    DOMAIN depends_on =
      Ball(IF world.depth \in 0..Cardinality(Target) THEN world.depth ELSE Cardinality(Target))

\* Whatever the order of packages and of the rules in them, a round visits
\* exactly the layer it began with and queues exactly the layer behind it.
ImplementsSearch == Search!Spec

\* The call returns (or dies on an unreadable file): targets that can not be
\* resolved are queued again by every new dependent but not forever.
Termination == <>(pc \in {"done", "crashed"})

\* The graph a caller gets is the one of the BUILD files: the same edges both
\* ways, those of the first rule of a name, of all targets in reach and no others.
TheGraphIsTrue == EdgesAreMirrored /\ EdgesOfFirstRule /\ VisitedIsBall
=============================================================================
