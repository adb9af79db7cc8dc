-------------------------------- MODULE Dwyu --------------------------------
(***************************************************************************)
(* DWYUGenerator::CreateEditsForTarget() of bant/tool/dwyu.cc for one      *)
(* target: find the libraries its sources need, reduce the alternatives,   *)
(* compare with its deps, emit the edits; then buildozer applies them and  *)
(* bant dwyu runs again.                                                   *)
(*                                                                         *)
(* A world holds what this reads and never changes: the sources with their *)
(* #includes, already looked up in the header index, and what is known of  *)
(* the libraries. The deps list of the BUILD file is a variable.           *)
(***************************************************************************)
EXTENDS Integers, Sequences, FiniteSets

CONSTANTS
  Lib,       \* libraries that provide headers or are named in deps
  Self,      \* the target itself, which may provide headers as well
  Invalid,   \* an entry of deps that is no valid target name
  Worlds,    \* the worlds to explore, all of type World
  MaxRuns    \* bound: runs of bant dwyu

\* An #include: a header of the target's own srcs and hdrs, one the index has
\* libraries for (that export it, or are aliases of such), or neither.
Include == [via : {"own", "lib", "unknown"}, libs : SUBSET Lib]

Source == [readable : BOOLEAN, includes : Seq(Include)]

\* The visibility list of a library by what its entries are to the target.
Visibility == SUBSET {"invalid", "match", "other"}

\* known_libs_ (if known) and the properties of the name.
Info ==
  [known : BOOLEAN, deprecated : BOOLEAN, same_package : BOOLEAN,
   protobuf_headers : BOOLEAN, visibility : Visibility, alwayslink : BOOLEAN,
   testonly : BOOLEAN]

\* An entry of deps; keep says that its line has a "# keep" comment.
Dep == [lib : Lib \cup {Invalid}, keep : BOOLEAN]

World ==
  [sources     : Seq(Source),
   info        : [Lib -> Info],
   test        : BOOLEAN,        \* the target is testonly or a cc_test
   ignore_keep : BOOLEAN,        \* flag -k
   deps        : Seq(Dep)]       \* deps before the first run

ASSUME NamesAssumption ==
  /\ Self \in Lib
  /\ Invalid \notin Lib
  /\ MaxRuns \in Nat \ {0}

\* Header index entries are never empty.
ASSUME WorldsAssumption ==
  \A w \in Worlds :
    /\ w \in World
    /\ \A s \in DOMAIN w.sources : \A i \in DOMAIN w.sources[s].includes :
         w.sources[s].includes[i].via = "lib" => w.sources[s].includes[i].libs # {}

VARIABLES
  world,
  run,              \* number of this run of bant dwyu
  deps,             \* the deps list in the BUILD file
  pc,               \* "sources", "includes", "pick", "narrow", "deps", "adds", "done"
  source,           \* the source looked at
  include,          \* the #include looked at
  all_known,        \* all_header_deps_known
  needed,           \* what DependenciesNeededBySources() collects, then to_reduce
  i, j,             \* the sets MinimizeDependencySet() looks at
  current_set,      \* the alternatives of set i left so far
  already_covered,  \* indexes of sets accounted for
  minimized,        \* its result
  open,             \* indexes of minimized not erased from deps_needed
  checked_off,      \* keys of checked_off_by
  dep,              \* the entry of deps looked at
  removed,          \* targets of the remove edits emitted
  added             \* targets of the add edits emitted, in order

vars == <<world, run, deps, pc, source, include, all_known, needed, i, j,
          current_set, already_covered, minimized, open, checked_off, dep,
          removed, added>>

Init ==
  /\ world \in Worlds
  /\ run = 1
  /\ deps = world.deps
  /\ pc = "sources" /\ source = 1 /\ include = 1
  /\ all_known = TRUE /\ needed = <<>>
  /\ i = 1 /\ j = 1 /\ current_set = {} /\ already_covered = {}
  /\ minimized = <<>>
  /\ open = {} /\ checked_off = {} /\ dep = 1
  /\ removed = {} /\ added = <<>>

-----------------------------------------------------------------------------
(* Predicates about libraries.                                             *)

CanSee(l) ==
  LET lib == world.info[l]
  IN  \/ ~lib.known
      \/ /\ ~lib.deprecated
         /\ \/ lib.same_package
            \/ /\ ~lib.protobuf_headers
               /\ \/ lib.visibility \subseteq {"invalid"}
                  \/ "match" \in lib.visibility

\* Mutant: a library nobody knows is thought to be an ordinary one.
IsAlwayslinkBold(l) == world.info[l].known /\ world.info[l].alwayslink

IsAlwayslink(l) == ~world.info[l].known \/ world.info[l].alwayslink

IsTestonlyCompatible(l) ==
  \/ ~world.info[l].known
  \/ ~world.info[l].testonly
  \/ ~world.info[Self].known
  \/ world.test

-----------------------------------------------------------------------------
(* DependenciesNeededBySources()                                           *)

readVars == <<source, include, all_known, needed>>
minimizeVars == <<i, j, current_set, already_covered, minimized>>
editVars == <<open, checked_off, dep, removed, added>>

\* A source that can not be read may need anything.
OpenSource ==
  /\ pc = "sources"
  /\ source <= Len(world.sources)
  /\ IF world.sources[source].readable
     THEN pc' = "includes" /\ UNCHANGED <<source, all_known>>
     ELSE pc' = pc /\ source' = source + 1 /\ all_known' = FALSE
  /\ include' = 1
  /\ UNCHANGED <<world, run, deps, needed, minimizeVars, editVars>>

Includes == world.sources[source].includes

\* add_to_result() keeps the visible alternatives, if there are any.
VisibleOf(libs) == {l \in libs : CanSee(l)}

CountInclude ==
  /\ pc = "includes"
  /\ include <= Len(Includes)
  /\ LET inc == Includes[include]
     IN  /\ all_known' = (all_known /\ inc.via # "unknown")
         /\ needed' = IF inc.via = "lib" /\ VisibleOf(inc.libs) # {}
                      THEN Append(needed, VisibleOf(inc.libs)) ELSE needed
  /\ include' = include + 1
  /\ UNCHANGED <<world, run, deps, pc, source, minimizeVars, editVars>>

CloseSource ==
  /\ pc = "includes"
  /\ include > Len(Includes)
  /\ pc' = "sources"
  /\ source' = source + 1
  /\ UNCHANGED <<world, run, deps, include, all_known, needed, minimizeVars,
                 editVars>>

AllSourcesRead ==
  /\ pc = "sources"
  /\ source > Len(world.sources)
  /\ pc' = "pick"
  /\ UNCHANGED <<world, run, deps, readVars, minimizeVars, editVars>>

-----------------------------------------------------------------------------
(* MinimizeDependencySet()                                                 *)

\* Outer loop: the next set that is not covered yet.
PickSet ==
  /\ pc = "pick"
  /\ i <= Len(needed)
  /\ IF i \in already_covered
     THEN i' = i + 1 /\ UNCHANGED <<pc, j, current_set, already_covered>>
     ELSE /\ pc' = "narrow"
          /\ already_covered' = already_covered \cup {i}
          /\ current_set' = needed[i]
          /\ j' = i + 1
          /\ UNCHANGED i
  /\ UNCHANGED <<world, run, deps, readVars, minimized, editVars>>

\* Mutant: what can be taken from either set is thought to satisfy both.
IntersectIsUnion(a, b) == a \cup b

Intersect(a, b) == a \cap b

NothingInCommon(a, b) == a \cap b = {}

CoveredWith(k) == already_covered \cup {k}

\* Inner loop: intersect with each of the sets behind, covered ones as well.
Narrow ==
  /\ pc = "narrow"
  /\ j <= Len(needed)
  /\ IF NothingInCommon(current_set, needed[j])
     THEN UNCHANGED <<current_set, already_covered>>
     ELSE /\ current_set' = Intersect(current_set, needed[j])
          /\ already_covered' = CoveredWith(j)
  /\ j' = j + 1
  /\ UNCHANGED <<world, run, deps, pc, readVars, i, minimized, editVars>>

PushSet ==
  /\ pc = "narrow"
  /\ j > Len(needed)
  /\ minimized' = Append(minimized, current_set)
  /\ i' = i + 1
  /\ pc' = "pick"
  /\ UNCHANGED <<world, run, deps, readVars, j, current_set, already_covered,
                 editVars>>

AllSetsCovered ==
  /\ pc = "pick"
  /\ i > Len(needed)
  /\ pc' = "deps"
  /\ open' = DOMAIN minimized
  /\ UNCHANGED <<world, run, deps, readVars, minimizeVars, checked_off, dep,
                 removed, added>>

-----------------------------------------------------------------------------
(* Compare with deps, then emit edits.                                     *)

\* deps_needed.erase()
Erase(k) == open \ {k}

\* The first remaining set that has l; 0 if there is none.
SetWith(l) ==
  LET with == {k \in open : l \in minimized[k]}
  IN  IF with = {} THEN 0 ELSE CHOOSE k \in with : \A m \in with : k <= m

\* Mutant: a second provider of headers provided before is not recognised.
WasCheckedOffNever(l) == FALSE

WasCheckedOff(l) == l \in checked_off

\* May the entry be removed, though its library is neither needed nor a double?
MayRemove(d) ==
  /\ all_known
  /\ ~IsAlwayslink(d.lib)
  /\ world.ignore_keep \/ ~d.keep

CheckDep ==
  /\ pc = "deps"
  /\ dep <= Len(deps)
  /\ LET d == deps[dep]
         k == SetWith(d.lib)
     IN  \/ /\ d.lib = Invalid
            /\ UNCHANGED <<open, checked_off, removed>>
         \/ /\ d.lib # Invalid /\ k # 0
            /\ open' = Erase(k)
            /\ checked_off' = checked_off \cup minimized[k]
            /\ UNCHANGED removed
         \/ /\ d.lib # Invalid /\ k = 0
            /\ removed' = IF ~WasCheckedOff(d.lib) /\ MayRemove(d)
                          THEN removed \cup {d.lib} ELSE removed
            /\ UNCHANGED <<open, checked_off>>
  /\ dep' = dep + 1
  /\ UNCHANGED <<world, run, deps, pc, readVars, minimizeVars, added>>

AllDepsChecked ==
  /\ pc = "deps"
  /\ dep > Len(deps)
  /\ pc' = "adds"
  /\ UNCHANGED <<world, run, deps, readVars, minimizeVars, editVars>>

\* Mutant: off by one.
AmbiguousIfAny(alternatives) == Cardinality(alternatives) >= 1

\* "Only possible to auto-add if there is exactly one alternative."
Ambiguous(alternatives) == Cardinality(alternatives) > 1

\* The remaining sets, one by one; their order is that of the add edits only.
AddNeeded(k) ==
  /\ pc = "adds"
  /\ k \in open
  /\ LET l == CHOOSE x \in minimized[k] : TRUE
     IN  added' = IF ~Ambiguous(minimized[k]) /\ CanSee(l) /\ IsTestonlyCompatible(l)
                  THEN Append(added, l) ELSE added
  /\ open' = open \ {k}
  /\ UNCHANGED <<world, run, deps, pc, readVars, minimizeVars, checked_off, dep,
                 removed>>

AllAdded ==
  /\ pc = "adds"
  /\ open = {}
  /\ pc' = "done"
  /\ UNCHANGED <<world, run, deps, readVars, minimizeVars, editVars>>

-----------------------------------------------------------------------------
(* buildozer and the next run.                                             *)

\* What the edits make of deps: 'remove deps' takes out each entry that names the
\* library (what is left in its place is skipped, like an invalid name), 'add
\* deps' appends.
Edited ==
  [n \in 1..(Len(deps) + Len(added)) |->
     IF n > Len(deps) THEN [lib |-> added[n - Len(deps)], keep |-> FALSE]
     ELSE IF deps[n].lib \in removed THEN [lib |-> Invalid, keep |-> FALSE]
     ELSE deps[n]]

\* ". <(bant dwyu ...)" once more.
ApplyAndRunAgain ==
  /\ pc = "done"
  /\ run < MaxRuns
  /\ run' = run + 1
  /\ deps' = Edited
  /\ pc' = "sources" /\ source' = 1 /\ include' = 1
  /\ all_known' = TRUE /\ needed' = <<>>
  /\ i' = 1 /\ j' = 1 /\ current_set' = {} /\ already_covered' = {}
  /\ minimized' = <<>>
  /\ open' = {} /\ checked_off' = {} /\ dep' = 1
  /\ removed' = {} /\ added' = <<>>
  /\ UNCHANGED world

Finished ==
  /\ pc = "done"
  /\ run = MaxRuns
  /\ UNCHANGED vars

Next ==
  \/ OpenSource
  \/ CountInclude
  \/ CloseSource
  \/ AllSourcesRead
  \/ PickSet
  \/ Narrow
  \/ PushSet
  \/ AllSetsCovered
  \/ CheckDep
  \/ AllDepsChecked
  \/ \E k \in open : AddNeeded(k)
  \/ AllAdded
  \/ ApplyAndRunAgain
  \/ Finished

Spec == Init /\ [][Next]_vars

-----------------------------------------------------------------------------

Elements(s) == {s[n] : n \in DOMAIN s}

Libs(entries) == {d.lib : d \in Elements(entries)} \ {Invalid}

\* The provider sets of all includes of sources that can be read.
Provided ==
  {inc.libs : inc \in {x \in UNION {Elements(s.includes) :
                                      s \in {y \in Elements(world.sources) : y.readable}} :
                         x.via = "lib"}}

\* Every variable has its type; CHECK_GT: no set of alternatives is ever empty.
TypeOK ==
  /\ world \in World
  /\ run \in 1..MaxRuns
  /\ deps \in Seq(Dep)
  /\ pc \in {"sources", "includes", "pick", "narrow", "deps", "adds", "done"}
  /\ source \in Nat /\ include \in Nat
  /\ all_known \in BOOLEAN
  /\ needed \in Seq((SUBSET Lib) \ {{}})
  /\ i \in Nat /\ j \in Nat
  /\ current_set \in SUBSET Lib
  /\ already_covered \in SUBSET Nat
  /\ minimized \in Seq((SUBSET Lib) \ {{}})
  /\ open \in SUBSET Nat
  /\ checked_off \in SUBSET Lib
  /\ dep \in Nat
  /\ removed \in SUBSET Lib
  /\ added \in Seq(Lib)

\* No library is in two of the minimized sets, so that one entry of deps never
\* satisfies two of them while only the first is struck off.
AlternativesDisjoint ==
  \A m, n \in DOMAIN minimized : m # n => minimized[m] \cap minimized[n] = {}

\* "The intersection will be sufficient to satisfy the dependency requirements
\* for both": each set of alternatives needed contains all of a minimized one.
MinimizedCovers ==
  pc \in {"deps", "adds", "done"} =>
    \A n \in DOMAIN needed : \E m \in DOMAIN minimized : minimized[m] \subseteq needed[n]

\* No library is added twice, added though it is there, or both added and removed.
NoConflictingEdits ==
  /\ \A m, n \in DOMAIN added : m # n => added[m] # added[n]
  /\ Elements(added) \cap (removed \cup Libs(deps)) = {}

\* A library is removed only if every source could be read, some library has each
\* header, it is known, not alwayslink, and an entry for it may be removed.
RemovalsAreSafe ==
  removed # {} =>
    /\ \A s \in Elements(world.sources) :
         s.readable /\ \A inc \in Elements(s.includes) : inc.via # "unknown"
    /\ \A l \in removed :
         /\ world.info[l].known /\ ~world.info[l].alwayslink
         /\ \E d \in Elements(deps) : d.lib = l /\ (world.ignore_keep \/ ~d.keep)
         /\ \A m \in DOMAIN minimized : l \notin minimized[m]

\* If each minimized set is a single library that may be added, the edits leave
\* the target with a dependency for every include that has a visible provider.
EditsComplete ==
  (pc = "done" /\ \A m \in DOMAIN minimized :
                    \E l \in minimized[m] : /\ minimized[m] = {l}
                                            /\ IsTestonlyCompatible(l))
    => \A libs \in Provided :
         (\E l \in libs : CanSee(l)) => libs \cap Libs(Edited) # {}

\* Once the edits are applied, bant dwyu has nothing more to say.
SecondRunIsQuiet == run > 1 => removed = {} /\ added = <<>>

\* "If unclear if a library can be removed, it is conservatively _not_ suggested
\* for removal": a target that had a provider of each header keeps one.
BuildStaysComplete ==
  (pc = "done" /\ \A libs \in Provided : libs \cap Libs(deps) # {})
    => \A libs \in Provided : libs \cap Libs(Edited) # {}
=============================================================================
