----------------------------- MODULE DwyuProofs -----------------------------
(***************************************************************************)
(* Theorems about Dwyu, for all libraries, sources and deps, and about     *)
(* what it is handed over: the index of headers (HeaderProviders) and the  *)
(* includes of the sources (SourceIncludes), for all projects and texts.   *)
(***************************************************************************)
EXTENDS Dwyu, Induction, SequenceTheorems, FiniteSetTheorems, TLAPS

-----------------------------------------------------------------------------
(* The type invariant.                                                     *)

\* The indexes the steps use are within their sequences.
IndexesOK ==
  /\ world \in Worlds
  /\ source >= 1 /\ include >= 1 /\ i >= 1 /\ j >= 1 /\ dep >= 1
  /\ pc = "includes" => source <= Len(world.sources)
  /\ pc = "narrow" => current_set # {} /\ i <= Len(needed)
  /\ open \subseteq DOMAIN minimized

TypeInv == TypeOK /\ IndexesOK

LEMMA InitTypeInv == Init => TypeInv
<1>. SUFFICES ASSUME Init PROVE TypeInv
  OBVIOUS
<1>1. world \in World
  BY WorldsAssumption DEF Init
<1>2. deps \in Seq(Dep)
  BY <1>1 DEF Init, World
<1>. QED  BY <1>1, <1>2, NamesAssumption DEF Init, TypeInv, TypeOK, IndexesOK

LEMMA NextTypeInv == TypeInv /\ [Next]_vars => TypeInv'
<1>. SUFFICES ASSUME TypeInv, [Next]_vars PROVE TypeInv'
  OBVIOUS
<1>. USE DEF TypeInv, TypeOK, IndexesOK
<1>. USE DEF readVars, minimizeVars, editVars
<1>1. CASE OpenSource
  <2>1. /\ source' \in Nat /\ source' >= 1 /\ include' = 1
        /\ pc' \in {"sources", "includes"}
        /\ pc' = "includes" => source' <= Len(world'.sources)
    BY <1>1 DEF OpenSource
  <2>2. all_known' \in BOOLEAN
    BY <1>1 DEF OpenSource
  <2>. QED  BY <1>1, <2>1, <2>2 DEF OpenSource
<1>2. CASE CountInclude
  <2>1. Includes \in Seq(Include) /\ include \in 1..Len(Includes)
    <3>1. source \in 1..Len(world.sources) /\ world.sources \in Seq(Source)
      BY <1>2 DEF CountInclude, World
    <3>2. world.sources[source] \in Source
      BY <3>1
    <3>. QED  BY <1>2, <3>2 DEF CountInclude, Includes, Source
  <2>2. Includes[include] \in Include
    BY <2>1
  <2>3. VisibleOf(Includes[include].libs) \in SUBSET Lib
    BY <2>2 DEF VisibleOf, Include
  <2>4. needed' \in Seq((SUBSET Lib) \ {{}})
    BY <1>2, <2>3 DEF CountInclude
  <2>5. all_known' \in BOOLEAN
    BY <1>2 DEF CountInclude
  <2>6. /\ pc = "includes" /\ include' = include + 1
        /\ UNCHANGED <<world, run, deps, pc, source, minimizeVars, editVars>>
    BY <1>2 DEF CountInclude
  <2>. QED  BY <2>4, <2>5, <2>6
<1>3. CASE CloseSource
  BY <1>3 DEF CloseSource
<1>4. CASE AllSourcesRead
  BY <1>4 DEF AllSourcesRead
<1>5. CASE PickSet
  <2>. i <= Len(needed) /\ UNCHANGED <<world, run, deps, source, include, all_known,
                                      needed, minimized, open, checked_off, dep,
                                      removed, added>>
    BY <1>5 DEF PickSet
  <2>1. CASE i \in already_covered
    <3>. i' = i + 1 /\ pc' = "pick" /\ UNCHANGED <<j, current_set, already_covered>>
      BY <1>5, <2>1 DEF PickSet
    <3>. QED  OBVIOUS
  <2>2. CASE i \notin already_covered
    <3>. /\ pc' = "narrow" /\ i' = i /\ j' = i + 1
         /\ current_set' = needed[i] /\ already_covered' = already_covered \cup {i}
      BY <1>5, <2>2 DEF PickSet
    <3>1. needed[i] \in (SUBSET Lib) \ {{}}
      OBVIOUS
    <3>2. already_covered' \in SUBSET Nat
      OBVIOUS
    <3>. QED  BY <3>1, <3>2
  <2>. QED  BY <2>1, <2>2
<1>6. CASE Narrow
  <2>1. /\ current_set' \in SUBSET Lib /\ current_set' # {}
        /\ already_covered' \in SUBSET Nat
    BY <1>6 DEF Narrow, NothingInCommon, Intersect, CoveredWith
  <2>2. j' \in Nat /\ j' >= 1
    BY <1>6 DEF Narrow
  <2>. QED  BY <1>6, <2>1, <2>2 DEF Narrow
<1>7. CASE PushSet
  BY <1>7 DEF PushSet
<1>8. CASE AllSetsCovered
  BY <1>8 DEF AllSetsCovered
<1>9. CASE CheckDep
  <2>. DEFINE k == SetWith(deps[dep].lib)
  <2>1. deps[dep] \in Dep
    BY <1>9 DEF CheckDep
  <2>2. k = 0 \/ k \in open
    BY DEF SetWith
  <2>. HIDE DEF k
  <2>3. open' \subseteq open
    BY <1>9 DEF CheckDep, Erase
  <2>4. checked_off' \in SUBSET Lib
    <3>1. ASSUME k # 0 PROVE minimized[k] \in SUBSET Lib
      <4>1. k \in open /\ open \subseteq DOMAIN minimized
            /\ minimized \in Seq((SUBSET Lib) \ {{}})
        BY <2>2, <3>1
      <4>. HIDE DEF TypeInv
      <4>. QED  BY <4>1
    <3>2. checked_off' = checked_off
          \/ (k # 0 /\ checked_off' = checked_off \cup minimized[k])
      BY <1>9 DEF CheckDep, k
    <3>. QED  BY <3>1, <3>2
  <2>5. removed' \in SUBSET Lib
    BY <1>9, <2>1 DEF CheckDep, Dep
  <2>6. dep' \in Nat /\ dep' >= 1
    BY <1>9 DEF CheckDep
  <2>7. UNCHANGED <<world, run, deps, pc, source, include, all_known, needed, i, j,
                    current_set, already_covered, minimized, added>>
    BY <1>9 DEF CheckDep
  <2>. QED  BY <2>3, <2>4, <2>5, <2>6, <2>7
<1>10. CASE AllDepsChecked
  BY <1>10 DEF AllDepsChecked
<1>11. ASSUME NEW k \in open, AddNeeded(k) PROVE TypeInv'
  BY <1>11 DEF AddNeeded
<1>12. CASE AllAdded
  BY <1>12 DEF AllAdded
<1>13. CASE ApplyAndRunAgain
  <2>1. ASSUME NEW n \in 1..(Len(deps) + Len(added)) PROVE Edited[n] \in Dep
    <3>1. CASE n > Len(deps)
      <4>1. n - Len(deps) \in 1..Len(added)
        BY <3>1
      <4>. QED  BY <3>1, <4>1 DEF Edited, Dep
    <3>2. CASE n <= Len(deps)
      <4>1. deps[n] \in Dep
        <5>1. n \in 1..Len(deps) /\ deps \in Seq(Dep)
          BY <3>2
        <5>. HIDE DEF TypeInv
        <5>. QED  BY <5>1
      <4>2. Edited[n] \in {deps[n], [lib |-> Invalid, keep |-> FALSE]}
        BY <3>2 DEF Edited
      <4>3. [lib |-> Invalid, keep |-> FALSE] \in Dep
        BY DEF Dep
      <4>. HIDE DEF TypeInv, TypeOK
      <4>. QED  BY <4>1, <4>2, <4>3
    <3>. QED  BY <3>1, <3>2
  <2>2. Edited \in Seq(Dep)
    <3>1. Len(deps) + Len(added) \in Nat
      OBVIOUS
    <3>2. \A n \in 1..(Len(deps) + Len(added)) : Edited[n] \in Dep
      BY <2>1
    <3>. HIDE DEF TypeInv
    <3>3. Edited = [n \in 1..(Len(deps) + Len(added)) |-> Edited[n]]
      BY DEF Edited
    <3>. HIDE DEF Edited
    <3>. QED  BY <3>1, <3>2, <3>3, IsASeq
  <2>3. run' \in 1..MaxRuns
    BY <1>13, NamesAssumption DEF ApplyAndRunAgain
  <2>. QED  BY <1>13, <2>2, <2>3 DEF ApplyAndRunAgain
<1>14. CASE UNCHANGED vars
  BY <1>14 DEF vars
<1>. QED
  BY <1>1, <1>2, <1>3, <1>4, <1>5, <1>6, <1>7, <1>8, <1>9, <1>10, <1>11, <1>12,
     <1>13, <1>14 DEF Next, Finished

\* Every variable keeps its type, and MinimizeDependencySet() never returns an
\* empty set of alternatives: the CHECK_GT in it never fires.
THEOREM TypeCorrect == Spec => []TypeOK
<1>. TypeInv => TypeOK
  BY DEF TypeInv
<1>. QED  BY InitTypeInv, NextTypeInv, PTL DEF Spec

-----------------------------------------------------------------------------
(* MinimizeDependencySet().                                                *)

Minimized == pc \in {"deps", "adds", "done"}

\* Sets before the current one are accounted for, in the end all of them.
PrefixCovered ==
  /\ pc \in {"sources", "includes"} =>
       i = 1 /\ already_covered = {} /\ minimized = <<>>
  /\ 1..(i - 1) \subseteq already_covered
  /\ pc = "narrow" => i \in already_covered
  /\ Minimized => i > Len(needed)

\* A set accounted for contains all of a minimized set, or of what will be one.
CoveredContainOne ==
  \A n \in DOMAIN needed : n \in already_covered =>
    \/ \E m \in DOMAIN minimized : minimized[m] \subseteq needed[n]
    \/ pc = "narrow" /\ current_set \subseteq needed[n]

\* The others have nothing in common with those that are finished.
UncoveredApart ==
  \A n \in DOMAIN needed : n \notin already_covered =>
    \A m \in DOMAIN minimized : minimized[m] \cap needed[n] = {}

\* Nor has the current set with the finished ones and those it was compared with.
CurrentApart ==
  pc = "narrow" =>
    /\ \A m \in DOMAIN minimized : minimized[m] \cap current_set = {}
    /\ \A n \in DOMAIN needed :
         n \in (i + 1)..(j - 1) /\ n \notin already_covered
           => current_set \cap needed[n] = {}

MinimizeInv ==
  PrefixCovered /\ CoveredContainOne /\ UncoveredApart /\ CurrentApart
    /\ AlternativesDisjoint

LEMMA InitMinimizeInv == Init => MinimizeInv
BY DEF Init, MinimizeInv, PrefixCovered, CoveredContainOne, UncoveredApart,
       CurrentApart, AlternativesDisjoint, Minimized

LEMMA NextMinimizeInv ==
  ASSUME TypeInv, MinimizeInv, [Next]_vars PROVE MinimizeInv'
<1>. USE DEF readVars, minimizeVars, editVars, Minimized
<1>0. ASSUME UNCHANGED <<needed, i, j, current_set, already_covered, minimized>>,
             \/ pc' = pc
             \/ pc \in {"sources", "includes"} /\ pc' \in {"sources", "includes", "pick"}
             \/ pc = "pick" /\ i > Len(needed) /\ pc' = "deps"
             \/ pc \in {"deps", "adds"} /\ pc' \in {"adds", "done"}
      PROVE  MinimizeInv'
  <2>1. PrefixCovered'
    BY <1>0 DEF MinimizeInv, PrefixCovered
  <2>2. CoveredContainOne' /\ UncoveredApart'
    BY <1>0 DEF MinimizeInv, CoveredContainOne, UncoveredApart
  <2>3. CurrentApart' /\ AlternativesDisjoint'
    BY <1>0 DEF MinimizeInv, CurrentApart, AlternativesDisjoint
  <2>. QED  BY <2>1, <2>2, <2>3 DEF MinimizeInv
<1>1. CASE OpenSource
  BY <1>0, <1>1 DEF OpenSource
<1>2. CASE CountInclude
  <2>1. pc = "includes" /\ pc' = pc /\ UNCHANGED minimizeVars
    BY <1>2 DEF CountInclude
  <2>2. i = 1 /\ already_covered = {} /\ minimized = <<>>
    BY <2>1 DEF MinimizeInv, PrefixCovered
  <2>. QED  BY <2>1, <2>2 DEF MinimizeInv, PrefixCovered, CoveredContainOne,
                UncoveredApart, CurrentApart, AlternativesDisjoint
<1>3. CASE CloseSource
  BY <1>0, <1>3 DEF CloseSource
<1>4. CASE AllSourcesRead
  BY <1>0, <1>4 DEF AllSourcesRead
<1>5. CASE PickSet
  <2>. pc = "pick" /\ i \in 1..Len(needed) /\ UNCHANGED <<needed, minimized>>
    BY <1>5 DEF PickSet, TypeInv, TypeOK, IndexesOK
  <2>1. CASE i \in already_covered
    <3>. i' = i + 1 /\ UNCHANGED <<pc, j, current_set, already_covered>>
      BY <1>5, <2>1 DEF PickSet
    <3>1. PrefixCovered'
      BY <2>1 DEF MinimizeInv, PrefixCovered
    <3>2. CoveredContainOne' /\ UncoveredApart' /\ CurrentApart'
          /\ AlternativesDisjoint'
      BY DEF MinimizeInv, CoveredContainOne, UncoveredApart, CurrentApart,
             AlternativesDisjoint
    <3>. QED  BY <3>1, <3>2 DEF MinimizeInv
  <2>2. CASE i \notin already_covered
    <3>. /\ pc' = "narrow" /\ i' = i /\ j' = i + 1
         /\ current_set' = needed[i] /\ already_covered' = already_covered \cup {i}
      BY <1>5, <2>2 DEF PickSet
    <3>. needed \in Seq((SUBSET Lib) \ {{}})
      BY DEF TypeInv, TypeOK
    <3>1. PrefixCovered'
      BY DEF MinimizeInv, PrefixCovered
    <3>2. CoveredContainOne' /\ UncoveredApart'
      BY DEF MinimizeInv, CoveredContainOne, UncoveredApart
    <3>3. CurrentApart'
      BY <2>2 DEF MinimizeInv, UncoveredApart, CurrentApart
    <3>4. AlternativesDisjoint'
      BY DEF MinimizeInv, AlternativesDisjoint
    <3>. QED  BY <3>1, <3>2, <3>3, <3>4 DEF MinimizeInv
  <2>. QED  BY <2>1, <2>2
<1>6. CASE Narrow
  <2>. /\ pc = "narrow" /\ pc' = pc /\ j' = j + 1 /\ UNCHANGED <<i, needed, minimized>>
       /\ i \in Nat /\ j \in Nat /\ i >= 1 /\ j >= 1
       /\ current_set' \subseteq current_set /\ already_covered \subseteq already_covered'
    BY <1>6 DEF Narrow, TypeInv, TypeOK, IndexesOK, Intersect, CoveredWith
  <2>1. PrefixCovered'
    BY DEF MinimizeInv, PrefixCovered
  <2>2. \/ already_covered' = already_covered
        \/ already_covered' = already_covered \cup {j} /\ current_set' \subseteq needed[j]
    BY <1>6 DEF Narrow, Intersect, CoveredWith
  <2>3. CoveredContainOne'
    BY <2>2 DEF MinimizeInv, CoveredContainOne
  <2>4. UncoveredApart' /\ AlternativesDisjoint'
    BY DEF MinimizeInv, UncoveredApart, AlternativesDisjoint
  <2>5. j \in already_covered' \/ current_set' \cap needed[j] = {}
    BY <1>6 DEF Narrow, NothingInCommon, CoveredWith
  <2>6. CurrentApart'
    <3>1. ASSUME NEW n \in DOMAIN needed, n \in (i + 1)..j, n \notin already_covered'
          PROVE  current_set' \cap needed[n] = {}
      <4>1. CASE n = j
        BY <2>5, <3>1, <4>1
      <4>2. CASE n \in (i + 1)..(j - 1)
        BY <3>1, <4>2 DEF MinimizeInv, CurrentApart
      <4>. QED  BY <3>1, <4>1, <4>2
    <3>2. \A m \in DOMAIN minimized : minimized[m] \cap current_set' = {}
      BY DEF MinimizeInv, CurrentApart
    <3>. QED  BY <3>1, <3>2 DEF CurrentApart
  <2>. QED  BY <2>1, <2>3, <2>4, <2>6 DEF MinimizeInv
<1>7. CASE PushSet
  <2>. /\ pc = "narrow" /\ pc' = "pick" /\ i' = i + 1 /\ j > Len(needed)
       /\ minimized' = Append(minimized, current_set)
       /\ UNCHANGED <<needed, already_covered>>
       /\ i \in Nat /\ j \in Nat /\ i >= 1
       /\ minimized \in Seq(SUBSET Lib) /\ current_set \in SUBSET Lib
       /\ DOMAIN needed = 1..Len(needed) /\ Len(needed) \in Nat
    BY <1>7 DEF PushSet, TypeInv, TypeOK, IndexesOK
  <2>0. /\ DOMAIN minimized' = 1..(Len(minimized) + 1)
        /\ DOMAIN minimized = 1..Len(minimized)
        /\ \A m \in DOMAIN minimized : m \in DOMAIN minimized' /\ minimized'[m] = minimized[m]
        /\ Len(minimized) + 1 \in DOMAIN minimized'
        /\ minimized'[Len(minimized) + 1] = current_set
    OBVIOUS
  <2>. DEFINE last == Len(minimized) + 1
  <2>a. \A m \in DOMAIN minimized' : m \in DOMAIN minimized \/ m = last
    BY <2>0
  <2>. HIDE DEF last
  <2>1. PrefixCovered'
    BY DEF MinimizeInv, PrefixCovered
  <2>2. CoveredContainOne'
    BY <2>0 DEF MinimizeInv, CoveredContainOne
  <2>3. \A n \in DOMAIN needed : n \notin already_covered =>
          n \in (i + 1)..(j - 1)
    BY DEF MinimizeInv, PrefixCovered
  <2>4. UncoveredApart'
    BY <2>0, <2>a, <2>3 DEF MinimizeInv, UncoveredApart, CurrentApart, last
  <2>5. CurrentApart'
    BY DEF CurrentApart
  <2>6. AlternativesDisjoint'
    BY <2>0, <2>a DEF MinimizeInv, AlternativesDisjoint, CurrentApart, last
  <2>. QED  BY <2>1, <2>2, <2>4, <2>5, <2>6 DEF MinimizeInv
<1>8. CASE AllSetsCovered
  BY <1>0, <1>8 DEF AllSetsCovered
<1>9. CASE CheckDep
  BY <1>0, <1>9 DEF CheckDep
<1>10. CASE AllDepsChecked
  BY <1>0, <1>10 DEF AllDepsChecked
<1>11. ASSUME NEW k \in open, AddNeeded(k) PROVE MinimizeInv'
  BY <1>0, <1>11 DEF AddNeeded
<1>12. CASE AllAdded
  BY <1>0, <1>12 DEF AllAdded
<1>13. CASE ApplyAndRunAgain
  <2>. /\ pc' = "sources" /\ i' = 1 /\ already_covered' = {}
       /\ minimized' = <<>> /\ needed' = <<>>
    BY <1>13 DEF ApplyAndRunAgain
  <2>. QED  BY DEF MinimizeInv, PrefixCovered, CoveredContainOne, UncoveredApart,
                   CurrentApart, AlternativesDisjoint
<1>14. CASE UNCHANGED vars
  BY <1>0, <1>14 DEF vars
<1>. QED
  BY <1>1, <1>2, <1>3, <1>4, <1>5, <1>6, <1>7, <1>8, <1>9, <1>10, <1>11, <1>12,
     <1>13, <1>14 DEF Next, Finished

\* MinimizeDependencySet() returns pairwise disjoint sets of alternatives: an entry
\* of deps satisfies at most one of them.
THEOREM Disjoint == Spec => []AlternativesDisjoint
<1>. MinimizeInv => AlternativesDisjoint
  BY DEF MinimizeInv
<1>. QED  BY InitTypeInv, NextTypeInv, InitMinimizeInv, NextMinimizeInv, PTL DEF Spec

LEMMA MinimizedEnough == TypeInv /\ MinimizeInv => MinimizedCovers
<1>. SUFFICES ASSUME TypeInv, MinimizeInv, Minimized, NEW n \in DOMAIN needed
              PROVE  \E m \in DOMAIN minimized : minimized[m] \subseteq needed[n]
  BY DEF MinimizedCovers, Minimized
<1>1. n \in 1..(i - 1)
  BY DEF MinimizeInv, PrefixCovered, TypeInv, TypeOK
<1>2. n \in already_covered /\ pc # "narrow"
  BY <1>1 DEF MinimizeInv, PrefixCovered, Minimized
<1>. QED  BY <1>2 DEF MinimizeInv, CoveredContainOne

\* Whoever takes one library of each set it returns has a provider of every header
\* included that has a visible one.
THEOREM Covers == Spec => []MinimizedCovers
BY InitTypeInv, NextTypeInv, InitMinimizeInv, NextMinimizeInv, MinimizedEnough, PTL DEF Spec

-----------------------------------------------------------------------------
(* The edits.                                                              *)

NoEditsYet ==
  /\ ~Minimized => open = {} /\ checked_off = {} /\ dep = 1 /\ removed = {}
  /\ pc \notin {"adds", "done"} => added = <<>>

\* No entry of deps that was looked at has an alternative of a set still needed.
OpenNotInDeps ==
  Minimized =>
    \A k \in open : \A n \in DOMAIN deps :
      (pc = "deps" => n < dep) => deps[n].lib \notin minimized[k]

ClosedAreCheckedOff ==
  pc = "deps" => \A k \in DOMAIN minimized \ open : minimized[k] \subseteq checked_off

RemovedNotNeeded ==
  \A l \in removed : \A k \in DOMAIN minimized : l \notin minimized[k]

\* What is added is an alternative of a set that is dealt with, and not there yet.
AddedNeeded ==
  \A m \in DOMAIN added :
    /\ \E k \in DOMAIN minimized : added[m] \in minimized[k]
    /\ \A k \in open : added[m] \notin minimized[k]
    /\ \A n \in DOMAIN deps : added[m] # deps[n].lib

AddedOnce == \A m, n \in DOMAIN added : m # n => added[m] # added[n]

EditInv ==
  NoEditsYet /\ OpenNotInDeps /\ ClosedAreCheckedOff /\ RemovedNotNeeded
    /\ AddedNeeded /\ AddedOnce

LEMMA InitEditInv == Init => EditInv
BY DEF Init, EditInv, NoEditsYet, OpenNotInDeps, ClosedAreCheckedOff,
       RemovedNotNeeded, AddedNeeded, AddedOnce, Minimized

\* The steps that look for what is needed keep the edits empty.
LEMMA BeforeEdits ==
  ASSUME EditInv, ~Minimized, ~Minimized', UNCHANGED editVars
  PROVE  EditInv'
BY DEF EditInv, NoEditsYet, OpenNotInDeps, ClosedAreCheckedOff,
       RemovedNotNeeded, AddedNeeded, AddedOnce, Minimized, editVars

\* SetWith() finds the set that has the library if there is one.
LEMMA SetWithFinds ==
  ASSUME TypeInv, AlternativesDisjoint, NEW l
  PROVE  \/ SetWith(l) \in open /\ l \in minimized[SetWith(l)]
         \/ SetWith(l) = 0 /\ \A k \in open : l \notin minimized[k]
<1>. DEFINE with == {k \in open : l \in minimized[k]}
<1>1. CASE with = {}
  BY <1>1 DEF SetWith
<1>2. CASE with # {}
  <2>1. with \subseteq Nat /\ with \subseteq DOMAIN minimized
    BY DEF TypeInv, TypeOK, IndexesOK
  <2>2. \E k \in with : \A m \in with : k <= m
    <3>1. \A m, n \in with : m = n
      BY <2>1 DEF AlternativesDisjoint
    <3>. QED  BY <1>2, <2>1, <3>1
  <2>3. SetWith(l) \in with
    BY <1>2, <2>2 DEF SetWith
  <2>. QED  BY <2>3
<1>. QED  BY <1>1, <1>2

LEMMA NextEditInv ==
  ASSUME TypeInv, MinimizeInv, EditInv, [Next]_vars PROVE EditInv'
<1>. USE DEF readVars, minimizeVars, Minimized
<1>1. CASE OpenSource \/ CountInclude \/ CloseSource \/ AllSourcesRead
             \/ PickSet \/ Narrow \/ PushSet
  BY <1>1, BeforeEdits DEF OpenSource, CountInclude, CloseSource, AllSourcesRead,
                           PickSet, Narrow, PushSet
<1>2. CASE AllSetsCovered
  <2>. /\ pc = "pick" /\ pc' = "deps" /\ open' = DOMAIN minimized
       /\ UNCHANGED <<deps, minimized, checked_off, dep, removed, added>>
       /\ dep = 1 /\ DOMAIN deps \subseteq Nat \ {0}
    BY <1>2 DEF AllSetsCovered, EditInv, NoEditsYet, TypeInv, TypeOK
  <2>. QED  BY DEF EditInv, NoEditsYet, OpenNotInDeps, ClosedAreCheckedOff,
                   RemovedNotNeeded, AddedNeeded, AddedOnce
<1>3. CASE CheckDep
  <2>. DEFINE l == deps[dep].lib
              k == SetWith(l)
  <2>. /\ pc = "deps" /\ pc' = pc /\ dep \in DOMAIN deps /\ dep' = dep + 1
       /\ UNCHANGED <<deps, minimized, added>>
       /\ added = <<>> /\ DOMAIN deps \subseteq Nat /\ dep \in Nat
    BY <1>3 DEF CheckDep, TypeInv, TypeOK, IndexesOK, EditInv, NoEditsYet
  <2>1. l \in Lib \cup {Invalid}
    <3>1. deps[dep] \in Dep
      BY DEF TypeInv, TypeOK
    <3>. QED  BY <3>1 DEF Dep
  <2>2. \/ k \in open /\ l \in minimized[k]
        \/ k = 0 /\ \A m \in open : l \notin minimized[m]
    BY SetWithFinds DEF MinimizeInv
  <2>3. \A m \in open : m \in DOMAIN minimized /\ m # 0 /\ minimized[m] \subseteq Lib
    <3>. minimized \in Seq((SUBSET Lib) \ {{}}) /\ open \subseteq DOMAIN minimized
      BY DEF TypeInv, TypeOK, IndexesOK
    <3>. QED  OBVIOUS
  <2>4. \/ l = Invalid /\ UNCHANGED <<open, checked_off, removed>>
        \/ /\ k \in open /\ l \in minimized[k]
           /\ open' = open \ {k} /\ checked_off' = checked_off \cup minimized[k]
           /\ UNCHANGED removed
        \/ /\ \A m \in open : l \notin minimized[m]
           /\ UNCHANGED <<open, checked_off>>
           /\ removed' = removed \/ (l \notin checked_off /\ removed' = removed \cup {l})
    <3>. HIDE DEF k
    <3>1. \/ l = Invalid /\ UNCHANGED <<open, checked_off, removed>>
          \/ /\ k # 0 /\ open' = open \ {k} /\ checked_off' = checked_off \cup minimized[k]
             /\ UNCHANGED removed
          \/ /\ k = 0 /\ UNCHANGED <<open, checked_off>>
             /\ removed' = removed \/ (l \notin checked_off /\ removed' = removed \cup {l})
      BY <1>3 DEF CheckDep, Erase, WasCheckedOff, k
    <3>. HIDE DEF l
    <3>. QED  BY <3>1, <2>2, <2>3
  <2>. HIDE DEF k
  <2>5. open' \subseteq open /\ \A m \in open' : l \notin minimized[m]
    <3>1. \A m \in open : l = Invalid => l \notin minimized[m]
      BY <2>3, NamesAssumption
    <3>2. \A m, n \in open : m # n => minimized[m] \cap minimized[n] = {}
      BY <2>3 DEF MinimizeInv, AlternativesDisjoint
    <3>. HIDE DEF l
    <3>. QED  BY <2>4, <3>1, <3>2
  <2>. HIDE DEF l
  <2>6. OpenNotInDeps'
    BY <2>5 DEF EditInv, OpenNotInDeps, l
  <2>7. ClosedAreCheckedOff'
    BY <2>4 DEF EditInv, ClosedAreCheckedOff
  <2>8. RemovedNotNeeded'
    <3>1. l \notin checked_off => \A m \in DOMAIN minimized \ open : l \notin minimized[m]
      BY DEF EditInv, ClosedAreCheckedOff
    <3>. QED  BY <2>4, <3>1 DEF EditInv, RemovedNotNeeded
  <2>9. NoEditsYet' /\ AddedNeeded' /\ AddedOnce'
    BY DEF NoEditsYet, AddedNeeded, AddedOnce
  <2>. QED  BY <2>6, <2>7, <2>8, <2>9 DEF EditInv
<1>4. CASE AllDepsChecked
  <2>. /\ pc = "deps" /\ pc' = "adds" /\ dep > Len(deps) /\ UNCHANGED editVars
       /\ UNCHANGED <<deps, minimized>> /\ added = <<>>
       /\ \A n \in DOMAIN deps : n < dep
    BY <1>4 DEF AllDepsChecked, TypeInv, TypeOK, EditInv, NoEditsYet
  <2>. QED  BY DEF EditInv, NoEditsYet, OpenNotInDeps, ClosedAreCheckedOff,
                   RemovedNotNeeded, AddedNeeded, AddedOnce, editVars
<1>5. ASSUME NEW k \in open, AddNeeded(k) PROVE EditInv'
  <2>. DEFINE l == CHOOSE x \in minimized[k] : TRUE
  <2>. /\ pc = "adds" /\ pc' = pc /\ open' = open \ {k}
       /\ UNCHANGED <<deps, minimized, checked_off, dep, removed>>
    BY <1>5 DEF AddNeeded
  <2>1. added' = added \/ added' = Append(added, l)
    BY <1>5 DEF AddNeeded
  <2>2. k \in DOMAIN minimized /\ l \in minimized[k] /\ l \in Lib
    <3>. minimized \in Seq((SUBSET Lib) \ {{}}) /\ k \in DOMAIN minimized
      BY DEF TypeInv, TypeOK, IndexesOK
    <3>. QED  OBVIOUS
  <2>. HIDE DEF l
  <2>3. NoEditsYet' /\ OpenNotInDeps' /\ ClosedAreCheckedOff' /\ RemovedNotNeeded'
    BY DEF EditInv, NoEditsYet, OpenNotInDeps, ClosedAreCheckedOff, RemovedNotNeeded
  <2>4. /\ \A n \in DOMAIN deps : l # deps[n].lib
        /\ \A m \in open' : l \notin minimized[m]
        /\ \A m \in DOMAIN added : l # added[m]
    <3>1. \A m \in open' : minimized[m] \cap minimized[k] = {}
      BY <2>2 DEF MinimizeInv, AlternativesDisjoint, TypeInv, IndexesOK
    <3>. QED  BY <2>2, <3>1 DEF EditInv, OpenNotInDeps, AddedNeeded
  <2>5. CASE added' = added
    BY <2>3, <2>5 DEF EditInv, AddedNeeded, AddedOnce
  <2>6. CASE added' = Append(added, l)
    <3>1. /\ \A m \in DOMAIN added : added'[m] = added[m]
          /\ \A m \in DOMAIN added' : m \in DOMAIN added \/ m = Len(added) + 1
          /\ added'[Len(added) + 1] = l
      BY <2>2, <2>6 DEF TypeInv, TypeOK
    <3>2. \A m \in DOMAIN added' : m \notin DOMAIN added => added'[m] = l
      BY <3>1
    <3>3. AddedNeeded'
      BY <2>2, <2>4, <3>1, <3>2 DEF EditInv, AddedNeeded
    <3>4. AddedOnce'
      BY <2>4, <3>1 DEF EditInv, AddedOnce
    <3>. QED  BY <2>3, <3>3, <3>4 DEF EditInv
  <2>. QED  BY <2>1, <2>5, <2>6
<1>6. CASE AllAdded
  <2>. pc = "adds" /\ pc' = "done" /\ UNCHANGED editVars /\ UNCHANGED <<deps, minimized>>
    BY <1>6 DEF AllAdded
  <2>. QED  BY DEF EditInv, NoEditsYet, OpenNotInDeps, ClosedAreCheckedOff,
                   RemovedNotNeeded, AddedNeeded, AddedOnce, editVars
<1>7. CASE ApplyAndRunAgain
  <2>. /\ pc' = "sources" /\ open' = {} /\ checked_off' = {} /\ dep' = 1
       /\ removed' = {} /\ added' = <<>>
    BY <1>7 DEF ApplyAndRunAgain
  <2>. QED  BY DEF EditInv, NoEditsYet, OpenNotInDeps, ClosedAreCheckedOff,
                   RemovedNotNeeded, AddedNeeded, AddedOnce
<1>8. CASE UNCHANGED vars
  BY <1>8 DEF vars, EditInv, NoEditsYet, OpenNotInDeps, ClosedAreCheckedOff,
              RemovedNotNeeded, AddedNeeded, AddedOnce
<1>. QED
  BY <1>1, <1>2, <1>3, <1>4, <1>5, <1>6, <1>7, <1>8 DEF Next, Finished

\* No library is added twice, none that is in deps already is added, and none is
\* both added and removed, however many alternatives the sources leave open.
THEOREM EditsDoNotConflict == Spec => []NoConflictingEdits
<1>. TypeInv /\ EditInv => NoConflictingEdits
  BY DEF TypeInv, TypeOK, EditInv, AddedNeeded, AddedOnce, RemovedNotNeeded,
         NoConflictingEdits, Elements, Libs
<1>. QED  BY InitTypeInv, NextTypeInv, InitMinimizeInv, NextMinimizeInv, InitEditInv,
             NextEditInv, PTL DEF Spec

-----------------------------------------------------------------------------
(* Removals.                                                               *)

\* all_header_deps_known speaks of the sources and includes looked at.
AllKnownMeans ==
  all_known =>
    \A s \in DOMAIN world.sources :
      /\ s < source => /\ world.sources[s].readable
                       /\ \A n \in DOMAIN world.sources[s].includes :
                            world.sources[s].includes[n].via # "unknown"
      /\ s = source /\ pc = "includes" =>
           /\ world.sources[s].readable
           /\ \A n \in DOMAIN world.sources[s].includes :
                n < include => world.sources[s].includes[n].via # "unknown"

AllSourcesSeen ==
  pc \notin {"sources", "includes"} => source > Len(world.sources)

\* What an entry that is removed was tested for.
RemovedTested ==
  /\ removed # {} => all_known
  /\ \A l \in removed :
       /\ ~IsAlwayslink(l)
       /\ \E n \in DOMAIN deps : deps[n].lib = l /\ (world.ignore_keep \/ ~deps[n].keep)

RemovalInv == AllKnownMeans /\ AllSourcesSeen /\ RemovedTested

LEMMA InitRemovalInv == Init => RemovalInv
<1>. SUFFICES ASSUME Init PROVE RemovalInv
  OBVIOUS
<1>1. world.sources \in Seq(Source) /\ DOMAIN world.sources \subseteq Nat \ {0}
  BY WorldsAssumption DEF Init, World
<1>. QED
  BY <1>1 DEF Init, RemovalInv, AllKnownMeans, AllSourcesSeen, RemovedTested

LEMMA NextRemovalInv ==
  ASSUME TypeInv, EditInv, RemovalInv, [Next]_vars PROVE RemovalInv'
<1>. USE DEF readVars, minimizeVars, editVars
<1>0. /\ world.sources \in Seq(Source)
      /\ source \in Nat /\ source >= 1 /\ include \in Nat /\ include >= 1
      /\ all_known \in BOOLEAN
  BY DEF TypeInv, TypeOK, IndexesOK, World
<1>b. ASSUME NEW s \in DOMAIN world.sources
      PROVE  /\ world.sources[s].includes \in Seq(Include)
             /\ \A n \in DOMAIN world.sources[s].includes : n \in Nat /\ n >= 1
  <2>1. world.sources[s] \in Source
    BY <1>0
  <2>2. world.sources[s].includes \in Seq(Include)
    BY <2>1 DEF Source
  <2>. QED  BY <2>2
\* Most steps touch neither what was read nor what is removed.
<1>a. ASSUME UNCHANGED <<world, deps, source, include, all_known, removed>>,
             pc' = pc \/ pc' \notin {"sources", "includes"},
             AllSourcesSeen'
      PROVE  RemovalInv'
  BY <1>a DEF RemovalInv, AllKnownMeans, RemovedTested, IsAlwayslink
<1>1. CASE OpenSource
  <2>. /\ pc = "sources" /\ source <= Len(world.sources) /\ include' = 1
       /\ pc' \in {"sources", "includes"} /\ UNCHANGED <<world, deps, removed>>
    BY <1>1 DEF OpenSource
  <2>0. removed = {}
    BY DEF EditInv, NoEditsYet, Minimized
  <2>1. AllKnownMeans'
    <3>1. CASE world.sources[source].readable
      <4>. pc' = "includes" /\ UNCHANGED <<source, all_known>>
        BY <1>1, <3>1 DEF OpenSource
      <4>1. \A s \in DOMAIN world.sources : \A n \in DOMAIN world.sources[s].includes :
              ~(n < 1)
        BY <1>b
      <4>. QED  BY <1>0, <3>1, <4>1 DEF RemovalInv, AllKnownMeans
    <3>2. CASE ~world.sources[source].readable
      <4>. all_known' = FALSE
        BY <1>1, <3>2 DEF OpenSource
      <4>. QED  BY DEF AllKnownMeans
    <3>. QED  BY <3>1, <3>2
  <2>. QED  BY <2>0, <2>1 DEF RemovalInv, AllSourcesSeen, RemovedTested
<1>2. CASE CountInclude
  <2>. /\ pc = "includes" /\ include' = include + 1
       /\ UNCHANGED <<world, deps, pc, source, removed>>
    BY <1>2 DEF CountInclude
  <2>0. removed = {}
    BY DEF EditInv, NoEditsYet, Minimized
  <2>1. all_known' => all_known /\ Includes[include].via # "unknown"
    BY <1>2 DEF CountInclude
  <2>2. AllKnownMeans'
    <3>. SUFFICES ASSUME all_known' PROVE AllKnownMeans'
      BY DEF AllKnownMeans
    <3>1. all_known /\ world.sources[source].includes[include].via # "unknown"
      BY <2>1 DEF Includes
    <3>2. \A n \in DOMAIN world.sources[source].includes :
            n < include + 1 => n < include \/ n = include
      <4>1. source \in 1..Len(world.sources)
        BY <1>0 DEF TypeInv, IndexesOK
      <4>2. world.sources[source].includes \in Seq(Include)
        BY <1>0, <1>b, <4>1
      <4>3. \A n \in DOMAIN world.sources[source].includes : n \in Nat
        BY <4>2
      <4>4. include \in Nat
        BY <1>0 DEF TypeInv, TypeOK
      <4>. QED  BY <4>3, <4>4
    <3>. QED  BY <1>0, <3>1, <3>2 DEF RemovalInv, AllKnownMeans
  <2>. QED  BY <2>0, <2>2 DEF RemovalInv, AllSourcesSeen, RemovedTested
<1>3. CASE CloseSource
  <2>. /\ pc = "includes" /\ include > Len(Includes) /\ source' = source + 1
       /\ pc' = "sources" /\ UNCHANGED <<world, deps, all_known, removed>>
    BY <1>3 DEF CloseSource
  <2>0. removed = {}
    BY DEF EditInv, NoEditsYet, Minimized
  <2>1. AllKnownMeans'
    <3>1. source \in DOMAIN world.sources
      BY <1>0 DEF TypeInv, IndexesOK
    <3>2. world.sources[source].includes \in Seq(Include)
      BY <1>b, <3>1
    <3>3. \A n \in DOMAIN world.sources[source].includes : n < include
      BY <1>0, <3>2 DEF Includes
    <3>4. \A s \in DOMAIN world.sources : s < source + 1 => s < source \/ s = source
      BY <1>0
    <3>. QED  BY <1>0, <3>1, <3>3, <3>4 DEF RemovalInv, AllKnownMeans
  <2>. QED  BY <2>0, <2>1 DEF RemovalInv, AllSourcesSeen, RemovedTested
<1>4. CASE AllSourcesRead
  <2>1. AllSourcesSeen'
    BY <1>4 DEF AllSourcesRead, AllSourcesSeen
  <2>. QED  BY <1>4, <1>a, <2>1 DEF AllSourcesRead
<1>5. CASE PickSet \/ Narrow \/ PushSet \/ AllSetsCovered \/ AllDepsChecked \/ AllAdded
             \/ \E k \in open : AddNeeded(k)
  <2>1. /\ UNCHANGED <<world, deps, source, include, all_known, removed>>
        /\ pc \notin {"sources", "includes"} /\ pc' \notin {"sources", "includes"}
    BY <1>5 DEF PickSet, Narrow, PushSet, AllSetsCovered, AllDepsChecked, AllAdded,
                AddNeeded
  <2>2. AllSourcesSeen'
    BY <2>1 DEF RemovalInv, AllSourcesSeen
  <2>. QED  BY <2>1, <2>2, <1>a
<1>6. CASE CheckDep
  <2>. /\ pc = "deps" /\ pc' = pc /\ dep \in DOMAIN deps
       /\ UNCHANGED <<world, deps, source, include, all_known>>
    BY <1>6 DEF CheckDep, TypeInv, TypeOK, IndexesOK
  <2>1. AllKnownMeans' /\ AllSourcesSeen'
    BY DEF RemovalInv, AllKnownMeans, AllSourcesSeen
  <2>2. \/ removed' = removed
        \/ /\ removed' = removed \cup {deps[dep].lib}
           /\ all_known /\ ~IsAlwayslink(deps[dep].lib)
           /\ world.ignore_keep \/ ~deps[dep].keep
    BY <1>6 DEF CheckDep, MayRemove
  <2>3. RemovedTested'
    BY <2>2 DEF RemovalInv, RemovedTested, IsAlwayslink
  <2>. QED  BY <2>1, <2>3 DEF RemovalInv
<1>7. CASE ApplyAndRunAgain
  <2>1. /\ pc' = "sources" /\ source' = 1 /\ removed' = {} /\ UNCHANGED world
    BY <1>7 DEF ApplyAndRunAgain
  <2>2. DOMAIN world.sources \subseteq Nat \ {0}
    BY <1>0
  <2>. QED  BY <2>1, <2>2 DEF RemovalInv, AllKnownMeans, AllSourcesSeen, RemovedTested
<1>8. CASE UNCHANGED vars
  BY <1>8 DEF vars, RemovalInv, AllKnownMeans, AllSourcesSeen, RemovedTested,
              IsAlwayslink
<1>. QED
  BY <1>1, <1>2, <1>3, <1>4, <1>5, <1>6, <1>7, <1>8 DEF Next, Finished

\* A library is removed only if nothing in the sources could need it: each was
\* read, each header is accounted for and no set of alternatives has the library.
THEOREM SafeRemovals == Spec => []RemovalsAreSafe
<1>. TypeInv /\ EditInv /\ RemovalInv => RemovalsAreSafe
  <2>. SUFFICES ASSUME TypeInv, EditInv, RemovalInv, removed # {}
                PROVE  RemovalsAreSafe
    BY DEF RemovalsAreSafe
  <2>1. all_known /\ Minimized
    BY DEF RemovalInv, RemovedTested, EditInv, NoEditsYet
  <2>2. \A s \in DOMAIN world.sources : s < source
    <3>1. world.sources \in Seq(Source) /\ source \in Nat
      BY DEF TypeInv, TypeOK, World
    <3>. QED  BY <2>1, <3>1 DEF RemovalInv, AllSourcesSeen, Minimized
  <2>3. \A s \in Elements(world.sources) :
          s.readable /\ \A inc \in Elements(s.includes) : inc.via # "unknown"
    BY <2>1, <2>2 DEF RemovalInv, AllKnownMeans, Elements
  <2>4. \A l \in removed :
          /\ world.info[l].known /\ ~world.info[l].alwayslink
          /\ \E d \in Elements(deps) : d.lib = l /\ (world.ignore_keep \/ ~d.keep)
    BY DEF RemovalInv, RemovedTested, IsAlwayslink, Elements
  <2>. QED  BY <2>3, <2>4 DEF RemovalsAreSafe, EditInv, RemovedNotNeeded
<1>. QED  BY InitTypeInv, NextTypeInv, InitMinimizeInv, NextMinimizeInv, InitEditInv,
             NextEditInv, InitRemovalInv, NextRemovalInv, PTL DEF Spec

-----------------------------------------------------------------------------
(* Completeness of the edits.                                              *)

\* An include with a visible provider has its set of alternatives.
HasItsSet(inc) ==
  (inc.via = "lib" /\ VisibleOf(inc.libs) # {}) =>
    \E k \in DOMAIN needed : needed[k] = VisibleOf(inc.libs)

LookedAt(s, n) == s < source \/ (s = source /\ pc = "includes" /\ n < include)

IsRead(inc) ==
  \E s \in DOMAIN world.sources :
    /\ world.sources[s].readable
    /\ \E n \in DOMAIN world.sources[s].includes :
         inc = world.sources[s].includes[n] /\ LookedAt(s, n)

IncludesNeeded == \A inc : IsRead(inc) => HasItsSet(inc)

LEMMA InitIncludesNeeded == Init => IncludesNeeded
<1>. SUFFICES ASSUME Init PROVE IncludesNeeded
  OBVIOUS
<1>1. DOMAIN world.sources \subseteq Nat \ {0}
  BY WorldsAssumption DEF Init, World
<1>. QED  BY <1>1 DEF Init, IncludesNeeded, IsRead, LookedAt

LEMMA NextIncludesNeeded ==
  ASSUME TypeInv, IncludesNeeded, [Next]_vars PROVE IncludesNeeded'
<1>. USE DEF readVars, minimizeVars, editVars
<1>0. /\ world.sources \in Seq(Source) /\ DOMAIN world.sources \subseteq Nat \ {0}
      /\ source \in Nat /\ source >= 1 /\ include \in Nat /\ include >= 1
  BY DEF TypeInv, TypeOK, IndexesOK, World
<1>b. ASSUME NEW s \in DOMAIN world.sources
      PROVE  /\ world.sources[s].includes \in Seq(Include)
             /\ DOMAIN world.sources[s].includes \subseteq Nat \ {0}
  <2>1. world.sources[s] \in Source
    BY <1>0
  <2>2. world.sources[s].includes \in Seq(Include)
    BY <2>1 DEF Source
  <2>. QED  BY <2>2
\* What is looked at for the first time has to be accounted for.
<1>c. ASSUME world' = world,
             \A libs : (\E k \in DOMAIN needed : needed[k] = libs)
                         => \E k \in DOMAIN needed' : needed'[k] = libs,
             \A inc : IsRead(inc)' => IsRead(inc) \/ HasItsSet(inc)'
      PROVE  IncludesNeeded'
  <2>1. ASSUME NEW inc PROVE HasItsSet(inc) => HasItsSet(inc)'
    <3>1. VisibleOf(inc.libs)' = VisibleOf(inc.libs)
      BY <1>c DEF VisibleOf, CanSee
    <3>. QED  BY <1>c, <3>1 DEF HasItsSet
  <2>. QED  BY <1>c, <2>1 DEF IncludesNeeded
<1>1. CASE OpenSource
  <2>1. /\ pc = "sources" /\ include' = 1 /\ UNCHANGED <<world, needed>>
        /\ \/ world.sources[source].readable /\ source' = source
           \/ ~world.sources[source].readable /\ pc' = "sources" /\ source' = source + 1
    BY <1>1 DEF OpenSource
  <2>2. ASSUME NEW s \in DOMAIN world.sources, world.sources[s].readable,
               NEW n \in DOMAIN world.sources[s].includes, LookedAt(s, n)'
        PROVE  LookedAt(s, n)
    BY <1>0, <1>b, <2>1, <2>2 DEF LookedAt
  <2>. QED  BY <1>c, <2>1, <2>2 DEF IsRead
<1>2. CASE CountInclude
  <2>. DEFINE inc == Includes[include]
  <2>1. /\ pc = "includes" /\ include' = include + 1 /\ UNCHANGED <<world, pc, source>>
        /\ needed' = IF inc.via = "lib" /\ VisibleOf(inc.libs) # {}
                     THEN Append(needed, VisibleOf(inc.libs)) ELSE needed
    BY <1>2 DEF CountInclude
  <2>2. needed \in Seq((SUBSET Lib) \ {{}})
    BY DEF TypeInv, TypeOK
  <2>3. \A libs : (\E k \in DOMAIN needed : needed[k] = libs)
                    => \E k \in DOMAIN needed' : needed'[k] = libs
    <3>1. CASE needed' = needed
      BY <3>1
    <3>2. CASE needed' = Append(needed, VisibleOf(inc.libs))
      <4>1. \A k \in DOMAIN needed : k \in DOMAIN needed' /\ needed'[k] = needed[k]
        BY <2>2, <3>2
      <4>. QED  BY <4>1
    <3>. QED  BY <2>1, <3>1, <3>2
  <2>4. ASSUME NEW x, x = inc PROVE HasItsSet(x)'
    <3>1. VisibleOf(x.libs)' = VisibleOf(x.libs)
      BY <2>1 DEF VisibleOf, CanSee
    <3>2. ASSUME x.via = "lib", VisibleOf(x.libs) # {}
          PROVE  \E k \in DOMAIN needed' : needed'[k] = VisibleOf(x.libs)
      <4>1. needed' = Append(needed, VisibleOf(x.libs))
        BY <2>1, <2>4, <3>2
      <4>2. /\ Len(needed) + 1 \in DOMAIN needed'
            /\ needed'[Len(needed) + 1] = VisibleOf(x.libs)
        BY <2>2, <4>1
      <4>. QED  BY <4>2
    <3>. QED  BY <3>1, <3>2 DEF HasItsSet
  <2>5. ASSUME NEW s \in DOMAIN world.sources, NEW n \in DOMAIN world.sources[s].includes,
               LookedAt(s, n)'
        PROVE  LookedAt(s, n) \/ world.sources[s].includes[n] = inc
    BY <1>0, <1>b, <2>1, <2>5 DEF LookedAt, Includes
  <2>. HIDE DEF inc
  <2>. QED  BY <1>c, <2>1, <2>3, <2>4, <2>5 DEF IsRead
<1>3. CASE CloseSource
  <2>1. /\ pc = "includes" /\ include > Len(Includes) /\ source' = source + 1
        /\ pc' = "sources" /\ UNCHANGED <<world, needed>>
    BY <1>3 DEF CloseSource
  <2>2. \A n \in DOMAIN world.sources[source].includes : n < include
    <3>1. source \in DOMAIN world.sources
      BY <1>0, <2>1 DEF TypeInv, IndexesOK
    <3>. QED  BY <1>0, <1>b, <2>1, <3>1 DEF Includes
  <2>3. ASSUME NEW s \in DOMAIN world.sources, NEW n \in DOMAIN world.sources[s].includes,
               LookedAt(s, n)'
        PROVE  LookedAt(s, n)
    BY <1>0, <2>1, <2>2, <2>3 DEF LookedAt
  <2>. QED  BY <1>c, <2>1, <2>3 DEF IsRead
<1>4. CASE \/ AllSourcesRead \/ PickSet \/ Narrow \/ PushSet \/ AllSetsCovered \/ CheckDep
           \/ AllDepsChecked \/ AllAdded \/ \E k \in open : AddNeeded(k)
  <2>1. UNCHANGED <<world, needed, source>> /\ pc' # "includes"
    BY <1>4 DEF AllSourcesRead, PickSet, Narrow, PushSet, AllSetsCovered, CheckDep,
                AllDepsChecked, AllAdded, AddNeeded
  <2>. QED  BY <1>c, <2>1 DEF IsRead, LookedAt
<1>5. CASE ApplyAndRunAgain
  <2>1. source' = 1 /\ pc' = "sources" /\ world' = world
    BY <1>5 DEF ApplyAndRunAgain
  <2>. QED  BY <1>0, <2>1 DEF IncludesNeeded, IsRead, LookedAt
<1>6. CASE UNCHANGED vars
  <2>1. UNCHANGED <<world, needed, source, include, pc>>
    BY <1>6 DEF vars
  <2>. QED  BY <1>c, <2>1 DEF IsRead, LookedAt
<1>. QED
  BY <1>1, <1>2, <1>3, <1>4, <1>5, <1>6 DEF Next, Finished

\* The target can see every alternative there is: what is in a minimized set may be
\* added as far as visibility goes.
AllVisible ==
  \A l :
    /\ \A k \in DOMAIN needed : l \in needed[k] => CanSee(l)
    /\ pc = "narrow" /\ l \in current_set => CanSee(l)
    /\ \A m \in DOMAIN minimized : l \in minimized[m] => CanSee(l)

LEMMA InitAllVisible == Init => AllVisible
BY DEF Init, AllVisible

LEMMA NextAllVisible == ASSUME TypeInv, AllVisible, [Next]_vars PROVE AllVisible'
<1>. USE DEF readVars, minimizeVars, editVars
<1>a. ASSUME world' = world,
             \A l : /\ \A k \in DOMAIN needed' : l \in needed'[k] => CanSee(l)
                    /\ pc' = "narrow" /\ l \in current_set' => CanSee(l)
                    /\ \A m \in DOMAIN minimized' : l \in minimized'[m] => CanSee(l)
      PROVE  AllVisible'
  BY <1>a DEF AllVisible, CanSee
<1>1. CASE CountInclude
  <2>1. /\ pc' = "includes" /\ UNCHANGED <<world, minimized>>
        /\ \/ needed' = needed
           \/ needed' = Append(needed, VisibleOf(Includes[include].libs))
    BY <1>1 DEF CountInclude
  <2>2. \A libs : \A l \in VisibleOf(libs) : CanSee(l)
    BY DEF VisibleOf
  <2>3. needed \in Seq((SUBSET Lib) \ {{}})
    BY DEF TypeInv, TypeOK
  <2>4. ASSUME NEW l, NEW k \in DOMAIN needed', l \in needed'[k] PROVE CanSee(l)
    <3>1. \/ k \in DOMAIN needed /\ needed'[k] = needed[k]
          \/ needed'[k] = VisibleOf(Includes[include].libs)
      BY <2>1, <2>3, <2>4
    <3>. QED  BY <2>2, <2>4, <3>1 DEF AllVisible
  <2>. QED  BY <1>a, <2>1, <2>4 DEF AllVisible
<1>2. CASE PickSet
  <2>1. /\ UNCHANGED <<world, needed, minimized>>
        /\ pc' = "narrow" => i \in DOMAIN needed /\ current_set' = needed[i]
    BY <1>2 DEF PickSet, TypeInv, TypeOK, IndexesOK
  <2>. QED  BY <1>a, <2>1 DEF AllVisible
<1>3. CASE Narrow
  <2>1. pc = "narrow" /\ UNCHANGED <<world, needed, minimized>> /\ current_set' \subseteq current_set
    BY <1>3 DEF Narrow, Intersect
  <2>. QED  BY <1>a, <2>1 DEF AllVisible
<1>4. CASE PushSet
  <2>1. /\ pc = "narrow" /\ pc' = "pick" /\ UNCHANGED <<world, needed>>
        /\ minimized' = Append(minimized, current_set)
    BY <1>4 DEF PushSet
  <2>2. minimized \in Seq((SUBSET Lib) \ {{}})
    BY DEF TypeInv, TypeOK
  <2>3. ASSUME NEW l, NEW m \in DOMAIN minimized', l \in minimized'[m] PROVE CanSee(l)
    <3>1. \/ m \in DOMAIN minimized /\ minimized'[m] = minimized[m]
          \/ minimized'[m] = current_set
      BY <2>1, <2>2
    <3>. QED  BY <2>1, <2>3, <3>1 DEF AllVisible
  <2>. QED  BY <1>a, <2>1, <2>3 DEF AllVisible
<1>5. CASE \/ OpenSource \/ CloseSource \/ AllSourcesRead \/ AllSetsCovered \/ CheckDep
           \/ AllDepsChecked \/ AllAdded \/ \E k \in open : AddNeeded(k)
  <2>1. UNCHANGED <<world, needed, minimized>> /\ pc' # "narrow"
    BY <1>5 DEF OpenSource, CloseSource, AllSourcesRead, AllSetsCovered, CheckDep,
                AllDepsChecked, AllAdded, AddNeeded
  <2>. QED  BY <1>a, <2>1 DEF AllVisible
<1>6. CASE ApplyAndRunAgain
  <2>1. needed' = <<>> /\ minimized' = <<>> /\ pc' = "sources"
    BY <1>6 DEF ApplyAndRunAgain
  <2>. QED  BY <2>1 DEF AllVisible
<1>7. CASE UNCHANGED vars
  BY <1>7, <1>a DEF vars, AllVisible
<1>. QED
  BY <1>1, <1>2, <1>3, <1>4, <1>5, <1>6, <1>7 DEF Next, Finished

\* A set of alternatives that is dealt with has one of them in deps, or, if it is
\* the only one and may be added, in the edits.
Served(m) ==
  \/ \E n \in DOMAIN deps : deps[n].lib \in minimized[m]
  \/ \A l : minimized[m] = {l} /\ IsTestonlyCompatible(l)
       => \E a \in DOMAIN added : added[a] = l

ClosedAreServed ==
  /\ Minimized => \A m \in DOMAIN minimized \ open : Served(m)
  /\ pc = "done" => open = {}

LEMMA InitClosedAreServed == Init => ClosedAreServed
BY DEF Init, ClosedAreServed, Minimized

LEMMA NextClosedAreServed ==
  ASSUME TypeInv, MinimizeInv, EditInv, AllVisible, ClosedAreServed, [Next]_vars
  PROVE  ClosedAreServed'
<1>. USE DEF readVars, minimizeVars, editVars, Minimized
<1>a. ASSUME UNCHANGED <<world, deps, minimized>>,
             \A a \in DOMAIN added : a \in DOMAIN added' /\ added'[a] = added[a],
             NEW m \in DOMAIN minimized, Served(m)
      PROVE  Served(m)'
  <2>1. \A l : IsTestonlyCompatible(l)' = IsTestonlyCompatible(l)
    BY <1>a DEF IsTestonlyCompatible
  <2>. QED  BY <1>a, <2>1 DEF Served
<1>1. CASE \/ OpenSource \/ CountInclude \/ CloseSource \/ AllSourcesRead
           \/ PickSet \/ Narrow \/ PushSet \/ ApplyAndRunAgain
  <2>1. ~Minimized'
    BY <1>1 DEF OpenSource, CountInclude, CloseSource, AllSourcesRead, PickSet, Narrow,
                PushSet, ApplyAndRunAgain
  <2>. QED  BY <2>1 DEF ClosedAreServed
<1>2. CASE AllSetsCovered
  BY <1>2 DEF AllSetsCovered, ClosedAreServed
<1>3. CASE CheckDep
  <2>. DEFINE k == SetWith(deps[dep].lib)
  <2>1. /\ pc = "deps" /\ pc' = "deps" /\ dep \in DOMAIN deps
        /\ UNCHANGED <<world, deps, minimized, added>>
        /\ open' = open \/ (k # 0 /\ open' = open \ {k})
    BY <1>3 DEF CheckDep, Erase, TypeInv, TypeOK, IndexesOK
  <2>2. k # 0 => deps[dep].lib \in minimized[k]
    BY SetWithFinds DEF MinimizeInv
  <2>. HIDE DEF k
  <2>3. \A m \in DOMAIN minimized \ open : Served(m)'
    BY <1>a, <2>1 DEF ClosedAreServed
  <2>4. ASSUME NEW m \in open \ open' PROVE Served(m)'
    <3>1. m = k /\ k # 0
      BY <2>1, <2>4
    <3>2. deps[dep].lib \in minimized[m]
      BY <2>2, <3>1
    <3>. QED  BY <2>1, <3>2 DEF Served
  <2>. QED  BY <2>1, <2>3, <2>4 DEF ClosedAreServed
<1>4. CASE AllDepsChecked
  <2>1. /\ pc = "deps" /\ pc' = "adds" /\ UNCHANGED <<world, deps, minimized, added, open>>
    BY <1>4 DEF AllDepsChecked
  <2>. QED  BY <1>a, <2>1 DEF ClosedAreServed
<1>5. ASSUME NEW k \in open, AddNeeded(k) PROVE ClosedAreServed'
  <2>. DEFINE x == CHOOSE y \in minimized[k] : TRUE
              Adds == ~Ambiguous(minimized[k]) /\ CanSee(x) /\ IsTestonlyCompatible(x)
  <2>1. /\ pc = "adds" /\ pc' = "adds" /\ open' = open \ {k}
        /\ UNCHANGED <<world, deps, minimized>>
        /\ added' = IF Adds THEN Append(added, x) ELSE added
    BY <1>5 DEF AddNeeded
  <2>2. k \in DOMAIN minimized /\ added \in Seq(Lib)
    BY DEF TypeInv, TypeOK, IndexesOK
  <2>3. ASSUME NEW l, minimized[k] = {l}, IsTestonlyCompatible(l)
        PROVE  \E a \in DOMAIN added' : added'[a] = l
    <3>1. x = l
      BY <2>3
    <3>2. ~Ambiguous(minimized[k])
      BY <2>3, FS_Singleton DEF Ambiguous
    <3>3. CanSee(l)
      BY <2>2, <2>3 DEF AllVisible
    <3>. HIDE DEF x
    <3>4. added' = Append(added, l)
      BY <2>1, <2>3, <3>1, <3>2, <3>3
    <3>5. Len(added) + 1 \in DOMAIN added' /\ added'[Len(added) + 1] = l
      BY <2>2, <3>4
    <3>. QED  BY <3>5
  <2>. HIDE DEF x
  <2>4. \A a \in DOMAIN added : a \in DOMAIN added' /\ added'[a] = added[a]
    <3>1. added' = added \/ added' = Append(added, x)
      BY <2>1
    <3>. QED  BY <2>2, <3>1
  <2>5. Served(k)'
    <3>1. \A l : IsTestonlyCompatible(l)' = IsTestonlyCompatible(l)
      BY <2>1 DEF IsTestonlyCompatible
    <3>. QED  BY <2>1, <2>3, <3>1 DEF Served
  <2>6. \A m \in DOMAIN minimized \ open : Served(m)'
    BY <1>a, <2>1, <2>4 DEF ClosedAreServed
  <2>. QED  BY <2>1, <2>5, <2>6 DEF ClosedAreServed
<1>6. CASE AllAdded
  <2>1. /\ pc = "adds" /\ open = {} /\ UNCHANGED <<world, deps, minimized, added, open>>
    BY <1>6 DEF AllAdded
  <2>. QED  BY <1>a, <2>1 DEF ClosedAreServed
<1>7. CASE UNCHANGED vars
  BY <1>7, <1>a DEF vars, ClosedAreServed
<1>. QED
  BY <1>1, <1>2, <1>3, <1>4, <1>5, <1>6, <1>7 DEF Next, Finished

CompletenessInv ==
  TypeInv /\ MinimizeInv /\ EditInv /\ RemovalInv /\ IncludesNeeded /\ AllVisible
    /\ ClosedAreServed

LEMMA ServedIncludes == CompletenessInv => EditsComplete
<1>. SUFFICES ASSUME CompletenessInv, pc = "done",
                     \A m \in DOMAIN minimized :
                       \E l \in minimized[m] : minimized[m] = {l} /\ IsTestonlyCompatible(l),
                     NEW libs \in Provided, \E l \in libs : CanSee(l)
              PROVE  libs \cap Libs(Edited) # {}
  BY DEF EditsComplete
<1>. USE DEF CompletenessInv
<1>1. PICK n \in DOMAIN needed : needed[n] = VisibleOf(libs)
  <2>0. PICK s \in DOMAIN world.sources :
          /\ world.sources[s].readable
          /\ \E k \in DOMAIN world.sources[s].includes :
               /\ world.sources[s].includes[k].via = "lib"
               /\ world.sources[s].includes[k].libs = libs
    BY DEF Provided, Elements
  <2>1. PICK k \in DOMAIN world.sources[s].includes :
          /\ world.sources[s].includes[k].via = "lib"
          /\ world.sources[s].includes[k].libs = libs
    BY <2>0
  <2>2. s < source
    <3>1. world.sources \in Seq(Source) /\ source \in Nat
      BY DEF TypeInv, TypeOK, World
    <3>. QED  BY <3>1 DEF RemovalInv, AllSourcesSeen
  <2>3. HasItsSet(world.sources[s].includes[k])
    BY <2>0, <2>1, <2>2 DEF IncludesNeeded, IsRead, LookedAt
  <2>4. VisibleOf(libs) # {}
    BY DEF VisibleOf
  <2>. QED  BY <2>1, <2>3, <2>4 DEF HasItsSet
<1>2. PICK m \in DOMAIN minimized : minimized[m] \subseteq needed[n]
  BY <1>1, MinimizedEnough DEF MinimizedCovers
<1>3. PICK l \in minimized[m] : minimized[m] = {l} /\ IsTestonlyCompatible(l)
  OBVIOUS
<1>4. l \in libs /\ l \in Lib
  <2>1. minimized \in Seq((SUBSET Lib) \ {{}})
    BY DEF TypeInv, TypeOK
  <2>. QED  BY <1>1, <1>2, <1>3, <2>1 DEF VisibleOf
<1>5. deps \in Seq(Dep) /\ added \in Seq(Lib)
  BY DEF TypeInv, TypeOK
<1>6. \E n2 \in DOMAIN Edited : Edited[n2].lib = l
  <2>1. \/ \E d \in DOMAIN deps : deps[d].lib = l
        \/ \E a \in DOMAIN added : added[a] = l
    BY <1>3 DEF ClosedAreServed, Served, Minimized
  <2>2. ASSUME NEW d \in DOMAIN deps, deps[d].lib = l
        PROVE  d \in DOMAIN Edited /\ Edited[d].lib = l
    <3>1. l \notin removed
      BY <1>3 DEF EditInv, RemovedNotNeeded
    <3>2. d \in 1..(Len(deps) + Len(added)) /\ ~(d > Len(deps))
      BY <1>5
    <3>. QED  BY <2>2, <3>1, <3>2 DEF Edited
  <2>3. ASSUME NEW a \in DOMAIN added, added[a] = l
        PROVE  Len(deps) + a \in DOMAIN Edited /\ Edited[Len(deps) + a].lib = l
    <3>1. /\ Len(deps) + a \in 1..(Len(deps) + Len(added)) /\ Len(deps) + a > Len(deps)
          /\ (Len(deps) + a) - Len(deps) = a
      BY <1>5
    <3>. DEFINE last == Len(deps) + a
    <3>. HIDE DEF last
    <3>2. last \in DOMAIN Edited /\ Edited[last] = [lib |-> added[last - Len(deps)], keep |-> FALSE]
      BY <3>1 DEF Edited, last
    <3>3. added[last - Len(deps)] = l
      BY <2>3, <3>1 DEF last
    <3>. QED  BY <3>2, <3>3 DEF last
  <2>. QED  BY <2>1, <2>2, <2>3
<1>7. l # Invalid
  BY <1>4, NamesAssumption
<1>. QED  BY <1>4, <1>6, <1>7 DEF Libs, Elements

\* Where each minimized set is a single library that may be added, bant dwyu leaves
\* a dependency for every include that has a visible provider.
THEOREM CompleteEdits == Spec => []EditsComplete
BY InitTypeInv, NextTypeInv, InitMinimizeInv, NextMinimizeInv, InitEditInv, NextEditInv,
   InitRemovalInv, NextRemovalInv, InitIncludesNeeded, NextIncludesNeeded, InitAllVisible,
   NextAllVisible, InitClosedAreServed, NextClosedAreServed, ServedIncludes, PTL
   DEF Spec, CompletenessInv

-----------------------------------------------------------------------------
(* The second run.  What the sources need is found in the same way in each *)
(* run, by steps that leave no choice.                                     *)

\* A state of the search, up to where the deps are looked at.
State(src, inc, known, need, phase, a, b, cur, covered, min) ==
  <<<<src, inc, known, need>>, <<phase, a, b>>, <<cur, covered, min>>>>

Now == State(source, include, all_known, needed, IF Minimized THEN "deps" ELSE pc,
             i, j, current_set, already_covered, minimized)
Start == State(1, 1, TRUE, <<>>, "sources", 1, 1, {}, {}, <<>>)

ReadOn(src, inc, known, need, phase, a, b, cur, covered, min) ==
  LET readable == world.sources[src].readable
      x        == world.sources[src].includes[inc]
      more     == IF x.via = "lib" /\ VisibleOf(x.libs) # {}
                  THEN Append(need, VisibleOf(x.libs)) ELSE need
      Read(src2, inc2, known2, need2, phase2) ==
        State(src2, inc2, known2, need2, phase2, a, b, cur, covered, min)
  IN  IF phase = "sources"
      THEN IF src > Len(world.sources) THEN Read(src, inc, known, need, "pick")
           ELSE IF readable THEN Read(src, 1, known, need, "includes")
           ELSE Read(src + 1, 1, FALSE, need, "sources")
      ELSE IF inc > Len(world.sources[src].includes)
           THEN Read(src + 1, inc, known, need, "sources")
           ELSE Read(src, inc + 1, known /\ x.via # "unknown", more, "includes")

MinimizeOn(src, inc, known, need, phase, a, b, cur, covered, min) ==
  LET Minimize(phase2, a2, b2, cur2, covered2, min2) ==
        State(src, inc, known, need, phase2, a2, b2, cur2, covered2, min2)
  IN  IF phase = "pick"
      THEN IF a > Len(need) THEN Minimize("deps", a, b, cur, covered, min)
           ELSE IF a \in covered THEN Minimize("pick", a + 1, b, cur, covered, min)
           ELSE Minimize("narrow", a, a + 1, need[a], covered \cup {a}, min)
      ELSE IF b > Len(need) THEN Minimize("pick", a + 1, b, cur, covered, Append(min, cur))
           ELSE IF NothingInCommon(cur, need[b])
           THEN Minimize("narrow", a, b + 1, cur, covered, min)
           ELSE Minimize("narrow", a, b + 1, Intersect(cur, need[b]), covered \cup {b}, min)

\* One step on; where the deps are looked at the search is over.
On(src, inc, known, need, phase, a, b, cur, covered, min) ==
  IF phase \in {"sources", "includes"}
  THEN ReadOn(src, inc, known, need, phase, a, b, cur, covered, min)
  ELSE IF phase \in {"pick", "narrow"}
  THEN MinimizeOn(src, inc, known, need, phase, a, b, cur, covered, min)
  ELSE State(src, inc, known, need, phase, a, b, cur, covered, min)

StateSet ==
  (Nat \X Nat \X BOOLEAN \X Seq((SUBSET Lib) \ {{}}))
    \X ({"sources", "includes", "pick", "narrow", "deps"} \X Nat \X Nat)
    \X ((SUBSET Lib) \X (SUBSET Nat) \X Seq((SUBSET Lib) \ {{}}))

Step(s) ==
  LET t == On(s[1][1], s[1][2], s[1][3], s[1][4], s[2][1], s[2][2], s[2][3],
              s[3][1], s[3][2], s[3][3])
  IN  IF t \in StateSet THEN t ELSE s

\* The states that the search comes by: those in every set that has the first one and
\* with each the next one.
Leads(s, t) == \A S : (s \in S /\ \A u \in S : Step(u) \in S) => t \in S

LEMMA NowIsAState == TypeOK => Now \in StateSet
<1>. SUFFICES ASSUME TypeOK PROVE Now \in StateSet
  OBVIOUS
<1>. DEFINE phase == IF Minimized THEN "deps" ELSE pc
            Phases == {"sources", "includes", "pick", "narrow", "deps"}
            Sets == Seq((SUBSET Lib) \ {{}})
<1>1. phase \in Phases
  BY DEF TypeOK, Minimized
<1>2. /\ source \in Nat /\ include \in Nat /\ all_known \in BOOLEAN /\ needed \in Sets
      /\ i \in Nat /\ j \in Nat /\ current_set \in SUBSET Lib /\ already_covered \in SUBSET Nat
      /\ minimized \in Sets
  BY DEF TypeOK
<1>. HIDE DEF phase, Phases, Sets
<1>3. /\ <<source, include, all_known, needed>> \in Nat \X Nat \X BOOLEAN \X Sets
      /\ <<phase, i, j>> \in Phases \X Nat \X Nat
      /\ <<current_set, already_covered, minimized>> \in (SUBSET Lib) \X (SUBSET Nat) \X Sets
  BY <1>1, <1>2
<1>. QED  BY <1>3 DEF Now, State, StateSet, phase, Phases, Sets

\* A search ends in one way.
LEMMA OneEnd ==
  ASSUME NEW f, Leads(Start, f), Step(f) = f,
         NEW g, Leads(Start, g), Step(g) = g, Start \in StateSet
  PROVE  f = g
<1>. DEFINE S == {u \in StateSet : Leads(u, f)}
<1>1. Start \in S
  OBVIOUS
<1>2. ASSUME NEW u \in S PROVE Step(u) \in S
  <2>1. Step(u) \in StateSet
    BY DEF Step
  <2>2. ASSUME NEW T, Step(u) \in T, \A v \in T : Step(v) \in T PROVE f \in T
    <3>1. f \in T \cup {u}
      <4>. DEFINE V == T \cup {u}
      <4>1. u \in V /\ \A v \in V : Step(v) \in V
        BY <2>2
      <4>. HIDE DEF V
      <4>2. f \in V
        BY <4>1 DEF Leads
      <4>. QED  BY <4>2 DEF V
    <3>. QED  BY <2>2, <3>1
  <2>3. Leads(Step(u), f)
    BY <2>2 DEF Leads
  <2>. QED  BY <2>1, <2>3
<1>. HIDE DEF S
<1>3. g \in S
  BY <1>1, <1>2 DEF Leads
<1>4. Leads(g, f)
  BY <1>3 DEF S
<1>. DEFINE T == {g}
<1>5. g \in T /\ \A v \in T : Step(v) \in T
  OBVIOUS
<1>. HIDE DEF T
<1>6. f \in T
  BY <1>4, <1>5 DEF Leads
<1>. QED  BY <1>6 DEF T

LEMMA LeadsOn ==
  ASSUME NEW s, NEW t, Leads(s, t)
  PROVE  Leads(s, Step(t))
BY DEF Leads

Found == Leads(Start, Now)

\* The steps on are those of the world, which stays.
LEMMA SameSteps ==
  ASSUME world' = world
  PROVE  \A u : Step(u)' = Step(u)
<1>1. \A libs : VisibleOf(libs)' = VisibleOf(libs)
  BY DEF VisibleOf, CanSee
<1>2. ASSUME NEW src, NEW inc, NEW known, NEW need, NEW phase,
             NEW a, NEW b, NEW cur, NEW covered, NEW min
      PROVE  On(src, inc, known, need, phase, a, b, cur, covered, min)'
             = On(src, inc, known, need, phase, a, b, cur, covered, min)
  <2>1. ReadOn(src, inc, known, need, phase, a, b, cur, covered, min)'
        = ReadOn(src, inc, known, need, phase, a, b, cur, covered, min)
    BY <1>1 DEF ReadOn, State
  <2>. QED  BY <2>1 DEF On, MinimizeOn, State, NothingInCommon, Intersect
<1>. QED  BY <1>2 DEF Step, StateSet

LEMMA NextFound ==
  ASSUME TypeInv, TypeInv', Found, [Next]_vars
  PROVE  Found'
<1>. USE DEF readVars, minimizeVars, editVars, Minimized
<1>0. Now' \in StateSet
  <2>1. (Now \in StateSet)'
    BY NowIsAState, PTL DEF TypeInv
  <2>. QED  BY <2>1 DEF StateSet
<1>a. ASSUME world' = world, Now' = Now \/ Now' = Step(Now) PROVE Found'
  <2>2. Leads(Start, Now')
    BY <1>a, LeadsOn DEF Found
  <2>. QED  BY <1>a, <2>2, SameSteps DEF Found, Leads, Start, State
<1>. DEFINE phase == IF Minimized THEN "deps" ELSE pc
<1>b. ASSUME world' = world,
             Now' = On(source, include, all_known, needed, phase, i, j, current_set,
                       already_covered, minimized)
      PROVE  Found'
  <2>1. Now' = Step(Now)
    BY <1>0, <1>b DEF Step, Now, State
  <2>. QED  BY <1>a, <1>b, <2>1
<1>1. CASE OpenSource
  <2>1. /\ pc = "sources" /\ ~(source > Len(world.sources))
        /\ UNCHANGED <<world, needed, i, j, current_set, already_covered, minimized>>
        /\ include' = 1
    BY <1>1 DEF OpenSource, TypeInv, TypeOK, World
  <2>2. CASE world.sources[source].readable
    <3>1. pc' = "includes" /\ UNCHANGED <<source, all_known>>
      BY <1>1, <2>2 DEF OpenSource
    <3>. QED  BY <1>b, <2>1, <2>2, <3>1 DEF On, ReadOn, Now
  <2>3. CASE ~world.sources[source].readable
    <3>1. pc' = pc /\ source' = source + 1 /\ all_known' = FALSE
      BY <1>1, <2>3 DEF OpenSource
    <3>. QED  BY <1>b, <2>1, <2>3, <3>1 DEF On, ReadOn, Now
  <2>. QED  BY <2>2, <2>3
<1>2. CASE CountInclude
  <2>. DEFINE x == world.sources[source].includes[include]
  <2>1. /\ pc = "includes" /\ pc' = "includes"
        /\ UNCHANGED <<world, source, i, j, current_set, already_covered, minimized>>
        /\ include' = include + 1
        /\ all_known' = (all_known /\ x.via # "unknown")
        /\ needed' = IF x.via = "lib" /\ VisibleOf(x.libs) # {}
                     THEN Append(needed, VisibleOf(x.libs)) ELSE needed
    BY <1>2 DEF CountInclude, Includes
  <2>2. ~(include > Len(world.sources[source].includes))
    <3>1. source \in 1..Len(world.sources) /\ world.sources \in Seq(Source)
      BY <2>1 DEF TypeInv, TypeOK, IndexesOK, World
    <3>2. world.sources[source] \in Source
      BY <3>1
    <3>3. world.sources[source].includes \in Seq(Include)
      BY <3>2 DEF Source
    <3>4. include \in Nat /\ include <= Len(world.sources[source].includes)
      BY <1>2 DEF TypeInv, TypeOK, CountInclude, Includes
    <3>. QED  BY <3>3, <3>4
  <2>. QED  BY <1>b, <2>1, <2>2 DEF On, ReadOn, Now
<1>3. CASE CloseSource
  <2>1. /\ pc = "includes" /\ pc' = "sources" /\ include > Len(world.sources[source].includes)
        /\ UNCHANGED <<world, include, all_known, needed>>
        /\ UNCHANGED <<i, j, current_set, already_covered, minimized>>
        /\ source' = source + 1
    BY <1>3 DEF CloseSource, Includes
  <2>. QED  BY <1>b, <2>1 DEF On, ReadOn, Now
<1>4. CASE AllSourcesRead
  <2>1. /\ pc = "sources" /\ pc' = "pick" /\ source > Len(world.sources)
        /\ UNCHANGED <<world, source, include, all_known, needed>>
        /\ UNCHANGED <<i, j, current_set, already_covered, minimized>>
    BY <1>4 DEF AllSourcesRead
  <2>. QED  BY <1>b, <2>1 DEF On, ReadOn, Now
<1>5. CASE PickSet
  <2>1. /\ pc = "pick" /\ ~(i > Len(needed))
        /\ UNCHANGED <<world, source, include, all_known, needed, minimized>>
    BY <1>5 DEF PickSet, TypeInv, TypeOK
  <2>2. CASE i \in already_covered
    <3>1. i' = i + 1 /\ UNCHANGED <<pc, j, current_set, already_covered>>
      BY <1>5, <2>2 DEF PickSet
    <3>. QED  BY <1>b, <2>1, <2>2, <3>1 DEF On, MinimizeOn, Now
  <2>3. CASE i \notin already_covered
    <3>1. /\ pc' = "narrow" /\ i' = i /\ j' = i + 1
          /\ current_set' = needed[i] /\ already_covered' = already_covered \cup {i}
      BY <1>5, <2>3 DEF PickSet
    <3>. QED  BY <1>b, <2>1, <2>3, <3>1 DEF On, MinimizeOn, Now
  <2>. QED  BY <2>2, <2>3
<1>6. CASE Narrow
  <2>1. /\ pc = "narrow" /\ pc' = "narrow" /\ ~(j > Len(needed)) /\ j' = j + 1
        /\ UNCHANGED <<world, source, include, all_known, needed, i, minimized>>
    BY <1>6 DEF Narrow, TypeInv, TypeOK
  <2>2. CASE NothingInCommon(current_set, needed[j])
    <3>1. UNCHANGED <<current_set, already_covered>>
      BY <1>6, <2>2 DEF Narrow
    <3>. QED  BY <1>b, <2>1, <2>2, <3>1 DEF On, MinimizeOn, Now
  <2>3. CASE ~NothingInCommon(current_set, needed[j])
    <3>1. /\ current_set' = Intersect(current_set, needed[j])
          /\ already_covered' = already_covered \cup {j}
      BY <1>6, <2>3 DEF Narrow, CoveredWith
    <3>. QED  BY <1>b, <2>1, <2>3, <3>1 DEF On, MinimizeOn, Now
  <2>. QED  BY <2>2, <2>3
<1>7. CASE PushSet
  <2>1. /\ pc = "narrow" /\ pc' = "pick" /\ j > Len(needed) /\ i' = i + 1
        /\ minimized' = Append(minimized, current_set)
        /\ UNCHANGED <<world, source, include, all_known, needed>>
        /\ UNCHANGED <<j, current_set, already_covered>>
    BY <1>7 DEF PushSet
  <2>. QED  BY <1>b, <2>1 DEF On, MinimizeOn, Now
<1>8. CASE AllSetsCovered
  <2>1. /\ pc = "pick" /\ pc' = "deps" /\ i > Len(needed)
        /\ UNCHANGED <<world, source, include, all_known, needed>>
        /\ UNCHANGED <<i, j, current_set, already_covered, minimized>>
    BY <1>8 DEF AllSetsCovered
  <2>. QED  BY <1>b, <2>1 DEF On, MinimizeOn, Now
<1>9. CASE CheckDep \/ AllDepsChecked \/ AllAdded \/ \E k \in open : AddNeeded(k)
  <2>1. /\ UNCHANGED <<world, source, include, all_known, needed>>
        /\ UNCHANGED <<i, j, current_set, already_covered, minimized>>
        /\ Minimized /\ Minimized'
    BY <1>9 DEF CheckDep, AllDepsChecked, AllAdded, AddNeeded
  <2>. QED  BY <1>a, <2>1 DEF Now, State
<1>10. CASE ApplyAndRunAgain
  <2>1. world' = world /\ Now' = Start
    BY <1>10 DEF ApplyAndRunAgain, Now, Start, State
  <2>. QED  BY <2>1, SameSteps DEF Found, Leads, Start, State
<1>11. CASE UNCHANGED vars
  BY <1>a, <1>11 DEF vars, Now, State
<1>. QED
  BY <1>1, <1>2, <1>3, <1>4, <1>5, <1>6, <1>7, <1>8, <1>9, <1>10, <1>11 DEF Next, Finished

(* What the edits make of deps leaves nothing to edit.                     *)

Addable(alternatives) ==
  LET l == CHOOSE x \in alternatives : TRUE
  IN ~Ambiguous(alternatives) /\ CanSee(l) /\ IsTestonlyCompatible(l)

Removable(d, known) ==
  known /\ ~IsAlwayslink(d.lib) /\ (world.ignore_keep \/ ~d.keep)

\* No entry that may be removed, and none missing that may be added.
Quiet(known, min) ==
  /\ \A n \in DOMAIN deps :
       (deps[n].lib # Invalid /\ \A m \in DOMAIN min : deps[n].lib \notin min[m])
         => ~Removable(deps[n], known)
  /\ \A m \in DOMAIN min :
       (\E n \in DOMAIN deps : deps[n].lib \in min[m]) \/ ~Addable(min[m])

\* What may be removed of the entries looked at is.
RemovalsDone ==
  /\ pc \in {"adds", "done"} => dep > Len(deps)
  /\ Minimized => \A l \in checked_off : \E m \in DOMAIN minimized : l \in minimized[m]
  /\ Minimized =>
       \A n \in DOMAIN deps :
         (n < dep /\ deps[n].lib # Invalid
            /\ (\A m \in DOMAIN minimized : deps[n].lib \notin minimized[m])
            /\ Removable(deps[n], all_known)) => deps[n].lib \in removed

\* What is missing of the sets dealt with is added if it may be.
AddsDone ==
  /\ Minimized =>
       \A m \in DOMAIN minimized \ open :
         \/ \E n \in DOMAIN deps : deps[n].lib \in minimized[m]
         \/ Addable(minimized[m]) =>
              \E a \in DOMAIN added : added[a] = CHOOSE x \in minimized[m] : TRUE
  /\ pc = "done" => open = {}

\* From the second run on there is nothing to edit, whatever way the search ends.
QuietAgain ==
  run > 1 =>
    /\ removed = {} /\ added = <<>>
    /\ \A s : (Leads(Start, s) /\ Step(s) = s /\ s[2][1] = "deps") => Quiet(s[1][3], s[3][3])

LEMMA InitDone == Init => Found /\ RemovalsDone /\ AddsDone /\ QuietAgain
<1>. SUFFICES ASSUME Init PROVE Found /\ RemovalsDone /\ AddsDone /\ QuietAgain
  OBVIOUS
<1>1. pc = "sources" /\ run = 1 /\ Now = Start
  BY DEF Init, Now, Start, State, Minimized
<1>2. Found
  BY <1>1 DEF Found, Leads
<1>. QED  BY <1>1, <1>2 DEF RemovalsDone, AddsDone, QuietAgain, Minimized

LEMMA NextRemovalsDone ==
  ASSUME TypeInv, MinimizeInv, EditInv, RemovalsDone, [Next]_vars
  PROVE  RemovalsDone'
<1>. USE DEF readVars, minimizeVars, editVars, Minimized
<1>a. ASSUME world' = world
      PROVE  \A d, known : Removable(d, known)' = Removable(d, known)
  BY <1>a DEF Removable, IsAlwayslink
<1>b. ASSUME UNCHANGED <<world, deps, minimized, all_known, removed, dep, checked_off>>,
             Minimized, pc' \in {"adds", "done"} => pc \in {"adds", "done"} \/ dep > Len(deps)
      PROVE  RemovalsDone'
  <2>1. (pc \in {"adds", "done"} => dep > Len(deps))'
    BY <1>b DEF RemovalsDone
  <2>2. \A l \in checked_off : \E m \in DOMAIN minimized : l \in minimized[m]
    BY <1>b DEF RemovalsDone
  <2>3. \A n \in DOMAIN deps :
          (n < dep /\ deps[n].lib # Invalid
             /\ (\A m \in DOMAIN minimized : deps[n].lib \notin minimized[m])
             /\ Removable(deps[n], all_known)) => deps[n].lib \in removed
    BY <1>b DEF RemovalsDone
  <2>4. \A d : Removable(d, all_known)' = Removable(d, all_known)
    BY <1>a, <1>b DEF Removable
  <2>. QED  BY <1>b, <2>1, <2>2, <2>3, <2>4 DEF RemovalsDone
<1>1. CASE \/ OpenSource \/ CountInclude \/ CloseSource \/ AllSourcesRead
           \/ PickSet \/ Narrow \/ PushSet \/ ApplyAndRunAgain
  <2>1. ~Minimized'
    BY <1>1 DEF OpenSource, CountInclude, CloseSource, AllSourcesRead, PickSet, Narrow,
                PushSet, ApplyAndRunAgain
  <2>. QED  BY <2>1 DEF RemovalsDone
<1>2. CASE AllSetsCovered
  <2>1. /\ pc' = "deps" /\ dep' = 1 /\ checked_off' = {} /\ deps' = deps
    BY <1>2 DEF AllSetsCovered, EditInv, NoEditsYet
  <2>2. \A n \in DOMAIN deps : ~(n < 1)
    BY DEF TypeInv, TypeOK
  <2>. QED  BY <2>1, <2>2 DEF RemovalsDone
<1>3. CASE CheckDep
  <2>. DEFINE d == deps[dep]
              k == SetWith(d.lib)
  <2>1. /\ pc = "deps" /\ pc' = "deps" /\ dep' = dep + 1 /\ dep \in Nat
        /\ UNCHANGED <<world, deps, minimized, all_known>>
    BY <1>3 DEF CheckDep, TypeInv, TypeOK
  <2>2. \/ k # 0 /\ k \in open
        \/ k = 0 /\ \A m \in open : d.lib \notin minimized[m]
    <3>1. \A m \in open : m # 0
      BY DEF TypeInv, TypeOK, IndexesOK
    <3>. QED  BY <3>1, SetWithFinds DEF MinimizeInv
  <2>. HIDE DEF k
  <2>3. /\ removed \subseteq removed'
        /\ checked_off' = checked_off \/ (k \in open /\ checked_off' = checked_off \cup minimized[k])
    BY <1>3, <2>2 DEF CheckDep, k
  <2>4. \A l \in checked_off' : \E m \in DOMAIN minimized : l \in minimized[m]
    <3>1. open \subseteq DOMAIN minimized
      BY DEF TypeInv, IndexesOK
    <3>. QED  BY <2>1, <2>3, <3>1 DEF RemovalsDone
  <2>5. ASSUME d.lib # Invalid, \A m \in DOMAIN minimized : d.lib \notin minimized[m],
               Removable(d, all_known)
        PROVE  d.lib \in removed'
    <3>1. k = 0
      <4>1. open \subseteq DOMAIN minimized
        BY DEF TypeInv, IndexesOK
      <4>2. k # 0 => d.lib \in minimized[k]
        BY SetWithFinds DEF MinimizeInv, k
      <4>. QED  BY <2>2, <2>5, <4>1, <4>2
    <3>2. ~WasCheckedOff(d.lib)
      BY <2>1, <2>5 DEF RemovalsDone, WasCheckedOff
    <3>3. MayRemove(d)
      BY <2>5 DEF MayRemove, Removable
    <3>. HIDE DEF d
    <3>. QED  BY <1>3, <2>5, <3>1, <3>2, <3>3 DEF CheckDep, k, d
  <2>6. ASSUME NEW n \in DOMAIN deps, n < dep', deps[n].lib # Invalid,
               \A m \in DOMAIN minimized : deps[n].lib \notin minimized[m],
               Removable(deps[n], all_known)
        PROVE  deps[n].lib \in removed'
    <3>1. n \in Nat
      BY DEF TypeInv, TypeOK
    <3>2. CASE n = dep
      BY <2>5, <2>6, <3>2
    <3>3. CASE n < dep
      BY <2>1, <2>3, <2>6, <3>3 DEF RemovalsDone
    <3>. QED  BY <2>1, <2>6, <3>1, <3>2, <3>3
  <2>7. \A e : Removable(e, all_known)' = Removable(e, all_known)
    BY <1>a, <2>1 DEF Removable
  <2>. HIDE DEF d
  <2>. QED  BY <2>1, <2>4, <2>6, <2>7 DEF RemovalsDone
<1>4. CASE AllDepsChecked
  BY <1>4, <1>b DEF AllDepsChecked
<1>5. ASSUME NEW k \in open, AddNeeded(k) PROVE RemovalsDone'
  BY <1>5, <1>b DEF AddNeeded
<1>6. CASE AllAdded
  BY <1>6, <1>b DEF AllAdded
<1>7. CASE UNCHANGED vars
  BY <1>7, <1>a DEF vars, RemovalsDone, Removable
<1>. QED
  BY <1>1, <1>2, <1>3, <1>4, <1>5, <1>6, <1>7 DEF Next, Finished

LEMMA NextAddsDone ==
  ASSUME TypeInv, MinimizeInv, EditInv, AddsDone, [Next]_vars
  PROVE  AddsDone'
<1>. USE DEF readVars, minimizeVars, editVars, Minimized
<1>. DEFINE It(m) == CHOOSE x \in minimized[m] : TRUE
            InDeps(m) == \E n \in DOMAIN deps : deps[n].lib \in minimized[m]
            Done(m) == InDeps(m) \/ (Addable(minimized[m]) => \E a \in DOMAIN added : added[a] = It(m))
<1>a. ASSUME UNCHANGED <<world, deps, minimized>>,
             \A a \in DOMAIN added : a \in DOMAIN added' /\ added'[a] = added[a],
             NEW m, Done(m)
      PROVE  Done(m)'
  <2>1. Addable(minimized[m])' = Addable(minimized[m])
    BY <1>a DEF Addable, Ambiguous, CanSee, IsTestonlyCompatible
  <2>2. It(m)' = It(m) /\ InDeps(m)' = InDeps(m)
    BY <1>a
  <2>. HIDE DEF It, InDeps
  <2>3. CASE InDeps(m)
    BY <2>2, <2>3
  <2>4. CASE Addable(minimized[m]) => \E a \in DOMAIN added : added[a] = It(m)
    BY <1>a, <2>1, <2>2, <2>4
  <2>. QED  BY <1>a, <2>3, <2>4
<1>b. AddsDone <=> /\ Minimized => \A m \in DOMAIN minimized \ open : Done(m)
                   /\ pc = "done" => open = {}
  BY DEF AddsDone
<1>c. AddsDone' <=> /\ Minimized' => \A m \in (DOMAIN minimized \ open)' : Done(m)'
                    /\ pc' = "done" => open' = {}
  BY DEF AddsDone
<1>1. CASE \/ OpenSource \/ CountInclude \/ CloseSource \/ AllSourcesRead
           \/ PickSet \/ Narrow \/ PushSet \/ ApplyAndRunAgain
  <2>1. ~Minimized'
    BY <1>1 DEF OpenSource, CountInclude, CloseSource, AllSourcesRead, PickSet, Narrow,
                PushSet, ApplyAndRunAgain
  <2>. QED  BY <2>1 DEF AddsDone
<1>2. CASE AllSetsCovered
  <2>1. pc' = "deps" /\ open' = DOMAIN minimized /\ minimized' = minimized
    BY <1>2 DEF AllSetsCovered
  <2>. QED  BY <2>1 DEF AddsDone
<1>. HIDE DEF Done
<1>d. ASSUME UNCHANGED <<world, deps, minimized, added, open>>, Minimized, pc' = "done" => open = {}
      PROVE  AddsDone'
  <2>1. \A m \in DOMAIN minimized \ open : Done(m)'
    BY <1>a, <1>b, <1>d
  <2>. QED  BY <1>c, <1>d, <2>1
<1>3. CASE CheckDep
  <2>. DEFINE k == SetWith(deps[dep].lib)
  <2>1. /\ pc = "deps" /\ pc' = "deps" /\ dep \in DOMAIN deps
        /\ UNCHANGED <<world, deps, minimized, added>>
        /\ open' = open \/ (k # 0 /\ open' = open \ {k})
    BY <1>3 DEF CheckDep, Erase, TypeInv, TypeOK, IndexesOK
  <2>2. k # 0 => deps[dep].lib \in minimized[k]
    BY SetWithFinds DEF MinimizeInv
  <2>. HIDE DEF k
  <2>3. \A m \in DOMAIN minimized \ open : Done(m)'
    BY <1>a, <1>b, <2>1
  <2>4. ASSUME NEW m \in open \ open' PROVE Done(m)'
    <3>1. m = k /\ k # 0
      BY <2>1, <2>4
    <3>2. deps[dep].lib \in minimized[m]
      BY <2>2, <3>1
    <3>. QED  BY <2>1, <3>2 DEF Done
  <2>. QED  BY <1>c, <2>1, <2>3, <2>4
<1>4. CASE AllDepsChecked
  BY <1>4, <1>d DEF AllDepsChecked
<1>5. ASSUME NEW k \in open, AddNeeded(k) PROVE AddsDone'
  <2>1. /\ pc = "adds" /\ pc' = "adds" /\ open' = open \ {k}
        /\ UNCHANGED <<world, deps, minimized>>
        /\ added' = IF Addable(minimized[k]) THEN Append(added, It(k)) ELSE added
    BY <1>5 DEF AddNeeded, Addable
  <2>2. added \in Seq(Lib)
    BY DEF TypeInv, TypeOK
  <2>. HIDE DEF It
  <2>3. \A a \in DOMAIN added : a \in DOMAIN added' /\ added'[a] = added[a]
    BY <2>1, <2>2
  <2>4. Addable(minimized[k]) => \E a \in DOMAIN added' : added'[a] = It(k)
    <3>1. ASSUME Addable(minimized[k])
          PROVE  Len(added) + 1 \in DOMAIN added' /\ added'[Len(added) + 1] = It(k)
      BY <2>1, <2>2, <3>1
    <3>. QED  BY <3>1
  <2>5. Addable(minimized[k])' = Addable(minimized[k])
    BY <2>1 DEF Addable, Ambiguous, CanSee, IsTestonlyCompatible
  <2>6. It(k)' = It(k)
    BY <2>1 DEF It
  <2>7. Done(k)'
    BY <2>4, <2>5, <2>6 DEF Done
  <2>8. \A m \in DOMAIN minimized \ open : Done(m)'
    BY <1>a, <1>b, <2>1, <2>3
  <2>. QED  BY <1>c, <2>1, <2>7, <2>8
<1>6. CASE AllAdded
  BY <1>6, <1>d DEF AllAdded
<1>7. CASE UNCHANGED vars
  <2>1. CASE Minimized
    BY <1>7, <1>d, <2>1, <1>b DEF vars
  <2>2. CASE ~Minimized
    BY <1>7, <1>c, <2>2 DEF vars
  <2>. QED  BY <2>1, <2>2
<1>. QED
  BY <1>1, <1>2, <1>3, <1>4, <1>5, <1>6, <1>7 DEF Next, Finished

\* Where the deps are looked at the search is over.
LEMMA SearchIsOver ==
  ASSUME Found, Minimized
  PROVE  /\ Leads(Start, Now) /\ Step(Now) = Now /\ Now[2][1] = "deps"
         /\ Now[1][3] = all_known /\ Now[3][3] = minimized
<1>1. Now = State(source, include, all_known, needed, "deps", i, j, current_set,
                  already_covered, minimized)
  BY DEF Now
<1>2. On(source, include, all_known, needed, "deps", i, j, current_set, already_covered,
         minimized) = Now
  BY <1>1 DEF On
<1>3. Step(Now) = Now
  BY <1>1, <1>2 DEF Step, State
<1>. QED  BY <1>1, <1>3 DEF Found, State

LEMMA QuietNow == ASSUME Found, Minimized, QuietAgain, run > 1 PROVE Quiet(all_known, minimized)
<1>. DEFINE s == Now
<1>1. /\ Leads(Start, s) /\ Step(s) = s /\ s[2][1] = "deps"
      /\ s[1][3] = all_known /\ s[3][3] = minimized
  BY SearchIsOver
<1>. HIDE DEF s
<1>. QED  BY <1>1 DEF QuietAgain

\* The edits leave nothing to edit.
LEMMA EditedIsQuiet ==
  ASSUME TypeInv, EditInv, RemovalsDone, AddsDone, pc = "done", world' = world, deps' = Edited,
         NEW known, known = all_known, NEW min, min = minimized
  PROVE  Quiet(known, min)'
<1>0. /\ deps \in Seq(Dep) /\ added \in Seq(Lib) /\ min \in Seq((SUBSET Lib) \ {{}})
      /\ removed \subseteq Lib /\ Invalid \notin Lib
  BY NamesAssumption DEF TypeInv, TypeOK
<1>1. /\ DOMAIN Edited = 1..(Len(deps) + Len(added))
      /\ \A n \in 1..Len(deps) : /\ n \in DOMAIN Edited
                                 /\ deps[n].lib \in removed => Edited[n].lib = Invalid
                                 /\ deps[n].lib \notin removed => Edited[n] = deps[n]
      /\ \A a \in 1..Len(added) : /\ Len(deps) + a \in DOMAIN Edited
                                  /\ Edited[Len(deps) + a].lib = added[a]
  BY <1>0 DEF Edited
<1>2. \A n \in DOMAIN Edited :
        n \in 1..Len(deps) \/ \E a \in 1..Len(added) : n = Len(deps) + a
  <2>1. ASSUME NEW n \in DOMAIN Edited, n \notin 1..Len(deps)
        PROVE  n - Len(deps) \in 1..Len(added) /\ n = Len(deps) + (n - Len(deps))
    BY <1>0, <1>1, <2>1
  <2>. QED  BY <2>1
<1>3. \A d : Removable(d, known)' <=> Removable(d, known)
  BY DEF Removable, IsAlwayslink
<1>4. \A m : Addable(min[m])' <=> Addable(min[m])
  BY DEF Addable, Ambiguous, CanSee, IsTestonlyCompatible
<1>5. \A n \in 1..Len(deps) :
        (deps[n].lib # Invalid /\ (\A m \in DOMAIN min : deps[n].lib \notin min[m])
          /\ Removable(deps[n], known)) => deps[n].lib \in removed
  <2>1. dep > Len(deps) /\ dep \in Nat
    BY DEF RemovalsDone, TypeInv, TypeOK
  <2>2. \A n \in 1..Len(deps) : n \in DOMAIN deps /\ n < dep
    BY <1>0, <2>1
  <2>. QED  BY <2>2 DEF RemovalsDone, Minimized
<1>6. \A a \in 1..Len(added) : \E m \in DOMAIN min : added[a] \in min[m]
  BY <1>0 DEF EditInv, AddedNeeded
<1>7. \A m \in DOMAIN min :
        \/ \E n \in 1..Len(deps) : deps[n].lib \in min[m]
        \/ Addable(min[m]) => \E a \in 1..Len(added) : added[a] \in min[m]
  <2>1. open = {}
    BY DEF AddsDone
  <2>2. \A m \in DOMAIN min : (CHOOSE x \in min[m] : TRUE) \in min[m]
    BY <1>0
  <2>3. DOMAIN deps = 1..Len(deps) /\ DOMAIN added = 1..Len(added)
    BY <1>0
  <2>. QED  BY <2>1, <2>2, <2>3 DEF AddsDone, Minimized
<1>8. \A n \in 1..Len(deps), m \in DOMAIN min : deps[n].lib \in min[m] => deps[n].lib \notin removed
  BY DEF EditInv, RemovedNotNeeded
<1>. HIDE DEF Edited
<1>9. ASSUME NEW n \in DOMAIN Edited, Edited[n].lib # Invalid,
             \A m \in DOMAIN min : Edited[n].lib \notin min[m]
      PROVE  ~Removable(Edited[n], known)
  <2>1. CASE n \in 1..Len(deps)
    BY <1>1, <1>5, <1>9, <2>1
  <2>2. ASSUME NEW a \in 1..Len(added), n = Len(deps) + a PROVE FALSE
    BY <1>1, <1>6, <1>9, <2>2
  <2>. QED  BY <1>2, <2>1, <2>2
<1>10. ASSUME NEW m \in DOMAIN min, Addable(min[m])
       PROVE  \E n \in DOMAIN Edited : Edited[n].lib \in min[m]
  <2>1. CASE \E n \in 1..Len(deps) : deps[n].lib \in min[m]
    BY <1>1, <1>8, <2>1
  <2>2. CASE \E a \in 1..Len(added) : added[a] \in min[m]
    BY <1>1, <2>2
  <2>. QED  BY <1>7, <1>10, <2>1, <2>2
<1>. QED  BY <1>3, <1>4, <1>9, <1>10 DEF Quiet

LEMMA NextQuietAgain ==
  ASSUME TypeInv, MinimizeInv, EditInv, Found, RemovalsDone, AddsDone, QuietAgain, [Next]_vars
  PROVE  QuietAgain'
<1>. USE DEF readVars, minimizeVars, editVars, Minimized
<1>a. ASSUME world' = world, deps' = deps, NEW known, NEW min, Quiet(known, min)
      PROVE  Quiet(known, min)'
  <2>1. \A d : Removable(d, known)' <=> Removable(d, known)
    BY <1>a DEF Removable, IsAlwayslink
  <2>2. \A m : Addable(min[m])' <=> Addable(min[m])
    BY <1>a DEF Addable, Ambiguous, CanSee, IsTestonlyCompatible
  <2>. QED  BY <1>a, <2>1, <2>2 DEF Quiet
<1>b. ASSUME world' = world
      PROVE  \A s : (Leads(Start, s) /\ Step(s) = s)' <=> (Leads(Start, s) /\ Step(s) = s)
  BY <1>b, SameSteps DEF Leads, Start, State
<1>c. ASSUME UNCHANGED <<world, run, deps>>, run > 1 => removed' = {} /\ added' = <<>>
      PROVE  QuietAgain'
  <2>1. ASSUME run > 1, NEW s, Leads(Start, s), Step(s) = s, s[2][1] = "deps"
        PROVE  Quiet(s[1][3], s[3][3])'
    <3>1. Quiet(s[1][3], s[3][3])
      BY <2>1 DEF QuietAgain
    <3>. QED  BY <1>a, <1>c, <3>1
  <2>. QED  BY <1>b, <1>c, <2>1 DEF QuietAgain
<1>1. CASE \/ OpenSource \/ CountInclude \/ CloseSource \/ AllSourcesRead
           \/ PickSet \/ Narrow \/ PushSet \/ AllSetsCovered \/ AllDepsChecked \/ AllAdded
  <2>1. UNCHANGED <<world, run, deps, removed, added>>
    BY <1>1 DEF OpenSource, CountInclude, CloseSource, AllSourcesRead, PickSet, Narrow,
                PushSet, AllSetsCovered, AllDepsChecked, AllAdded
  <2>. QED  BY <1>c, <2>1 DEF QuietAgain
<1>2. CASE CheckDep
  <2>. DEFINE d == deps[dep]
              k == SetWith(d.lib)
  <2>1. /\ pc = "deps" /\ dep \in DOMAIN deps
        /\ UNCHANGED <<world, run, deps, added>>
    BY <1>2 DEF CheckDep, TypeInv, TypeOK, IndexesOK
  <2>2. k = 0 => \A m \in open : d.lib \notin minimized[m]
    <3>1. \A m \in open : m # 0
      BY DEF TypeInv, TypeOK, IndexesOK
    <3>. QED  BY <3>1, SetWithFinds DEF MinimizeInv
  <2>. HIDE DEF k
  <2>3. ASSUME run > 1, removed' # removed PROVE FALSE
    <3>1. d.lib # Invalid /\ k = 0 /\ ~WasCheckedOff(d.lib) /\ MayRemove(d)
      BY <1>2, <2>3 DEF CheckDep, k
    <3>2. \A m \in DOMAIN minimized : d.lib \notin minimized[m]
      BY <2>1, <2>2, <3>1 DEF EditInv, ClosedAreCheckedOff, WasCheckedOff
    <3>3. Removable(d, all_known)
      BY <3>1 DEF Removable, MayRemove
    <3>4. Quiet(all_known, minimized)
      BY <2>1, <2>3, QuietNow
    <3>. QED  BY <2>1, <3>1, <3>2, <3>3, <3>4 DEF Quiet
  <2>. QED  BY <1>c, <2>1, <2>3 DEF QuietAgain
<1>3. ASSUME NEW k \in open, AddNeeded(k) PROVE QuietAgain'
  <2>1. /\ pc = "adds" /\ UNCHANGED <<world, run, deps, removed>>
        /\ added' # added => Addable(minimized[k])
    BY <1>3 DEF AddNeeded, Addable
  <2>2. ASSUME run > 1, Addable(minimized[k]) PROVE FALSE
    <3>1. k \in DOMAIN minimized /\ \A n \in DOMAIN deps : deps[n].lib \notin minimized[k]
      BY <2>1 DEF TypeInv, IndexesOK, EditInv, OpenNotInDeps
    <3>2. Quiet(all_known, minimized)
      BY <2>1, <2>2, QuietNow
    <3>. QED  BY <2>2, <3>1, <3>2 DEF Quiet
  <2>. QED  BY <1>c, <2>1, <2>2 DEF QuietAgain
<1>4. CASE ApplyAndRunAgain
  <2>1. pc = "done" /\ world' = world /\ deps' = Edited /\ removed' = {} /\ added' = <<>>
    BY <1>4 DEF ApplyAndRunAgain
  <2>2. ASSUME NEW s, Leads(Start, s), Step(s) = s, s[2][1] = "deps"
        PROVE  Quiet(s[1][3], s[3][3])'
    <3>1. Start \in StateSet
      <4>. DEFINE Sets == Seq((SUBSET Lib) \ {{}})
      <4>1. <<>> \in Sets
        OBVIOUS
      <4>. HIDE DEF Sets
      <4>2. /\ <<1, 1, TRUE, <<>>>> \in Nat \X Nat \X BOOLEAN \X Sets
            /\ <<{}, {}, <<>>>> \in (SUBSET Lib) \X (SUBSET Nat) \X Sets
        BY <4>1
      <4>. QED  BY <4>2 DEF StateSet, Start, State, Sets
    <3>. DEFINE known == s[1][3]
                min == s[3][3]
    <3>2. known = all_known /\ min = minimized
      <4>1. s = Now
        BY <2>1, <2>2, <3>1, OneEnd, SearchIsOver
      <4>. QED  BY <2>1, <4>1, SearchIsOver
    <3>. HIDE DEF known, min
    <3>3. Quiet(known, min)'
      BY <2>1, <3>2, EditedIsQuiet
    <3>. QED  BY <3>3 DEF known, min
  <2>. QED  BY <1>b, <2>1, <2>2 DEF QuietAgain
<1>5. CASE UNCHANGED vars
  <2>1. UNCHANGED <<world, run, deps, removed, added>>
    BY <1>5 DEF vars
  <2>. QED  BY <1>c, <2>1 DEF QuietAgain
<1>. QED
  BY <1>1, <1>2, <1>3, <1>4, <1>5 DEF Next, Finished

\* bant dwyu has nothing to say once its edits are applied, in every further run.
THEOREM QuietSecondRun == Spec => []SecondRunIsQuiet
<1>1. QuietAgain => SecondRunIsQuiet
  BY DEF QuietAgain, SecondRunIsQuiet
<1>. DEFINE IInv == TypeInv /\ MinimizeInv /\ EditInv /\ Found /\ RemovalsDone /\ AddsDone
                    /\ QuietAgain
<1>2. Init => IInv
  BY InitTypeInv, InitMinimizeInv, InitEditInv, InitDone
<1>3. IInv /\ [Next]_vars => IInv'
  BY NextTypeInv, NextMinimizeInv, NextEditInv, NextFound, NextRemovalsDone, NextAddsDone,
     NextQuietAgain
<1>. QED  BY <1>1, <1>2, <1>3, PTL DEF Spec

-----------------------------------------------------------------------------
(* What the comparison relies on: the index of headers, for any project.   *)

CONSTANT ProjectFiles
VARIABLES files, visit_pc, visited, aliased_by, provided, generated, complaints   \* of HeaderProviders
Providing == INSTANCE HeaderProviders WITH pc <- visit_pc, reported <- complaints

VisitTyped ==
  /\ files \in ProjectFiles
  /\ visit_pc \in {"aliases", "headers", "genrules", "done"}
  /\ visited \in Nat /\ (visit_pc \in {"headers", "genrules"} => visited < Len(files))
  /\ visit_pc = "aliases" => visited = 0 /\ provided = {}
  /\ visit_pc \in {"aliases", "headers"} => generated = {} /\ complaints = {}
\* All aliases are known before a header is.
AliasesAre ==
  visit_pc # "aliases" =>
    /\ \A a \in Providing!Of({"alias"}) : <<a.rule.actual, Providing!TheTarget(a)>> \in aliased_by
    /\ \A e \in aliased_by : Providing!IsAlias(e[2])
AliasesProvide ==
  \A p \in provided : \A e \in aliased_by :
    p[2] = e[1] /\ ~Providing!IsAlias(p[2]) => <<p[1], e[2]>> \in provided
ProvidersInv == VisitTyped /\ AliasesAre /\ AliasesProvide

\* What the rules are and what an alias is depends on the files alone.
LEMMA RulesStay ==
  ASSUME UNCHANGED files
  PROVE  /\ \A kinds : Providing!Of(kinds)' = Providing!Of(kinds)
         /\ \A t : Providing!IsAlias(t)' <=> Providing!IsAlias(t)
BY DEF Providing!Of, Providing!Rules, Providing!IsAlias

\* The files are numbered.
LEMMA FilesAre ==
  ASSUME Providing!ProjectsAssumption, files \in ProjectFiles
  PROVE  /\ Len(files) \in Nat /\ DOMAIN files = 1..Len(files)
         /\ \A n \in DOMAIN files :
              /\ DOMAIN files[n].rules \subseteq Nat
              /\ \A r \in DOMAIN files[n].rules : DOMAIN files[n].rules[r].outs \subseteq Nat
         /\ \A m, n \in DOMAIN files :
              m < n /\ files[n].package.project = "" => files[m].package.project = ""
<1>1. \A s : Providing!IsSequence(s) => Len(s) \in Nat /\ DOMAIN s = 1..Len(s) /\ DOMAIN s \subseteq Nat
  BY DEF Providing!IsSequence
<1>2. Providing!IsSequence(files)
  BY DEF Providing!ProjectsAssumption
<1>3. ASSUME NEW n \in DOMAIN files
      PROVE  /\ DOMAIN files[n].rules \subseteq Nat
             /\ \A r \in DOMAIN files[n].rules : DOMAIN files[n].rules[r].outs \subseteq Nat
  <2>1. Providing!IsSequence(files[n].rules)
        /\ \A r \in Providing!Range(files[n].rules) : Providing!IsSequence(r.outs)
    BY <1>3 DEF Providing!ProjectsAssumption
  <2>2. \A r \in DOMAIN files[n].rules : files[n].rules[r] \in Providing!Range(files[n].rules)
    BY DEF Providing!Range
  <2> QED BY <1>1, <2>1, <2>2
<1>4. \A m, n \in DOMAIN files : m < n /\ files[n].package.project = "" => files[m].package.project = ""
  BY DEF Providing!ProjectsAssumption
<1> QED BY <1>1, <1>2, <1>3, <1>4

LEMMA ExtractAliasedByStep ==
  ASSUME Providing!ProjectsAssumption, ProvidersInv, Providing!ExtractAliasedBy PROVE ProvidersInv'
<1>1. /\ visit_pc = "aliases" /\ visit_pc' = (IF files = <<>> THEN "done" ELSE "headers")
      /\ UNCHANGED <<files, visited, provided, generated, complaints>>
      /\ aliased_by' = UNION {{<<r.actual, Providing!QualifiedTarget(f.package, r)>> :
                                r \in Providing!RulesOf(f, {"alias"})} : f \in Providing!Range(files)}
  BY DEF Providing!ExtractAliasedBy
<1>2. files \in ProjectFiles /\ visited = 0 /\ provided = {} /\ generated = {} /\ complaints = {}
  BY <1>1 DEF ProvidersInv, VisitTyped
<1>3. files # <<>> => 0 < Len(files)
  <2>1. files \in Seq(Providing!Range(files))
    BY <1>2 DEF Providing!ProjectsAssumption, Providing!IsSequence
  <2> DEFINE S == Providing!Range(files)
  <2> HIDE DEF S
  <2>2. files \in Seq(S)
    BY <2>1 DEF S
  <2> QED BY <2>2
<1>4. VisitTyped'
  BY <1>1, <1>2, <1>3 DEF VisitTyped
<1>5. AliasesProvide'
  BY <1>1, <1>2 DEF AliasesProvide
<1>6. \A a : a \in Providing!Of({"alias"})' <=>
         \E f \in Providing!Range(files) : \E r \in Providing!RulesOf(f, {"alias"}) : a = [package |-> f.package, rule |-> r]
  <2>1. \A a : a \in Providing!Of({"alias"}) <=>
         \E f \in Providing!Range(files) : \E r \in Providing!RulesOf(f, {"alias"}) : a = [package |-> f.package, rule |-> r]
    BY DEF Providing!Of, Providing!Rules, Providing!RulesOf
  <2> QED BY <1>1, <2>1, RulesStay
<1>7. ASSUME NEW a \in Providing!Of({"alias"})' PROVE <<a.rule.actual, Providing!TheTarget(a)>> \in aliased_by'
  <2>1. PICK f \in Providing!Range(files) : \E r \in Providing!RulesOf(f, {"alias"}) : a = [package |-> f.package, rule |-> r]
    BY <1>6
  <2> QED BY <1>1, <2>1 DEF Providing!TheTarget
<1>8. ASSUME NEW e \in aliased_by' PROVE Providing!IsAlias(e[2])'
  <2>1. PICK f \in Providing!Range(files) : \E r \in Providing!RulesOf(f, {"alias"}) :
          e = <<r.actual, Providing!QualifiedTarget(f.package, r)>>
    BY <1>1
  <2>2. PICK r \in Providing!RulesOf(f, {"alias"}) : e = <<r.actual, Providing!QualifiedTarget(f.package, r)>>
    BY <2>1
  <2>3. [package |-> f.package, rule |-> r] \in Providing!Of({"alias"})'
    BY <1>6
  <2>4. \E a \in Providing!Of({"alias"})' : Providing!TheTarget(a) = e[2]
    BY <2>2, <2>3 DEF Providing!TheTarget
  <2> QED BY <2>4 DEF Providing!IsAlias
<1>9. AliasesAre'
  BY <1>7, <1>8 DEF AliasesAre, Providing!TheTarget, Providing!QualifiedTarget
<1> QED BY <1>4, <1>5, <1>9 DEF ProvidersInv

LEMMA HeadersStep ==
  ASSUME Providing!ProjectsAssumption, ProvidersInv, Providing!ExtractHeaderToLibMapping PROVE ProvidersInv'
<1> DEFINE file == files[visited + 1]
<1>1. /\ visit_pc = "headers" /\ UNCHANGED <<files, aliased_by, generated, complaints>>
      /\ provided' = provided \cup Providing!CCLibraryHeaders(file) \cup Providing!ProtoLibraryHeaders(file)
      /\ \/ visited + 1 = Len(files) /\ visited' = 0 /\ visit_pc' = "genrules"
         \/ visited + 1 # Len(files) /\ visited' = visited + 1 /\ visit_pc' = "headers"
  BY DEF Providing!ExtractHeaderToLibMapping, Providing!Following
<1>2. VisitTyped'
  <2>1. files \in ProjectFiles /\ visited \in Nat /\ visited < Len(files) /\ generated = {} /\ complaints = {}
    BY <1>1 DEF ProvidersInv, VisitTyped
  <2>2. Len(files) \in Nat
    BY <2>1, FilesAre
  <2> QED BY <1>1, <2>1, <2>2 DEF VisitTyped
<1>3. AliasesAre'
  BY <1>1, RulesStay DEF ProvidersInv, AliasesAre
\* What a library provides its aliases provide at once.
<1>4. \A p \in Providing!CCLibraryHeaders(file) \cup Providing!ProtoLibraryHeaders(file) :
        \E keys, t : p \in Providing!ProvidedBy(keys, t) /\ Providing!ProvidedBy(keys, t) \subseteq provided'
  <2>1. \A p \in Providing!CCLibraryHeaders(file) :
          \E keys, t : p \in Providing!ProvidedBy(keys, t) /\ Providing!ProvidedBy(keys, t) \subseteq Providing!CCLibraryHeaders(file)
    BY DEF Providing!CCLibraryHeaders
  <2>2. \A p \in Providing!ProtoLibraryHeaders(file) :
          \E keys, t : p \in Providing!ProvidedBy(keys, t) /\ Providing!ProvidedBy(keys, t) \subseteq Providing!ProtoLibraryHeaders(file)
    BY DEF Providing!ProtoLibraryHeaders
  <2> QED BY <1>1, <2>1, <2>2
<1>5. ASSUME NEW p \in provided', NEW e \in aliased_by, p[2] = e[1], ~Providing!IsAlias(p[2])
      PROVE  <<p[1], e[2]>> \in provided'
  <2>1. CASE p \in provided
    BY <1>1, <1>5, <2>1 DEF ProvidersInv, AliasesProvide
  <2>2. CASE p \notin provided
    <3>1. PICK keys, t : p \in Providing!ProvidedBy(keys, t) /\ Providing!ProvidedBy(keys, t) \subseteq provided'
      BY <1>1, <1>4, <2>2
    <3>2. p[1] \in keys /\ p[2] \in Providing!WithAliases(t)
      BY <3>1 DEF Providing!ProvidedBy
    <3>3. p[2] = t
      BY <1>1, <1>5, <3>2 DEF Providing!WithAliases, ProvidersInv, AliasesAre
    <3>4. e[2] \in Providing!WithAliases(t)
      BY <1>5, <3>3 DEF Providing!WithAliases
    <3> QED BY <3>1, <3>2, <3>4 DEF Providing!ProvidedBy
  <2> QED BY <2>1, <2>2
<1>6. AliasesProvide'
  BY <1>1, <1>5, RulesStay DEF AliasesProvide
<1> QED BY <1>2, <1>3, <1>6 DEF ProvidersInv

LEMMA GenrulesStep ==
  ASSUME Providing!ProjectsAssumption, ProvidersInv, Providing!ExtractGeneratedFromGenrule PROVE ProvidersInv'
<1>1. /\ visit_pc = "genrules" /\ UNCHANGED <<files, aliased_by, provided>>
      /\ \/ visited + 1 = Len(files) /\ visited' = 0 /\ visit_pc' = "done"
         \/ visited + 1 # Len(files) /\ visited' = visited + 1 /\ visit_pc' = "genrules"
  BY DEF Providing!ExtractGeneratedFromGenrule, Providing!Following
<1>2. VisitTyped'
  <2>1. files \in ProjectFiles /\ visited \in Nat /\ visited < Len(files)
    BY <1>1 DEF ProvidersInv, VisitTyped
  <2>2. Len(files) \in Nat
    BY <2>1, FilesAre
  <2> QED BY <1>1, <2>1, <2>2 DEF VisitTyped
<1>3. AliasesAre' /\ AliasesProvide'
  BY <1>1, RulesStay DEF ProvidersInv, AliasesAre, AliasesProvide
<1> QED BY <1>2, <1>3 DEF ProvidersInv

LEMMA ProvidersInductive ==
  ASSUME Providing!ProjectsAssumption
  PROVE  /\ Providing!Init => ProvidersInv
         /\ ProvidersInv /\ [Providing!Next]_(Providing!vars) => ProvidersInv'
<1>1. Providing!Init => ProvidersInv
  BY DEF Providing!Init, ProvidersInv, VisitTyped, AliasesAre, AliasesProvide
<1>2. ASSUME ProvidersInv, UNCHANGED Providing!vars PROVE ProvidersInv'
  BY <1>2, RulesStay DEF Providing!vars, ProvidersInv, VisitTyped, AliasesAre, AliasesProvide
<1> QED BY <1>1, <1>2, ExtractAliasedByStep, HeadersStep, GenrulesStep DEF Providing!Next

(* An alias provides what the library it names provides, wherever the two  *)
(* are in any project (AppendCCLibraryHeaders, ExtractAliasedBy).          *)
THEOREM AliasesAreProviders ==
  ASSUME Providing!ProjectsAssumption
  PROVE  Providing!Spec => []Providing!AliasesProvideWhatTheyName
<1>1. ProvidersInv => Providing!AliasesProvideWhatTheyName
  BY DEF ProvidersInv, AliasesAre, AliasesProvide, Providing!AliasesProvideWhatTheyName
<1> QED BY <1>1, ProvidersInductive, PTL DEF Providing!Spec

-----------------------------------------------------------------------------
(* Which genrule made a file.                                              *)

Gone == IF visit_pc = "done" THEN Len(files) ELSE IF visit_pc = "genrules" THEN visited ELSE 0
OutsOf(n) == Providing!Outs(files[n])
OutAt(n, at) == Providing!Out(files[n], at)
IsOurs(package) == package.project = ""
IsHome(n) == IsOurs(files[n].package)

\* Each file made comes from the first that has it, and each that was gone over is there.
CreatorsAreFirst ==
  \A g \in generated : \E n \in 1..Gone : \E at \in OutsOf(n) :
    /\ g = OutAt(n, at)
    /\ \A m \in 1..Gone : \A o \in OutsOf(m) : OutAt(m, o)[1] = g[1] => n <= m
OutsAreThere == \A n \in 1..Gone : \A at \in OutsOf(n) : \E g \in generated : g[1] = OutAt(n, at)[1]
CreatorsDiffer == \A g, h \in generated : g[1] = h[1] => g = h
IsComplaint(path, made) ==
  \E n \in 1..Gone : \E at \in OutsOf(n) :
    IsHome(n) /\ OutAt(n, at)[1] = path /\ \E g \in made : g[1] = path /\ g[2] # OutAt(n, at)[2]
ComplaintsAre == \A path : path \in complaints <=> IsComplaint(path, generated)
CreatorsInv == ProvidersInv /\ CreatorsAreFirst /\ OutsAreThere /\ CreatorsDiffer /\ ComplaintsAre

LEMMA OutsAre ==
  ASSUME Providing!ProjectsAssumption, files \in ProjectFiles, NEW n \in DOMAIN files, NEW at \in OutsOf(n)
  PROVE  /\ at = <<at[1], at[2]>> /\ at[1] \in Nat /\ at[2] \in Nat
         /\ at[1] \in DOMAIN files[n].rules /\ at[2] \in DOMAIN files[n].rules[at[1]].outs
         /\ files[n].rules[at[1]].rule = "genrule"
<1>1. PICK r \in DOMAIN files[n].rules : files[n].rules[r].rule = "genrule" /\ \E o \in DOMAIN files[n].rules[r].outs : at = <<r, o>>
  BY DEF OutsOf, Providing!Outs
<1>2. PICK o \in DOMAIN files[n].rules[r].outs : at = <<r, o>>
  BY <1>1
<1>3. at[1] = r /\ at[2] = o
  BY <1>2
<1> QED BY <1>1, <1>2, <1>3, FilesAre

\* Of the places with a path one is in front.
LEMMA FirstPlace ==
  ASSUME NEW T, T # {}, \A at \in T : at = <<at[1], at[2]>> /\ at[1] \in Nat /\ at[2] \in Nat
  PROVE  \E at \in T : \A o \in T : ~Providing!InFront(o, at)
<1> DEFINE R == {at[1] : at \in T}
<1>1. PICK r \in R : \A q \in R : r <= q
  <2>1. R \subseteq Nat /\ R # {}
    OBVIOUS
  <2> HIDE DEF R
  <2> QED BY <2>1, LeastNatural
<1> DEFINE O == {at[2] : at \in {at \in T : at[1] = r}}
<1>2. PICK o \in O : \A q \in O : o <= q
  <2>1. O \subseteq Nat /\ O # {}
    BY <1>1
  <2> HIDE DEF O
  <2> QED BY <2>1, LeastNatural
<1>3. PICK at \in T : at[1] = r /\ at[2] = o
  BY <1>2
<1>4. ASSUME NEW p \in T, Providing!InFront(p, at) PROVE FALSE
  <2>1. p[1] \in Nat /\ p[2] \in Nat /\ r \in Nat /\ o \in Nat
    BY <1>3
  <2>2. r <= p[1]
    BY <1>1
  <2>3. CASE p[1] < r
    BY <2>1, <2>2, <2>3
  <2>4. CASE p[1] = r /\ p[2] < o
    <3>1. p[2] \in O
      BY <2>4
    <3> QED BY <1>2, <2>1, <2>4, <3>1
  <2> QED BY <1>3, <1>4, <2>3, <2>4 DEF Providing!InFront
<1> QED BY <1>4

\* What one more file adds.
LEMMA CreatorsStep ==
  ASSUME Providing!ProjectsAssumption, CreatorsInv, Providing!ExtractGeneratedFromGenrule PROVE CreatorsInv'
<1>k. PICK k : k = visited + 1
  OBVIOUS
<1>1. /\ visit_pc = "genrules" /\ UNCHANGED files /\ generated' = Providing!Insert(generated, files[k])
      /\ complaints' = complaints \cup
           (IF IsHome(k)
            THEN {OutAt(k, at)[1] : at \in {at \in OutsOf(k) :
                    \E g \in generated' : g[1] = OutAt(k, at)[1] /\ g[2] # OutAt(k, at)[2]}}
            ELSE {})
      /\ \/ visited + 1 = Len(files) /\ visited' = 0 /\ visit_pc' = "done"
         \/ visited + 1 # Len(files) /\ visited' = visited + 1 /\ visit_pc' = "genrules"
  BY <1>k DEF Providing!ExtractGeneratedFromGenrule, Providing!Following, IsHome, IsOurs, OutAt, OutsOf
<1>2. /\ files \in ProjectFiles /\ visited \in Nat /\ visited < Len(files) /\ Len(files) \in Nat
      /\ DOMAIN files = 1..Len(files)
  BY <1>1, FilesAre DEF CreatorsInv, ProvidersInv, VisitTyped
<1>3. Gone = k - 1 /\ Gone' = k /\ k \in Nat /\ k >= 1 /\ k \in DOMAIN files
  <2>1. k = visited + 1 /\ k \in Nat /\ k >= 1 /\ k \in DOMAIN files
    BY <1>k, <1>2
  <2>2. Gone = visited
    BY <1>1 DEF Gone
  <2>3. Gone' = k
    BY <1>1, <2>1 DEF Gone
  <2> QED BY <1>2, <2>1, <2>2, <2>3
<1>4. /\ \A n : OutsOf(n)' = OutsOf(n) /\ (IsHome(n)' <=> IsHome(n))
      /\ \A n, at : OutAt(n, at)' = OutAt(n, at)
  BY <1>1 DEF OutsOf, OutAt, IsHome
<1> DEFINE IsNew(at) == /\ ~\E g \in generated : g[1] = OutAt(k, at)[1]
                        /\ \A o \in OutsOf(k) : Providing!InFront(o, at) => OutAt(k, o)[1] # OutAt(k, at)[1]
<1>5. generated' = generated \cup {OutAt(k, at) : at \in {at \in OutsOf(k) : IsNew(at)}}
  BY <1>1 DEF Providing!Insert, Providing!IsMadeIn, OutAt, OutsOf
<1>6. /\ generated \subseteq generated'
      /\ \A g \in generated' : g \in generated \/ \E at \in OutsOf(k) : g = OutAt(k, at) /\ IsNew(at)
      /\ \A at \in OutsOf(k) : IsNew(at) => OutAt(k, at) \in generated'
  BY <1>5
<1>7. \A at \in OutsOf(k) : at = <<at[1], at[2]>> /\ at[1] \in Nat /\ at[2] \in Nat
  BY <1>2, <1>3, OutsAre
<1> HIDE DEF IsNew
<1>8. OutsAreThere'
  <2> SUFFICES ASSUME NEW n \in 1..k, NEW at \in OutsOf(n)
               PROVE  \E g \in generated' : g[1] = OutAt(n, at)[1]
    BY <1>3, <1>4 DEF OutsAreThere
  <2>1. CASE n # k
    <3>1. n \in 1..Gone
      BY <1>3, <2>1
    <3> QED BY <1>6, <3>1 DEF CreatorsInv, OutsAreThere
  <2>2. CASE n = k
    <3> DEFINE T == {o \in OutsOf(k) : OutAt(k, o)[1] = OutAt(k, at)[1]}
    <3>1. T # {} /\ \A o \in T : o = <<o[1], o[2]>> /\ o[1] \in Nat /\ o[2] \in Nat
      BY <1>7, <2>2
    <3> HIDE DEF T
    <3>2. PICK f \in T : \A o \in T : ~Providing!InFront(o, f)
      BY <3>1, FirstPlace
    <3>3. f \in OutsOf(k) /\ OutAt(k, f)[1] = OutAt(k, at)[1]
          /\ \A o \in OutsOf(k) : Providing!InFront(o, f) => OutAt(k, o)[1] # OutAt(k, f)[1]
      BY <3>2 DEF T
    <3>4. CASE \E g \in generated : g[1] = OutAt(k, f)[1]
      BY <1>6, <2>2, <3>3, <3>4
    <3>5. CASE ~\E g \in generated : g[1] = OutAt(k, f)[1]
      <4>1. IsNew(f)
        BY <3>3, <3>5 DEF IsNew
      <4> QED BY <1>6, <2>2, <3>3, <4>1
    <3> QED BY <3>4, <3>5
  <2> QED BY <2>1, <2>2
<1>9. CreatorsDiffer'
  <2> SUFFICES ASSUME NEW g \in generated', NEW h \in generated', g[1] = h[1] PROVE g = h
    BY DEF CreatorsDiffer
  <2>1. CASE g \in generated /\ h \in generated
    BY <2>1 DEF CreatorsInv, CreatorsDiffer
  <2>2. CASE g \in generated /\ h \notin generated
    BY <1>6, <2>2 DEF IsNew
  <2>3. CASE g \notin generated /\ h \in generated
    BY <1>6, <2>3 DEF IsNew
  <2>4. CASE g \notin generated /\ h \notin generated
    <3>1. PICK at \in OutsOf(k) : g = OutAt(k, at) /\ IsNew(at)
      BY <1>6, <2>4
    <3>2. PICK o \in OutsOf(k) : h = OutAt(k, o) /\ IsNew(o)
      BY <1>6, <2>4
    <3>3. ~Providing!InFront(at, o) /\ ~Providing!InFront(o, at)
      BY <3>1, <3>2 DEF IsNew
    <3>4. at[1] = o[1] /\ at[2] = o[2]
      BY <1>7, <3>3 DEF Providing!InFront
    <3>5. at = o
      BY <1>7, <3>4
    <3> QED BY <3>1, <3>2, <3>5
  <2> QED BY <2>1, <2>2, <2>3, <2>4
<1>10. CreatorsAreFirst'
  <2> SUFFICES ASSUME NEW g \in generated'
               PROVE  \E n \in 1..k : \E at \in OutsOf(n) :
                        /\ g = OutAt(n, at)
                        /\ \A m \in 1..k : \A o \in OutsOf(m) : OutAt(m, o)[1] = g[1] => n <= m
    BY <1>3, <1>4 DEF CreatorsAreFirst
  <2>1. CASE g \in generated
    <3>1. PICK n \in 1..Gone : \E at \in OutsOf(n) :
            /\ g = OutAt(n, at)
            /\ \A m \in 1..Gone : \A o \in OutsOf(m) : OutAt(m, o)[1] = g[1] => n <= m
      BY <2>1 DEF CreatorsInv, CreatorsAreFirst
    <3>2. n \in 1..k /\ n <= k /\ \A m \in 1..k : m \in 1..Gone \/ m = k
      BY <1>3
    <3> QED BY <3>1, <3>2
  <2>2. CASE g \notin generated
    <3>1. PICK at \in OutsOf(k) : g = OutAt(k, at) /\ IsNew(at)
      BY <1>6, <2>2
    <3>2. ASSUME NEW m \in 1..k, NEW o \in OutsOf(m), OutAt(m, o)[1] = g[1] PROVE k <= m
      <4>1. m \notin 1..Gone
        BY <3>1, <3>2 DEF CreatorsInv, OutsAreThere, IsNew
      <4> QED BY <1>3, <4>1
    <3> QED BY <1>3, <3>1, <3>2
  <2> QED BY <2>1, <2>2
\* Who made a path does not change any more.
<1>11. \A path : path \in complaints' <=> IsComplaint(path, generated)'
  <2> SUFFICES ASSUME NEW path PROVE path \in complaints' <=> IsComplaint(path, generated)'
    OBVIOUS
  <2> DEFINE Clash(n, at) == IsHome(n) /\ OutAt(n, at)[1] = path /\ \E g \in generated' : g[1] = path /\ g[2] # OutAt(n, at)[2]
  <2>1. IsComplaint(path, generated)' <=> \E n \in 1..k : \E at \in OutsOf(n) : Clash(n, at)
    BY <1>3, <1>4 DEF IsComplaint
  <2>2. path \in complaints <=> IsComplaint(path, generated)
    BY DEF CreatorsInv, ComplaintsAre
  <2>3. ASSUME NEW n \in 1..Gone, NEW at \in OutsOf(n), OutAt(n, at)[1] = path, NEW g \in generated', g[1] = path
        PROVE  g \in generated
    <3>1. PICK h \in generated : h[1] = path
      BY <2>3 DEF CreatorsInv, OutsAreThere
    <3>2. h \in generated'
      BY <1>6
    <3> QED BY <1>9, <2>3, <3>1, <3>2 DEF CreatorsDiffer
  <2>4. IsComplaint(path, generated) <=> \E n \in 1..Gone : \E at \in OutsOf(n) : Clash(n, at)
    BY <1>6, <2>3 DEF IsComplaint
  <2>5. path \in complaints' <=> path \in complaints \/ \E at \in OutsOf(k) : Clash(k, at)
    BY <1>1
  <2> HIDE DEF Clash
  <2>6. \A n : n \in 1..k <=> n \in 1..Gone \/ n = k
    BY <1>3
  <2> QED BY <2>1, <2>2, <2>4, <2>5, <2>6
<1> QED BY <1>8, <1>9, <1>10, <1>11, GenrulesStep DEF CreatorsInv, ComplaintsAre

LEMMA CreatorsInductive ==
  ASSUME Providing!ProjectsAssumption
  PROVE  /\ Providing!Init => CreatorsInv
         /\ CreatorsInv /\ [Providing!Next]_(Providing!vars) => CreatorsInv'
<1> DEFINE Rest == CreatorsAreFirst /\ OutsAreThere /\ CreatorsDiffer /\ ComplaintsAre
<1>1. Gone = 0 /\ generated = {} /\ complaints = {} => Rest
  BY DEF CreatorsAreFirst, OutsAreThere, CreatorsDiffer, ComplaintsAre, IsComplaint
<1>2. (Gone = 0 /\ generated = {} /\ complaints = {})' => Rest'
  BY DEF CreatorsAreFirst, OutsAreThere, CreatorsDiffer, ComplaintsAre, IsComplaint
<1>3. Providing!Init => CreatorsInv
  <2> SUFFICES ASSUME Providing!Init PROVE CreatorsInv
    OBVIOUS
  <2>1. Gone = 0 /\ generated = {} /\ complaints = {}
    BY DEF Providing!Init, Gone
  <2> QED BY <1>1, <2>1, ProvidersInductive DEF CreatorsInv
<1>4. ASSUME CreatorsInv, Providing!ExtractAliasedBy PROVE CreatorsInv'
  <2>1. /\ generated' = generated /\ complaints' = complaints /\ generated = {} /\ complaints = {}
        /\ \/ visit_pc' = "done" /\ files' = <<>>
           \/ visit_pc' = "headers"
    BY <1>4 DEF CreatorsInv, ProvidersInv, VisitTyped, Providing!ExtractAliasedBy
  <2>2. Gone' = 0
    BY <2>1 DEF Gone
  <2> QED BY <1>2, <1>4, <2>1, <2>2, ExtractAliasedByStep DEF CreatorsInv
<1>5. ASSUME CreatorsInv, Providing!ExtractHeaderToLibMapping PROVE CreatorsInv'
  <2>1. /\ generated' = generated /\ complaints' = complaints /\ generated = {} /\ complaints = {}
        /\ visit_pc = "headers" /\ (visit_pc' = "headers" \/ (visit_pc' = "genrules" /\ visited' = 0))
    BY <1>5 DEF CreatorsInv, ProvidersInv, VisitTyped, Providing!ExtractHeaderToLibMapping, Providing!Following
  <2>2. Gone' = 0
    BY <2>1 DEF Gone
  <2> QED BY <1>2, <1>5, <2>1, <2>2, HeadersStep DEF CreatorsInv
<1>6. ASSUME CreatorsInv, UNCHANGED Providing!vars PROVE CreatorsInv'
  <2>1. UNCHANGED <<files, visit_pc, visited, generated, complaints>>
    BY <1>6 DEF Providing!vars
  <2>2. /\ Gone' = Gone /\ \A n : OutsOf(n)' = OutsOf(n) /\ (IsHome(n)' <=> IsHome(n))
        /\ \A n, at : OutAt(n, at)' = OutAt(n, at)
    BY <2>1 DEF Gone, OutsOf, OutAt, IsHome
  <2>3. Rest'
    BY <1>6, <2>1, <2>2 DEF CreatorsInv, CreatorsAreFirst, OutsAreThere, CreatorsDiffer, ComplaintsAre, IsComplaint
  <2> QED BY <1>6, <2>3, ProvidersInductive DEF CreatorsInv
<1> QED BY <1>3, <1>4, <1>5, <1>6, CreatorsStep DEF Providing!Next

\* The genrules that make a path are the places that have it.
Made(r) == {Providing!QualifiedFile(r.package, o) : o \in Providing!Range(r.rule.outs)}
LEMMA MakersAre ==
  ASSUME Providing!ProjectsAssumption, files \in ProjectFiles
  PROVE  /\ \A r \in Providing!Of({"genrule"}) : \A path \in Made(r) :
              \E n \in DOMAIN files : \E at \in OutsOf(n) :
                OutAt(n, at) = <<path, Providing!TheTarget(r)>> /\ files[n].package = r.package
         /\ \A n \in DOMAIN files : \A at \in OutsOf(n) :
              \E r \in Providing!Of({"genrule"}) :
                /\ OutAt(n, at)[1] \in Made(r) /\ OutAt(n, at) = <<OutAt(n, at)[1], Providing!TheTarget(r)>>
                /\ r.package = files[n].package
<1>1. ASSUME NEW r \in Providing!Of({"genrule"}), NEW path \in Made(r)
      PROVE  \E n \in DOMAIN files : \E at \in OutsOf(n) :
               OutAt(n, at) = <<path, Providing!TheTarget(r)>> /\ files[n].package = r.package
  <2>1. r \in Providing!Rules /\ r.rule.rule = "genrule"
    BY DEF Providing!Of
  <2>2. PICK f \in Providing!Range(files) : \E q \in Providing!Range(f.rules) : r = [package |-> f.package, rule |-> q]
    BY <2>1 DEF Providing!Rules
  <2>3. PICK n \in DOMAIN files : f = files[n]
    BY DEF Providing!Range
  <2>4. r.package = files[n].package /\ r.rule \in Providing!Range(files[n].rules)
    BY <2>2, <2>3
  <2>5. PICK m \in DOMAIN files[n].rules : r.rule = files[n].rules[m]
    BY <2>4 DEF Providing!Range
  <2>6. PICK o \in DOMAIN r.rule.outs : path = Providing!QualifiedFile(r.package, r.rule.outs[o])
    BY DEF Made, Providing!Range
  <2> DEFINE at == <<m, o>>
  <2>7. at \in OutsOf(n) /\ at[1] = m /\ at[2] = o
    BY <2>1, <2>5, <2>6 DEF OutsOf, Providing!Outs
  <2>8. OutAt(n, at) = <<path, Providing!TheTarget(r)>>
    BY <2>4, <2>5, <2>6, <2>7 DEF OutAt, Providing!Out, Providing!TheTarget
  <2> QED BY <2>4, <2>7, <2>8
<1>2. ASSUME NEW n \in DOMAIN files, NEW at \in OutsOf(n)
      PROVE  \E r \in Providing!Of({"genrule"}) :
                /\ OutAt(n, at)[1] \in Made(r) /\ OutAt(n, at) = <<OutAt(n, at)[1], Providing!TheTarget(r)>>
                /\ r.package = files[n].package
  <2> DEFINE q == files[n].rules[at[1]]
             r == [package |-> files[n].package, rule |-> q]
  <2>1. at[1] \in DOMAIN files[n].rules /\ at[2] \in DOMAIN q.outs /\ q.rule = "genrule"
    BY <1>2, OutsAre
  <2>2. files[n] \in Providing!Range(files) /\ q \in Providing!Range(files[n].rules) /\ q.outs[at[2]] \in Providing!Range(q.outs)
    BY <2>1 DEF Providing!Range
  <2>3. r \in Providing!Of({"genrule"})
    BY <2>1, <2>2, SMTT(30) DEF Providing!Of, Providing!Rules
  <2>4. OutAt(n, at) = <<Providing!QualifiedFile(files[n].package, q.outs[at[2]]), Providing!TheTarget(r)>>
    BY DEF OutAt, Providing!Out, Providing!TheTarget
  <2>5. OutAt(n, at)[1] \in Made(r)
    BY <2>2, <2>4 DEF Made
  <2> QED BY <2>3, <2>4, <2>5
<1> QED BY <1>1, <1>2

(* A file that genrules make has one creator, the first of them, which is  *)
(* of this project if any is; and the user is told of a path exactly if    *)
(* two different targets of this project make it                           *)
(* (ExtractGeneratedFromGenrule).                                          *)
THEOREM CreatorsAreUnique ==
  ASSUME Providing!ProjectsAssumption
  PROVE  Providing!Spec => []Providing!FilesHaveOneCreator
<1>1. ASSUME CreatorsInv PROVE Providing!FilesHaveOneCreator
  <2> DEFINE Makers(path) == {r \in Providing!Of({"genrule"}) : path \in Made(r)}
             Home(path) == {r \in Makers(path) : r.package.project = ""}
  <2> SUFFICES ASSUME visit_pc = "done", NEW s \in Providing!Of({"genrule"}), NEW path \in Made(s)
               PROVE  /\ \E r \in Makers(path) : {g \in generated : g[1] = path} = {<<path, Providing!TheTarget(r)>>}
                      /\ Home(path) # {} => \E r \in Home(path) : <<path, Providing!TheTarget(r)>> \in generated
                      /\ path \in complaints <=>
                           (\E r, q \in Home(path) : Providing!TheTarget(r) # Providing!TheTarget(q))
    BY DEF Providing!FilesHaveOneCreator, Made
  <2>1. Gone = Len(files) /\ Len(files) \in Nat /\ DOMAIN files = 1..Gone /\ files \in ProjectFiles
    BY <1>1, FilesAre DEF CreatorsInv, ProvidersInv, VisitTyped, Gone
  <2>2. \A r \in Makers(path) : \E n \in 1..Gone : \E at \in OutsOf(n) :
          OutAt(n, at) = <<path, Providing!TheTarget(r)>> /\ files[n].package = r.package
    BY <2>1, MakersAre
  <2>3. \A n \in 1..Gone : \A at \in OutsOf(n) : OutAt(n, at)[1] = path =>
          \E r \in Makers(path) : OutAt(n, at) = <<path, Providing!TheTarget(r)>> /\ r.package = files[n].package
    BY <2>1, MakersAre
  <2>4. s \in Makers(path) /\ \A r : r \in Home(path) <=> r \in Makers(path) /\ IsOurs(r.package)
    BY Zenon DEF IsOurs
  <2> HIDE DEF Makers, Home
  \* The creator.
  <2>5. PICK g \in generated : g[1] = path
    <3>1. PICK n \in 1..Gone : \E at \in OutsOf(n) : OutAt(n, at)[1] = path
      BY <2>2, <2>4
    <3> QED BY <1>1, <3>1 DEF CreatorsInv, OutsAreThere
  <2>6. {h \in generated : h[1] = path} = {g}
    BY <1>1, <2>5 DEF CreatorsInv, CreatorsDiffer
  <2>7. PICK n \in 1..Gone : \E at \in OutsOf(n) :
          g = OutAt(n, at) /\ \A m \in 1..Gone : \A o \in OutsOf(m) : OutAt(m, o)[1] = path => n <= m
    BY <1>1, <2>5 DEF CreatorsInv, CreatorsAreFirst
  <2>8. PICK c \in Makers(path) : g = <<path, Providing!TheTarget(c)>> /\ c.package = files[n].package
    BY <2>3, <2>5, <2>7
  \* It is of this project if any is.
  <2>9. ASSUME NEW m \in 1..Gone, NEW o \in OutsOf(m), OutAt(m, o)[1] = path, IsHome(m) PROVE c \in Home(path)
    <3>1. n <= m
      BY <2>7, <2>9
    <3>2. n = m \/ n < m
      BY <2>1, <3>1
    <3>3. IsHome(n)
      BY <2>1, <2>9, <3>2, FilesAre, Zenon DEF IsHome, IsOurs
    <3> QED BY <2>4, <2>8, <3>3 DEF IsHome
  <2>10. ASSUME NEW r \in Home(path) PROVE c \in Home(path)
    <3>1. PICK m \in 1..Gone : \E o \in OutsOf(m) :
            OutAt(m, o) = <<path, Providing!TheTarget(r)>> /\ files[m].package = r.package
      BY <2>2, <2>4
    <3>2. IsHome(m)
      BY <2>4, <3>1 DEF IsHome
    <3> QED BY <2>9, <3>1, <3>2
  <2>11. path \in complaints <=> IsComplaint(path, generated)
    BY <1>1 DEF CreatorsInv, ComplaintsAre
  <2>12. ASSUME IsComplaint(path, generated)
         PROVE  \E r, q \in Home(path) : Providing!TheTarget(r) # Providing!TheTarget(q)
    <3>1. PICK m \in 1..Gone : \E o \in OutsOf(m) :
            IsHome(m) /\ OutAt(m, o)[1] = path /\ \E h \in generated : h[1] = path /\ h[2] # OutAt(m, o)[2]
      BY <2>12 DEF IsComplaint
    <3>2. PICK o \in OutsOf(m) : OutAt(m, o)[1] = path /\ g[2] # OutAt(m, o)[2]
      BY <2>6, <3>1
    <3>3. PICK r \in Makers(path) : OutAt(m, o) = <<path, Providing!TheTarget(r)>> /\ r.package = files[m].package
      BY <2>3, <3>2
    <3>4. r \in Home(path) /\ c \in Home(path)
      BY <2>4, <2>9, <3>1, <3>2, <3>3 DEF IsHome
    <3>5. Providing!TheTarget(r) # Providing!TheTarget(c)
      BY <2>8, <3>2, <3>3
    <3> QED BY <3>4, <3>5
  <2>13. ASSUME NEW r \in Home(path), NEW q \in Home(path), Providing!TheTarget(r) # Providing!TheTarget(q)
         PROVE  IsComplaint(path, generated)
    <3>1. PICK p \in Home(path) : Providing!TheTarget(p) # Providing!TheTarget(c)
      BY <2>13
    <3>2. PICK m \in 1..Gone : \E o \in OutsOf(m) :
            OutAt(m, o) = <<path, Providing!TheTarget(p)>> /\ files[m].package = p.package
      BY <2>2, <2>4
    <3>3. PICK o \in OutsOf(m) : OutAt(m, o) = <<path, Providing!TheTarget(p)>>
      BY <3>2
    <3>4. IsHome(m)
      BY <2>4, <3>2 DEF IsHome
    <3>5. g[1] = path /\ g[2] # OutAt(m, o)[2]
      BY <2>8, <3>1, <3>3
    <3> QED BY <3>3, <3>4, <3>5 DEF IsComplaint
  <2> QED BY <2>6, <2>8, <2>10, <2>11, <2>12, <2>13
<1> QED BY <1>1, CreatorsInductive, PTL DEF Providing!Spec


-----------------------------------------------------------------------------
(* And on the includes: each is a file of the target or has its libraries. *)

CONSTANTS Texts, Words, Accepted, PathOf, Targets, Indexes
VARIABLES text, target, index, is_generated, grep_pc, rest, in_quotes, found_includes, looked_at,
          sets, accounted, hinted   \* of SourceIncludes
Looking == INSTANCE SourceIncludes WITH
  pc <- grep_pc, run <- rest, result <- found_includes, needed <- sets, all_known <- accounted,
  reported <- hinted

Spelled == {text[k] : k \in DOMAIN text}
SetsOfLibs == {index[p] : p \in DOMAIN index}
LookTyped ==
  /\ target \in Targets
  /\ grep_pc \in {"grep", "look", "done"}
  /\ found_includes \in Seq(Spelled) /\ sets \in Seq(SetsOfLibs)
  /\ looked_at \in 0..Len(found_includes)
  /\ grep_pc = "grep" => looked_at = 0 /\ sets = <<>>
  /\ grep_pc = "done" => looked_at = Len(found_includes)
\* Of the includes looked at so far each that is no file of the target has added its set.
AccountedFor ==
  accounted =>
    /\ Len(sets) = Cardinality(Looking!ForeignUpTo(looked_at))
    /\ \A n \in Looking!ForeignUpTo(looked_at) :
         sets[Cardinality(Looking!ForeignUpTo(n))] \in Looking!ProvidersOf(found_includes[n])
LookInv == LookTyped /\ AccountedFor

\* The foreign includes up to a place: finitely many, one more at a foreign one.
LEMMA ForeignGrows ==
  /\ Looking!ForeignUpTo(0) = {}
  /\ \A m \in Nat :
       /\ IsFiniteSet(Looking!ForeignUpTo(m)) /\ Cardinality(Looking!ForeignUpTo(m)) \in Nat
       /\ Looking!IsOwnFile(found_includes[m + 1]) => Looking!ForeignUpTo(m + 1) = Looking!ForeignUpTo(m)
       /\ ~Looking!IsOwnFile(found_includes[m + 1]) =>
            /\ Looking!ForeignUpTo(m + 1) = Looking!ForeignUpTo(m) \cup {m + 1}
            /\ Cardinality(Looking!ForeignUpTo(m + 1)) = Cardinality(Looking!ForeignUpTo(m)) + 1
       /\ \A n \in Looking!ForeignUpTo(m) :
            /\ n \in 1..m
            /\ Cardinality(Looking!ForeignUpTo(n)) \in 1..Cardinality(Looking!ForeignUpTo(m))
<1> DEFINE Own(n) == Looking!IsOwnFile(found_includes[n])
           F(m) == {n \in 1..m : ~Own(n)}
<1>1. \A m : Looking!ForeignUpTo(m) = F(m)
  BY Zenon DEF Looking!ForeignUpTo
<1> HIDE DEF Own
<1>2. F(0) = {}
  OBVIOUS
<1>3. \A m \in Nat : IsFiniteSet(F(m)) /\ Cardinality(F(m)) \in Nat
  <2> TAKE m \in Nat
  <2>1. IsFiniteSet(1..m) /\ F(m) \subseteq 1..m
    BY FS_Interval
  <2> QED BY <2>1, FS_Subset, FS_CardinalityType
<1>4. \A m \in Nat : Own(m + 1) => F(m + 1) = F(m)
  OBVIOUS
<1>5. ASSUME NEW m \in Nat, ~Own(m + 1)
      PROVE  F(m + 1) = F(m) \cup {m + 1} /\ Cardinality(F(m + 1)) = Cardinality(F(m)) + 1
  <2>1. F(m + 1) = F(m) \cup {m + 1} /\ m + 1 \notin F(m)
    BY <1>5
  <2> HIDE DEF F
  <2> QED BY <1>3, <2>1, FS_AddElement
<1>6. ASSUME NEW m \in Nat, NEW n \in F(m)
      PROVE  n \in 1..m /\ Cardinality(F(n)) \in 1..Cardinality(F(m))
  <2>1. n \in 1..m /\ n \in Nat /\ n \in F(n) /\ F(n) \subseteq F(m)
    OBVIOUS
  <2> HIDE DEF F
  <2>2. Cardinality(F(n)) <= Cardinality(F(m))
    BY <1>3, <2>1, FS_Subset
  <2>3. Cardinality(F(n)) # 0
    BY <1>3, <2>1, FS_EmptySet
  <2> QED BY <1>3, <2>1, <2>2, <2>3
<1>7. \A m : Own(m) <=> Looking!IsOwnFile(found_includes[m])
  BY DEF Own
<1> HIDE DEF F
<1> QED BY <1>1, <1>2, <1>3, <1>4, <1>5, <1>6, <1>7, Zenon

\* Looked for in both ways, a file of the target is found, and no other.
LEMMA OwnFiles ==
  ASSUME Looking!TargetsAssumption, target \in Targets
  PROVE  Looking!IsOwnFile(found_includes[looked_at + 1]) <=> Looking!IsOwn \/ Looking!IsOwnWithoutPrefix
<1> DEFINE h == Looking!inc_file
           Slash(f) == <<"">> \o f
<1>1. Looking!IsOwnFile(found_includes[looked_at + 1]) <=>
        \E f \in target.files : h = f \/ h = Slash(f) \/ h = target.package \o f
  BY Zenon DEF Looking!IsOwnFile, Looking!Root, Looking!inc_file
<1>2. Looking!IsOwnWithoutPrefix <=> \E f \in target.files : h = f \/ h = Slash(f)
  BY Zenon DEF Looking!IsOwnWithoutPrefix, Looking!IsHeaderInList, Looking!Prefixed
<1>3. Looking!IsOwn <=> \E f \in target.files : h = f \/ h = (IF target.package = <<>> THEN Slash(f) ELSE target.package \o f)
  BY Zenon DEF Looking!IsOwn, Looking!IsHeaderInList, Looking!Prefixed
<1>4. \A f \in target.files : <<>> \o f = f
  BY DEF Looking!TargetsAssumption
<1> HIDE DEF h, Slash
<1> QED BY <1>1, <1>2, <1>3, <1>4, Zenon

\* Whatever the index answers is a provider.
LEMMA AnswersProvide ==
  ASSUME NEW w
  PROVE  /\ \A m \in Looking!FindBySuffix(PathOf[w]) :
              m \in DOMAIN index /\ index[m] \in Looking!ProvidersOf(w)
         /\ \A m \in Looking!FindBySuffix(Looking!QualifiedFile(PathOf[w])) :
              /\ m \in DOMAIN index
              /\ Looking!FindBySuffix(PathOf[w]) = {} => index[m] \in Looking!ProvidersOf(w)
BY DEF Looking!FindBySuffix, Looking!ProvidersOf, Looking!Root, Looking!Here, Looking!QualifiedFile,
       Looking!MinFuzzyPaths

\* What is the target's and what provides a header is settled by the beginning.
LEMMA LookupsStay ==
  ASSUME UNCHANGED Looking!sourceVars
  PROVE  /\ UNCHANGED <<text, target, index>>
         /\ Spelled' = Spelled /\ SetsOfLibs' = SetsOfLibs
         /\ \A w : Looking!ProvidersOf(w)' = Looking!ProvidersOf(w)
         /\ \A n : found_includes' = found_includes => Looking!ForeignUpTo(n)' = Looking!ForeignUpTo(n)
<1>1. UNCHANGED <<text, target, index>>
  BY DEF Looking!sourceVars
<1>2. Spelled' = Spelled /\ SetsOfLibs' = SetsOfLibs
  BY <1>1 DEF Spelled, SetsOfLibs
<1>3. \A w : Looking!ProvidersOf(w)' = Looking!ProvidersOf(w)
  BY <1>1 DEF Looking!ProvidersOf, Looking!Root, Looking!Here
<1>4. \A w : Looking!IsOwnFile(w)' <=> Looking!IsOwnFile(w)
  BY <1>1, Zenon DEF Looking!IsOwnFile, Looking!Root
<1>5. \A n : found_includes' = found_includes => Looking!ForeignUpTo(n)' = Looking!ForeignUpTo(n)
  BY <1>4 DEF Looking!ForeignUpTo
<1> QED BY <1>1, <1>2, <1>3, <1>5

LEMMA GrepStep ==
  ASSUME LookInv, Looking!FindQuote \/ Looking!FindInclude \/ Looking!NothingFound
  PROVE  LookInv'
<1>1. /\ grep_pc = "grep" /\ grep_pc' \in {"grep", "look"}
      /\ UNCHANGED Looking!sourceVars /\ UNCHANGED <<looked_at, sets, accounted>>
  BY DEF Looking!FindQuote, Looking!FindInclude, Looking!NothingFound, Looking!lookupVars
<1>2. looked_at = 0 /\ sets = <<>>
  BY <1>1 DEF LookInv, LookTyped
<1>3. found_includes' \in Seq(Spelled)
  <2>1. found_includes \in Seq(Spelled)
    BY DEF LookInv, LookTyped
  <2>2. CASE found_includes' = found_includes
    BY <2>1, <2>2
  <2>3. CASE found_includes' # found_includes
    <3>1. PICK w : w \in DOMAIN text /\ found_includes' = Append(found_includes, text[w])
      <4>1. Looking!FindInclude
        BY <2>3 DEF Looking!FindQuote, Looking!NothingFound
      <4>2. PICK w \in Looking!IncludeFrom(Looking!First(Looking!Matches)) :
              found_includes' = (IF in_quotes THEN found_includes ELSE Append(found_includes, text[w]))
        BY <4>1 DEF Looking!FindInclude
      <4>3. Looking!At(w, Accepted)
        BY <4>2, Zenon DEF Looking!IncludeFrom
      <4>4. w \in DOMAIN text
        BY <4>3 DEF Looking!At
      <4> QED BY <2>3, <4>2, <4>4
    <3>2. text[w] \in Spelled
      BY <3>1 DEF Spelled
    <3> QED BY <2>1, <3>1, <3>2
  <2> QED BY <2>2, <2>3
<1>4. LookTyped'
  <2>1. target' \in Targets /\ sets' \in Seq(SetsOfLibs') /\ found_includes' \in Seq(Spelled')
    BY <1>1, <1>3, LookupsStay DEF LookInv, LookTyped
  <2>2. looked_at' \in 0..Len(found_includes')
    BY <1>1, <1>2, <1>3
  <2> QED BY <1>1, <1>2, <2>1, <2>2 DEF LookTyped
<1>5. AccountedFor'
  <2>1. Looking!ForeignUpTo(0)' = {}
    BY DEF Looking!ForeignUpTo
  <2>2. Len(sets) = 0 /\ Cardinality({}) = 0
    BY <1>2, FS_EmptySet
  <2>3. Looking!ForeignUpTo(looked_at)' = {} /\ Len(sets') = 0
    BY <1>1, <1>2, <2>1, <2>2
  <2> QED BY <2>2, <2>3 DEF AccountedFor
<1> QED BY <1>4, <1>5 DEF LookInv

LEMMA LookStep ==
  ASSUME Looking!TargetsAssumption, LookInv,
         \/ Looking!OwnHeader \/ Looking!OwnHeaderWithoutPrefix \/ Looking!FromLibrary
         \/ Looking!FromLibraryOfThisPackage \/ Looking!FromNowhere
  PROVE  LookInv'
<1> DEFINE w == found_includes[looked_at + 1]
           Foreign(m) == Looking!ForeignUpTo(m)
           n0 == looked_at + 1
<1>1. /\ grep_pc = "look" /\ looked_at < Len(found_includes) /\ looked_at' = n0
      /\ UNCHANGED Looking!sourceVars /\ UNCHANGED <<grep_pc, found_includes>>
  BY DEF Looking!OwnHeader, Looking!OwnHeaderWithoutPrefix, Looking!FromLibrary, Looking!NextInclude,
         Looking!FromLibraryOfThisPackage, Looking!FromNowhere
<1>2. /\ target \in Targets /\ sets \in Seq(SetsOfLibs) /\ Len(sets) \in Nat
      /\ found_includes \in Seq(Spelled) /\ Len(found_includes) \in Nat
      /\ looked_at \in Nat /\ n0 \in Nat /\ n0 \in 0..Len(found_includes)
  BY <1>1 DEF LookInv, LookTyped
<1>3. Looking!IsOwnFile(w) <=> Looking!IsOwn \/ Looking!IsOwnWithoutPrefix
  BY <1>2, OwnFiles, Zenon
<1>4. /\ UNCHANGED <<text, target, index>> /\ Spelled' = Spelled /\ SetsOfLibs' = SetsOfLibs
      /\ \A v : Looking!ProvidersOf(v)' = Looking!ProvidersOf(v)
      /\ \A n : Looking!ForeignUpTo(n)' = Foreign(n)
  BY <1>1, LookupsStay
<1>5. \/ Looking!IsOwnFile(w) /\ UNCHANGED <<sets, accounted>>
      \/ /\ ~Looking!IsOwnFile(w) /\ UNCHANGED accounted
         /\ \E m \in DOMAIN index : index[m] \in Looking!ProvidersOf(w) /\ sets' = Append(sets, index[m])
      \/ accounted' = FALSE /\ UNCHANGED sets
  <2>1. CASE Looking!OwnHeader \/ Looking!OwnHeaderWithoutPrefix
    BY <1>3, <2>1, Zenon DEF Looking!OwnHeader, Looking!OwnHeaderWithoutPrefix
  <2>2. CASE Looking!FromLibrary
    <3>1. PICK m \in Looking!FindBySuffix(Looking!inc_file) : sets' = Append(sets, index[m])
      BY <2>2, Zenon DEF Looking!FromLibrary
    <3>2. m \in DOMAIN index /\ index[m] \in Looking!ProvidersOf(w)
      BY <3>1, AnswersProvide, Zenon DEF Looking!inc_file
    <3>3. ~Looking!IsOwnFile(w) /\ UNCHANGED accounted
      BY <1>3, <2>2, Zenon DEF Looking!FromLibrary
    <3> QED BY <3>1, <3>2, <3>3, Zenon
  <2>3. CASE Looking!FromLibraryOfThisPackage
    <3>1. PICK m \in Looking!FindBySuffix(Looking!QualifiedFile(Looking!inc_file)) : sets' = Append(sets, index[m])
      BY <2>3, Zenon DEF Looking!FromLibraryOfThisPackage
    <3>2. m \in DOMAIN index /\ index[m] \in Looking!ProvidersOf(w)
      BY <2>3, <3>1, AnswersProvide, Zenon DEF Looking!inc_file, Looking!FromLibraryOfThisPackage
    <3>3. ~Looking!IsOwnFile(w) /\ UNCHANGED accounted
      BY <1>3, <2>3, Zenon DEF Looking!FromLibraryOfThisPackage
    <3> QED BY <3>1, <3>2, <3>3, Zenon
  <2>4. CASE Looking!FromNowhere
    BY <2>4, Zenon DEF Looking!FromNowhere
  <2> QED BY <2>1, <2>2, <2>3, <2>4, Zenon
<1>6. LookTyped'
  <2>1. \A m \in DOMAIN index : index[m] \in SetsOfLibs
    BY DEF SetsOfLibs
  <2>2. sets' \in Seq(SetsOfLibs)
    <3>1. sets' = sets \/ \E m \in DOMAIN index : sets' = Append(sets, index[m])
      BY <1>5, Zenon
    <3>2. ASSUME NEW m \in DOMAIN index, sets' = Append(sets, index[m]) PROVE sets' \in Seq(SetsOfLibs)
      <4>1. index[m] \in SetsOfLibs /\ sets \in Seq(SetsOfLibs)
        BY <1>2, <2>1
      <4>2. \A e \in SetsOfLibs, q \in Seq(SetsOfLibs) : Append(q, e) \in Seq(SetsOfLibs)
        OBVIOUS
      <4> QED BY <3>2, <4>1, <4>2, Zenon
    <3> QED BY <1>2, <3>1, <3>2, Zenon
  <2> QED BY <1>1, <1>2, <1>4, <2>2 DEF LookTyped
<1>7. ASSUME accounted' PROVE /\ Len(sets') = Cardinality(Foreign(n0))
                              /\ \A n \in Foreign(n0) :
                                   sets'[Cardinality(Foreign(n))] \in Looking!ProvidersOf(found_includes[n])
  <2>0. accounted
    BY <1>5, <1>7
  <2>1. /\ Len(sets) = Cardinality(Foreign(looked_at))
        /\ \A n \in Foreign(looked_at) :
             sets[Cardinality(Foreign(n))] \in Looking!ProvidersOf(found_includes[n])
    BY <2>0 DEF LookInv, AccountedFor
  <2>2. CASE Looking!IsOwnFile(w) /\ UNCHANGED <<sets, accounted>>
    BY <1>2, <2>1, <2>2, ForeignGrows
  <2>3. CASE ~Looking!IsOwnFile(w) /\ \E m \in DOMAIN index :
               index[m] \in Looking!ProvidersOf(w) /\ sets' = Append(sets, index[m])
    <3>1. PICK m \in DOMAIN index : index[m] \in Looking!ProvidersOf(w) /\ sets' = Append(sets, index[m])
      BY <2>3
    <3>2. /\ Foreign(n0) = Foreign(looked_at) \cup {n0}
          /\ Cardinality(Foreign(n0)) = Len(sets) + 1
          /\ \A n \in Foreign(looked_at) : Cardinality(Foreign(n)) \in 1..Len(sets)
      BY <1>2, <2>1, <2>3, ForeignGrows
    <3>3. /\ Len(sets') = Len(sets) + 1 /\ sets'[Len(sets) + 1] = index[m]
          /\ \A k \in 1..Len(sets) : sets'[k] = sets[k]
      <4>1. index[m] \in SetsOfLibs
        BY DEF SetsOfLibs
      <4> QED BY <1>2, <3>1, <4>1
    <3>4. ASSUME NEW n \in Foreign(n0)
          PROVE  sets'[Cardinality(Foreign(n))] \in Looking!ProvidersOf(found_includes[n])
      <4>1. CASE n \in Foreign(looked_at)
        BY <2>1, <3>2, <3>3, <4>1
      <4>2. CASE n = n0
        BY <3>1, <3>2, <3>3, <4>2
      <4> QED BY <3>2, <4>1, <4>2
    <3> QED BY <3>2, <3>3, <3>4
  <2> QED BY <1>5, <1>7, <2>2, <2>3
<1>8. AccountedFor'
  BY <1>1, <1>4, <1>7 DEF AccountedFor
<1> QED BY <1>6, <1>8 DEF LookInv

LEMMA LookInductive ==
  ASSUME Looking!TargetsAssumption
  PROVE  /\ Looking!Init => LookInv
         /\ LookInv /\ [Looking!Next]_(Looking!vars) => LookInv'
<1>1. Looking!Init => LookInv
  <2> SUFFICES ASSUME Looking!Init PROVE LookInv
    OBVIOUS
  <2>1. /\ target \in Targets /\ grep_pc = "grep" /\ found_includes = <<>> /\ looked_at = 0 /\ sets = <<>>
    BY DEF Looking!Init
  <2>2. Looking!ForeignUpTo(0) = {} /\ Cardinality({}) = 0
    BY ForeignGrows, FS_EmptySet
  <2>3. LookTyped
    BY <2>1 DEF LookTyped
  <2>4. AccountedFor
    BY <2>1, <2>2 DEF AccountedFor
  <2> QED BY <2>3, <2>4 DEF LookInv
<1>2. LookInv /\ [Looking!Next]_(Looking!vars) => LookInv'
  <2> SUFFICES ASSUME LookInv, [Looking!Next]_(Looking!vars) PROVE LookInv'
    OBVIOUS
  <2>1. CASE Looking!FindQuote \/ Looking!FindInclude \/ Looking!NothingFound
    BY <2>1, GrepStep
  <2>2. CASE \/ Looking!OwnHeader \/ Looking!OwnHeaderWithoutPrefix \/ Looking!FromLibrary
             \/ Looking!FromLibraryOfThisPackage \/ Looking!FromNowhere
    BY <2>2, LookStep
  <2>3. CASE Looking!AllLookedAt \/ UNCHANGED Looking!vars
    <3>1. /\ UNCHANGED Looking!sourceVars /\ UNCHANGED <<found_includes, looked_at, sets, accounted>>
          /\ grep_pc' = grep_pc \/ (grep_pc' = "done" /\ looked_at = Len(found_includes))
          /\ grep_pc' = "grep" => grep_pc = "grep"
      BY <2>3 DEF Looking!AllLookedAt, Looking!vars, Looking!sourceVars, Looking!lookupVars
    <3>2. /\ target' = target /\ Spelled' = Spelled /\ SetsOfLibs' = SetsOfLibs
          /\ \A v : Looking!ProvidersOf(v)' = Looking!ProvidersOf(v)
          /\ \A n : Looking!ForeignUpTo(n)' = Looking!ForeignUpTo(n)
      BY <3>1, LookupsStay
    <3>3. LookTyped'
      BY <3>1, <3>2 DEF LookInv, LookTyped
    <3>4. AccountedFor'
      BY <3>1, <3>2 DEF LookInv, AccountedFor
    <3> QED BY <3>3, <3>4 DEF LookInv
  <2> QED BY <2>1, <2>2, <2>3 DEF Looking!Next
<1> QED BY <1>1, <1>2

(* EveryIncludeIsAccountedFor of SourceIncludes: if removals are allowed,  *)
(* as many sets of libraries were found as includes are no file of the     *)
(* target, and each of them is that of a library for its include.          *)
THEOREM IncludesAreAccountedFor ==
  ASSUME Looking!TargetsAssumption PROVE Looking!Spec => []Looking!EveryIncludeIsAccountedFor
<1>1. \A s : Looking!Cardinality(s) = Cardinality(s)
  BY DEF Looking!Cardinality, Cardinality
<1>2. LookInv => Looking!EveryIncludeIsAccountedFor
  BY <1>1 DEF LookInv, LookTyped, AccountedFor, Looking!EveryIncludeIsAccountedFor
<1> QED BY <1>2, LookInductive, PTL DEF Looking!Spec

-----------------------------------------------------------------------------
(* The third part: the includes of ordinary lines are found.  What a place *)
(* of the text is to the expression and what it is to a preprocessor.      *)

QuotesUpTo(n) == {k \in 1..n : text[k] = Looking!Quote}
DirectivesUpTo(n) == {c \in Looking!Directives : c <= n}
\* A directive the expression recognizes.
IsUsual(b) ==
  Looking!IsDirective(b) /\ Looking!WordOf(b) \in Accepted /\ Looking!QuoteOf(b) > Looking!IncludeOf(b) + 1

LEMMA AtomsDiffer ==
  /\ Looking!NewLine # Looking!Quote /\ Looking!NewLine # Looking!Hash /\ Looking!NewLine # "include"
  /\ Looking!NewLine # Looking!Space
  /\ Looking!Space # Looking!Quote /\ Looking!Space # Looking!Hash /\ Looking!Space # "include"
  /\ Looking!Quote # Looking!Hash /\ Looking!Quote # "include" /\ Looking!Hash # "include"
BY Zenon DEF Looking!NewLine, Looking!Quote, Looking!Hash, Looking!Space

LEMMA AtIs ==
  ASSUME text \in Seq(STRING), NEW A, NEW k \in Int
  PROVE  Looking!At(k, A) <=> k >= 1 /\ k <= Len(text) /\ text[k] \in A
<1>1. DOMAIN text = 1..Len(text) /\ Len(text) \in Nat
  OBVIOUS
<1> QED BY <1>1 DEF Looking!At

LEMMA Skips ==
  ASSUME text \in Seq(STRING), NEW A, NEW n \in Nat \ {0}
  PROVE  /\ Looking!Skip(n, A) \in Nat /\ n <= Looking!Skip(n, A) /\ ~Looking!At(Looking!Skip(n, A), A)
         /\ \A l \in n..(Looking!Skip(n, A) - 1) : Looking!At(l, A)
<1> DEFINE P(k) == ~Looking!At(k, A) /\ \A l \in n..(k - 1) : Looking!At(l, A)
           T == {k \in n..(Len(text) + n) : ~Looking!At(k, A)}
<1>1. Len(text) \in Nat
  OBVIOUS
<1>2. ~Looking!At(Len(text) + n, A)
  BY <1>1, AtIs
<1>3. T \subseteq Nat /\ Len(text) + n \in T
  BY <1>1, <1>2
<1>4. PICK k \in T : \A l \in T : k <= l
  BY <1>3, LeastNatural
<1>5. k \in n..(Len(text) + n) /\ P(k)
  <2>1. ASSUME NEW l \in n..(k - 1) PROVE Looking!At(l, A)
    <3>1. l \notin T
      BY <1>1, <1>4
    <3>2. l \in n..(Len(text) + n)
      BY <1>1, <1>4
    <3> QED BY <3>1, <3>2
  <2> QED BY <1>4, <2>1
<1> HIDE DEF P
<1>6. Looking!Skip(n, A) = CHOOSE l \in n..(Len(text) + n) : P(l)
  BY Zenon DEF P, Looking!Skip
<1>7. Looking!Skip(n, A) \in n..(Len(text) + n) /\ P(Looking!Skip(n, A))
  BY <1>5, <1>6
<1> QED BY <1>1, <1>7 DEF P

LEMMA SkipIs ==
  ASSUME text \in Seq(STRING), NEW A, NEW n \in Nat \ {0}, NEW k \in Nat, n <= k,
         ~Looking!At(k, A), \A l \in n..(k - 1) : Looking!At(l, A)
  PROVE  Looking!Skip(n, A) = k
<1> DEFINE s == Looking!Skip(n, A)
<1>1. s \in Nat /\ n <= s /\ ~Looking!At(s, A) /\ \A l \in n..(s - 1) : Looking!At(l, A)
  BY Skips
<1> HIDE DEF s
<1>2. ~(s < k) /\ ~(k < s)
  BY <1>1
<1>3. s = k
  BY <1>1, <1>2
<1> QED BY <1>3 DEF s

\* A directive, place by place.
LEMMA DirectiveParts ==
  ASSUME Looking!TextsAssumption, text \in Texts, NEW b \in Looking!LineBegins, Looking!IsDirective(b)
  PROVE  /\ b \in Nat \ {0} /\ Looking!HashOf(b) \in Nat /\ Looking!IncludeOf(b) \in Nat /\ Looking!QuoteOf(b) \in Nat
         /\ b <= Looking!HashOf(b) /\ Looking!HashOf(b) < Looking!IncludeOf(b)
         /\ Looking!IncludeOf(b) < Looking!QuoteOf(b) /\ Looking!QuoteOf(b) + 2 <= Len(text)
         /\ text[Looking!HashOf(b)] = Looking!Hash /\ text[Looking!IncludeOf(b)] = "include"
         /\ text[Looking!QuoteOf(b)] = Looking!Quote /\ text[Looking!QuoteOf(b) + 2] = Looking!Quote
         /\ Looking!WordOf(b) = text[Looking!QuoteOf(b) + 1]
         /\ text[Looking!QuoteOf(b) + 1] \in Words
         /\ \A l \in b..(Looking!QuoteOf(b) - 1) :
              l = Looking!HashOf(b) \/ l = Looking!IncludeOf(b) \/ text[l] = Looking!Space
<1> DEFINE h == Looking!HashOf(b)
           n == Looking!IncludeOf(b)
           q == Looking!QuoteOf(b)
<1>1. text \in Seq(STRING)
  BY DEF Looking!TextsAssumption
<1>2. b \in Nat \ {0}
  BY <1>1 DEF Looking!LineBegins
<1>3. /\ Looking!At(h, {Looking!Hash}) /\ Looking!At(n, {"include"})
      /\ Looking!At(q, {Looking!Quote}) /\ Looking!At(q + 1, Words) /\ Looking!At(q + 2, {Looking!Quote})
  BY Zenon DEF Looking!IsDirective
<1>4. h \in Nat /\ b <= h /\ \A l \in b..(h - 1) : Looking!At(l, {Looking!Space})
  BY <1>1, <1>2, Skips DEF Looking!HashOf
<1>5. n \in Nat /\ h + 1 <= n /\ \A l \in (h + 1)..(n - 1) : Looking!At(l, {Looking!Space})
  <2>1. h + 1 \in Nat \ {0}
    BY <1>4
  <2>2. n = Looking!Skip(h + 1, {Looking!Space})
    BY DEF Looking!IncludeOf
  <2> HIDE DEF h, n
  <2> QED BY <1>1, <2>1, <2>2, Skips
<1>6. q \in Nat /\ n + 1 <= q /\ \A l \in (n + 1)..(q - 1) : Looking!At(l, {Looking!Space})
  <2>1. n + 1 \in Nat \ {0}
    BY <1>5
  <2>2. q = Looking!Skip(n + 1, {Looking!Space})
    BY DEF Looking!QuoteOf
  <2> HIDE DEF n, q
  <2> QED BY <1>1, <2>1, <2>2, Skips
<1>7. Looking!WordOf(b) = text[q + 1]
  BY DEF Looking!WordOf
<1> HIDE DEF h, n, q
<1>8. Len(text) \in Nat
  BY <1>1
<1>9. /\ text[h] = Looking!Hash /\ text[n] = "include" /\ text[q] = Looking!Quote
      /\ text[q + 1] \in Words /\ text[q + 2] = Looking!Quote /\ q + 2 <= Len(text)
  BY <1>1, <1>3, <1>4, <1>5, <1>6, <1>8, AtIs
<1>10. \A l \in b..(q - 1) : l = h \/ l = n \/ text[l] = Looking!Space
  <2> SUFFICES ASSUME NEW l \in b..(q - 1), l # h, l # n PROVE text[l] = Looking!Space
    OBVIOUS
  <2>1. Looking!At(l, {Looking!Space})
    <3>1. l \in b..(h - 1) \/ l \in (h + 1)..(n - 1) \/ l \in (n + 1)..(q - 1)
      BY <1>2, <1>4, <1>5, <1>6
    <3> QED BY <1>4, <1>5, <1>6, <3>1
  <2>2. l \in Int
    BY <1>2
  <2> QED BY <1>1, <2>1, <2>2, AtIs
<1>11. b <= h /\ h < n /\ n < q
  BY <1>4, <1>5, <1>6
<1>12. h \in Nat /\ n \in Nat /\ q \in Nat
  BY <1>4, <1>5, <1>6
<1> QED BY <1>2, <1>7, <1>9, <1>10, <1>11, <1>12 DEF h, n, q

\* No line begins within a directive, nor right behind it.
LEMMA DirectiveInLine ==
  ASSUME Looking!TextsAssumption, text \in Texts, NEW b \in Looking!LineBegins, Looking!IsDirective(b),
         NEW c \in Looking!LineBegins, b <= c, c <= Looking!QuoteOf(b) + 3
  PROVE  c = b
<1> DEFINE h == Looking!HashOf(b)
           n == Looking!IncludeOf(b)
           q == Looking!QuoteOf(b)
<1>1. /\ b \in Nat \ {0} /\ h \in Nat /\ n \in Nat /\ q \in Nat
      /\ text[h] = Looking!Hash /\ text[n] = "include"
      /\ text[q] = Looking!Quote /\ text[q + 2] = Looking!Quote /\ text[q + 1] \in Words
      /\ \A l \in b..(q - 1) : l = h \/ l = n \/ text[l] = Looking!Space
  BY DirectiveParts
<1> HIDE DEF h, n, q
<1>2. Looking!NewLine \notin Words
  BY DEF Looking!TextsAssumption
<1>3. \A l \in b..(q + 2) : text[l] # Looking!NewLine
  <2> SUFFICES ASSUME NEW l \in b..(q + 2) PROVE text[l] # Looking!NewLine
    OBVIOUS
  <2>1. l \in b..(q - 1) \/ l = q \/ l = q + 1 \/ l = q + 2
    BY <1>1
  <2> QED BY <1>1, <1>2, <2>1, AtomsDiffer
<1>4. c <= q + 3
  BY DEF q
<1>5. c = 1 \/ (c \in Nat /\ text[c - 1] = Looking!NewLine)
  <2>1. text \in Seq(STRING)
    BY DEF Looking!TextsAssumption
  <2> QED BY <2>1 DEF Looking!LineBegins
<1>6. CASE c = 1
  BY <1>1, <1>6
<1>7. CASE c # 1 /\ c # b
  <2>1. c - 1 \in b..(q + 2)
    BY <1>1, <1>4, <1>5, <1>7
  <2> QED BY <1>3, <1>5, <1>7, <2>1
<1> QED BY <1>6, <1>7

\* Before the quote of a directive there is none in its line.
LEMMA DirectiveHasNoQuotes ==
  ASSUME Looking!TextsAssumption, text \in Texts, NEW b \in Looking!LineBegins, Looking!IsDirective(b),
         NEW l \in b..(Looking!QuoteOf(b) - 1)
  PROVE  text[l] # Looking!Quote
<1>1. text[l] = Looking!Hash \/ text[l] = "include" \/ text[l] = Looking!Space
  BY DirectiveParts
<1> QED BY <1>1, AtomsDiffer

\* What the expression takes for an include, place by place.
LEMMA IncludeParts ==
  ASSUME text \in Seq(STRING), NEW m \in Nat \ {0}, NEW w \in Looking!IncludeFrom(m)
  PROVE  \E n \in Nat :
           LET h == Looking!Skip(m, Looking!Blank) IN
           /\ h \in Nat /\ w \in Nat /\ m <= h /\ h < n /\ n + 2 < w /\ w + 1 <= Len(text)
           /\ text[h] = Looking!Hash /\ text[n] = "include" /\ text[w - 1] = Looking!Quote
           /\ text[w] \in Accepted /\ text[w + 1] = Looking!Quote
           /\ \A l \in m..(h - 1) : text[l] \in Looking!Blank
           /\ \A l \in (h + 1)..(n - 1) : text[l] \in Looking!Blank
           /\ \A l \in (n + 1)..(w - 2) : text[l] \in Looking!Blank
<1> DEFINE h == Looking!Skip(m, Looking!Blank)
           n == Looking!Skip(h + 1, Looking!Blank)
           q == Looking!Skip(n + 1, Looking!Blank)
<1>1. /\ w = q + 1 /\ Looking!At(h, {Looking!Hash}) /\ Looking!At(n, {"include"}) /\ q > n + 1
      /\ Looking!At(q, {Looking!Quote}) /\ Looking!At(w, Accepted) /\ Looking!At(w + 1, {Looking!Quote})
  BY Zenon DEF Looking!IncludeFrom
<1>2. h \in Nat /\ m <= h /\ \A l \in m..(h - 1) : Looking!At(l, Looking!Blank)
  BY Skips
<1>3. n \in Nat /\ h + 1 <= n /\ \A l \in (h + 1)..(n - 1) : Looking!At(l, Looking!Blank)
  <2>1. h + 1 \in Nat \ {0}
    BY <1>2
  <2> HIDE DEF h
  <2> QED BY <2>1, Skips
<1>4. q \in Nat /\ n + 1 <= q /\ \A l \in (n + 1)..(q - 1) : Looking!At(l, Looking!Blank)
  <2>1. n + 1 \in Nat \ {0}
    BY <1>3
  <2> HIDE DEF n
  <2> QED BY <2>1, Skips
<1> HIDE DEF h, n, q
<1>5. /\ text[h] = Looking!Hash /\ text[n] = "include" /\ text[w - 1] = Looking!Quote
      /\ text[w] \in Accepted /\ text[w + 1] = Looking!Quote /\ w + 1 <= Len(text)
  <2>1. h \in Int /\ n \in Int /\ q \in Int /\ w \in Int /\ w + 1 \in Int /\ w - 1 = q
    BY <1>1, <1>2, <1>3, <1>4
  <2> QED BY <1>1, <2>1, AtIs
<1>6. /\ \A l \in m..(h - 1) : text[l] \in Looking!Blank
      /\ \A l \in (h + 1)..(n - 1) : text[l] \in Looking!Blank
      /\ \A l \in (n + 1)..(w - 2) : text[l] \in Looking!Blank
  <2>1. w - 2 = q - 1 /\ q \in Nat
    BY <1>1, <1>4
  <2>2. \A l \in Int : Looking!At(l, Looking!Blank) => text[l] \in Looking!Blank
    BY AtIs
  <2>3. \A l \in m..(h - 1) : text[l] \in Looking!Blank
    BY <1>2, <2>2
  <2>4. \A l \in (h + 1)..(n - 1) : text[l] \in Looking!Blank
    BY <1>2, <1>3, <2>2
  <2>5. \A l \in (n + 1)..(q - 1) : text[l] \in Looking!Blank
    BY <1>3, <1>4, <2>2
  <2> QED BY <2>1, <2>3, <2>4, <2>5
<1>7. h \in Nat /\ w \in Nat /\ m <= h /\ h < n /\ n + 2 < w
  BY <1>1, <1>2, <1>3, <1>4
<1>8. n \in Nat
  BY <1>3
<1> QED BY <1>5, <1>6, <1>7, <1>8 DEF h

\* A usual directive is a match for the expression unless it begins before the rest.
LEMMA UsualMatches ==
  ASSUME Looking!TextsAssumption, text \in Texts, rest \in Nat \ {0},
         NEW b \in Looking!LineBegins, IsUsual(b), rest <= b
  PROVE  b \in Looking!Matches
<1> DEFINE h == Looking!HashOf(b)
           n == Looking!IncludeOf(b)
           q == Looking!QuoteOf(b)
<1>0. text \in Seq(STRING)
  BY DEF Looking!TextsAssumption
<1>1. Looking!IsDirective(b) /\ Looking!WordOf(b) \in Accepted /\ q > n + 1
  BY DEF IsUsual
<1>2. /\ b \in Nat \ {0} /\ h \in Nat /\ n \in Nat /\ q \in Nat
      /\ b <= h /\ h < n /\ n < q /\ q + 2 <= Len(text)
      /\ text[h] = Looking!Hash /\ text[n] = "include"
      /\ text[q] = Looking!Quote /\ text[q + 2] = Looking!Quote
      /\ Looking!WordOf(b) = text[q + 1]
      /\ \A l \in b..(q - 1) : l = h \/ l = n \/ text[l] = Looking!Space
  BY <1>1, DirectiveParts
<1> HIDE DEF h, n, q
<1>3. /\ Looking!At(h, {Looking!Hash}) /\ Looking!At(n, {"include"})
      /\ Looking!At(q, {Looking!Quote}) /\ Looking!At(q + 1, Accepted) /\ Looking!At(q + 2, {Looking!Quote})
  BY <1>0, <1>1, <1>2, AtIs
<1>4. \A l \in b..(q - 1) : l = h \/ l = n \/ Looking!At(l, Looking!Blank)
  <2> SUFFICES ASSUME NEW l \in b..(q - 1), l # h, l # n PROVE Looking!At(l, Looking!Blank)
    OBVIOUS
  <2>1. text[l] \in Looking!Blank
    BY <1>2 DEF Looking!Blank
  <2>2. l \in Int /\ l >= 1 /\ l <= Len(text)
    BY <1>0, <1>2
  <2> QED BY <1>0, <2>1, <2>2, AtIs
<1>5. ~Looking!At(h, Looking!Blank) /\ ~Looking!At(n, Looking!Blank) /\ ~Looking!At(q, Looking!Blank)
  <2>1. text[h] \notin Looking!Blank /\ text[n] \notin Looking!Blank /\ text[q] \notin Looking!Blank
    BY <1>2, AtomsDiffer DEF Looking!Blank
  <2> QED BY <1>0, <1>2, <2>1, AtIs
<1>6. Looking!Skip(b, Looking!Blank) = h
  <2>1. \A l \in b..(h - 1) : Looking!At(l, Looking!Blank)
    BY <1>2, <1>4
  <2> QED BY <1>0, <1>2, <1>5, <2>1, SkipIs
<1>7. Looking!Skip(h + 1, Looking!Blank) = n
  <2>1. \A l \in (h + 1)..(n - 1) : Looking!At(l, Looking!Blank)
    BY <1>2, <1>4
  <2>2. h + 1 \in Nat \ {0} /\ h + 1 <= n
    BY <1>2
  <2> QED BY <1>0, <1>2, <1>5, <2>1, <2>2, SkipIs
<1>8. Looking!Skip(n + 1, Looking!Blank) = q
  <2>1. \A l \in (n + 1)..(q - 1) : Looking!At(l, Looking!Blank)
    BY <1>2, <1>4
  <2>2. n + 1 \in Nat \ {0} /\ n + 1 <= q
    BY <1>2
  <2> QED BY <1>0, <1>2, <1>5, <2>1, <2>2, SkipIs
<1>9. b = rest \/ Looking!At(b - 1, {Looking!NewLine})
  <2>1. b = 1 \/ b - 1 \in {k \in DOMAIN text : text[k] = Looking!NewLine}
    BY <1>0 DEF Looking!LineBegins
  <2>2. CASE b = 1
    BY <2>2
  <2>3. CASE b - 1 \in {k \in DOMAIN text : text[k] = Looking!NewLine}
    BY <2>3 DEF Looking!At
  <2> QED BY <2>1, <2>2, <2>3
<1>10. q + 1 \in Looking!IncludeFrom(b)
  <2>1. Looking!At((q + 1) + 1, {Looking!Quote})
    BY <1>2, <1>3
  <2> QED BY <1>1, <1>3, <1>6, <1>7, <1>8, <1>9, <2>1, Zenon DEF Looking!IncludeFrom
<1>11. b \in rest..Len(text)
  BY <1>0, <1>2
<1> QED BY <1>10, <1>11 DEF Looking!Matches

\* Each place is in a line.
LEMMA LineOf ==
  ASSUME text \in Seq(STRING), NEW k \in Nat \ {0}
  PROVE  \E c \in Looking!LineBegins : c <= k /\ \A d \in Looking!LineBegins : d <= k => d <= c
<1> DEFINE T == {c \in Looking!LineBegins : c <= k}
<1>1. T \subseteq Int /\ 1 \in T
  BY DEF Looking!LineBegins
<1>2. PICK c \in T : \A d \in T : d <= c
  <2>1. \A c \in T : c <= k
    OBVIOUS
  <2>2. T # {} /\ k \in Int
    BY <1>1
  <2> HIDE DEF T
  <2> QED BY <1>1, <2>1, <2>2, GreatestOf
<1> QED BY <1>2

\* Without another line begin in between all is one line.
LEMMA WithinLine ==
  ASSUME text \in Seq(STRING), NEW c \in Looking!LineBegins, NEW k \in c..Len(text),
         \A d \in Looking!LineBegins : d <= k => d <= c
  PROVE  \A l \in c..(k - 1) : text[l] # Looking!NewLine
<1> SUFFICES ASSUME NEW l \in c..(k - 1), text[l] = Looking!NewLine PROVE FALSE
  OBVIOUS
<1>1. c \in Nat \ {0}
  BY DEF Looking!LineBegins
<1>2. l \in DOMAIN text
  BY <1>1
<1>3. l + 1 \in Looking!LineBegins
  BY <1>2 DEF Looking!LineBegins
<1> QED BY <1>1, <1>3

\* In an ordinary line the expression finds the directive and nothing else.
LEMMA IncludeIs ==
  ASSUME Looking!TextsAssumption, text \in Texts, NEW m \in Nat \ {0}, NEW w \in Looking!IncludeFrom(m),
         NEW c \in Looking!LineBegins, Looking!IsOrdinary(c), c <= Looking!Skip(m, Looking!Blank),
         \A d \in Looking!LineBegins : d <= Looking!Skip(m, Looking!Blank) => d <= c
  PROVE  IsUsual(c) /\ Looking!HashOf(c) = Looking!Skip(m, Looking!Blank) /\ w = Looking!QuoteOf(c) + 1
<1> DEFINE h == Looking!Skip(m, Looking!Blank)
           nn == Looking!IncludeOf(c)
           qq == Looking!QuoteOf(c)
<1>0. text \in Seq(STRING)
  BY DEF Looking!TextsAssumption
<1>1. PICK n \in Nat :
        /\ h \in Nat /\ w \in Nat /\ m <= h /\ h < n /\ n + 2 < w /\ w + 1 <= Len(text)
        /\ text[h] = Looking!Hash /\ text[n] = "include" /\ text[w - 1] = Looking!Quote
        /\ \A l \in (h + 1)..(n - 1) : text[l] \in Looking!Blank
        /\ \A l \in (n + 1)..(w - 2) : text[l] \in Looking!Blank
  BY <1>0, IncludeParts
<1>2. c \in Nat \ {0} /\ Len(text) \in Nat
  BY <1>0 DEF Looking!LineBegins
<1>3. h \in c..Len(text) /\ c <= h /\ \A d \in Looking!LineBegins : d <= h => d <= c
  BY <1>1, <1>2
<1> HIDE DEF h
<1>4. h \in Looking!Line(c)
  <2>1. \A l \in c..(h - 1) : text[l] # Looking!NewLine
    BY <1>0, <1>3, WithinLine
  <2>2. text[h] # Looking!NewLine
    BY <1>1, AtomsDiffer
  <2>3. \A l \in c..h : text[l] # Looking!NewLine
    <3> TAKE l \in c..h
    <3>1. l = h \/ l \in c..(h - 1)
      BY <1>1, <1>2
    <3> QED BY <2>1, <2>2, <3>1
  <2> QED BY <1>3, <2>3 DEF Looking!Line
<1>5. h = Looking!HashOf(c) /\ IsUsual(c)
  <2>1. h \in Looking!Within(Looking!Line(c), Looking!Hash)
    BY <1>1, <1>4 DEF Looking!Within
  <2> QED BY <2>1, Zenon DEF Looking!IsOrdinary, IsUsual
<1>6. /\ nn \in Nat /\ qq \in Nat /\ h < nn /\ nn < qq
      /\ text[nn] = "include" /\ text[qq] = Looking!Quote
      /\ \A l \in c..(qq - 1) : l = h \/ l = nn \/ text[l] = Looking!Space
  BY <1>5, DirectiveParts DEF IsUsual
<1> HIDE DEF nn, qq
<1>7. n = nn
  <2>1. ~(n < nn)
    <3> SUFFICES ASSUME n < nn PROVE FALSE
      OBVIOUS
    <3>1. n \in c..(qq - 1) /\ n # h /\ n # nn
      BY <1>1, <1>3, <1>6, <1>2
    <3> QED BY <1>1, <1>6, <3>1, AtomsDiffer
  <2>2. ~(nn < n)
    <3> SUFFICES ASSUME nn < n PROVE FALSE
      OBVIOUS
    <3>1. nn \in (h + 1)..(n - 1)
      BY <1>1, <1>6
    <3> QED BY <1>1, <1>6, <3>1, AtomsDiffer DEF Looking!Blank
  <2> QED BY <1>1, <1>6, <2>1, <2>2
<1>8. w - 1 = qq
  <2>1. ~(w - 1 < qq)
    <3> SUFFICES ASSUME w - 1 < qq PROVE FALSE
      OBVIOUS
    <3>1. w - 1 \in c..(qq - 1) /\ w - 1 # h /\ w - 1 # nn
      BY <1>1, <1>2, <1>3, <1>6, <1>7
    <3> QED BY <1>1, <1>6, <3>1, AtomsDiffer
  <2>2. ~(qq < w - 1)
    <3> SUFFICES ASSUME qq < w - 1 PROVE FALSE
      OBVIOUS
    <3>1. qq \in (n + 1)..(w - 2)
      BY <1>1, <1>6, <1>7
    <3> QED BY <1>1, <1>6, <3>1, AtomsDiffer DEF Looking!Blank
  <2> QED BY <1>1, <1>6, <2>1, <2>2
<1>9. w = qq + 1
  BY <1>1, <1>6, <1>8
<1> QED BY <1>5, <1>9 DEF h, qq

LEMMA QuotesFinite ==
  ASSUME NEW n \in Int
  PROVE  IsFiniteSet(QuotesUpTo(n)) /\ Cardinality(QuotesUpTo(n)) \in Nat
<1>1. IsFiniteSet(1..n) /\ QuotesUpTo(n) \subseteq 1..n
  BY FS_Interval DEF QuotesUpTo
<1> QED BY <1>1, FS_Subset, FS_CardinalityType

\* Only ordinary lines in front of a line: as many quotes open as close.
LEMMA QuotesInPairs ==
  ASSUME text \in Seq(STRING), NEW e \in Looking!LineBegins,
         \A d \in Looking!LineBegins : d < e => Looking!IsOrdinary(d)
  PROVE  Cardinality(QuotesUpTo(e - 1)) % 2 = 0
<1> DEFINE Even(c) == Cardinality(QuotesUpTo(c - 1)) % 2 = 0
           S == {n \in Nat : \A c \in Looking!LineBegins : c <= n /\ c <= e => Even(c)}
<1>0. Looking!LineBegins \subseteq Nat \ {0} /\ Len(text) \in Nat
  BY DEF Looking!LineBegins
<1> HIDE DEF Even
<1>1. 0 \in S
  BY <1>0
<1>2. ASSUME NEW n \in Nat, n \in S PROVE n + 1 \in S
  <2> SUFFICES ASSUME NEW c \in Looking!LineBegins, c = n + 1, c <= e PROVE Even(c)
    BY <1>0, <1>2
  <2>1. CASE c = 1
    <3>1. QuotesUpTo(c - 1) = {}
      BY <2>1 DEF QuotesUpTo
    <3> QED BY <3>1, FS_EmptySet DEF Even
  <2>2. CASE c # 1
    <3>1. c - 1 \in Nat \ {0} /\ c - 1 = n
      BY <1>0, <2>2
    <3>2. PICK d \in Looking!LineBegins : d <= n /\ \A f \in Looking!LineBegins : f <= n => f <= d
      BY <3>1, LineOf
    <3>3. d \in Nat \ {0} /\ d < c /\ d < e /\ d <= e
      BY <1>0, <3>1, <3>2
    <3>4. Even(d)
      BY <1>2, <3>2, <3>3
    <3>5. Looking!IsOrdinary(d)
      BY <3>3
    <3>6. n \in DOMAIN text /\ text[n] = Looking!NewLine
      BY <2>2, <3>1 DEF Looking!LineBegins
    <3>7. n \in d..Len(text)
      BY <3>2, <3>3, <3>6
    <3>8. \A l \in d..(n - 1) : text[l] # Looking!NewLine
      BY <3>2, <3>7, WithinLine
    <3>9. Looking!Within(Looking!Line(d), Looking!Quote) = QuotesUpTo(n) \ QuotesUpTo(d - 1)
      <4>1. ASSUME NEW k \in Looking!Line(d), text[k] = Looking!Quote
            PROVE  k \in 1..n /\ k \notin 1..(d - 1)
        <5>1. k \in d..Len(text) /\ \A l \in d..k : text[l] # Looking!NewLine
          BY DEF Looking!Line
        <5>2. ~(n <= k)
          BY <3>3, <3>6, <3>7, <5>1
        <5> QED BY <3>3, <5>1, <5>2
      <4>2. ASSUME NEW k \in 1..n, text[k] = Looking!Quote, k \notin 1..(d - 1)
            PROVE  k \in Looking!Line(d)
        <5>1. k \in d..n /\ k \in d..Len(text)
          BY <3>3, <3>6, <1>0, <4>2
        <5>2. k # n
          BY <3>6, <4>2, AtomsDiffer
        <5>3. \A l \in d..k : l \in d..(n - 1)
          BY <3>3, <5>1, <5>2
        <5> QED BY <3>8, <5>1, <5>3 DEF Looking!Line
      <4> QED BY <4>1, <4>2 DEF Looking!Within, QuotesUpTo
    <3>10. Cardinality(QuotesUpTo(n) \ QuotesUpTo(d - 1)) % 2 = 0
      <4>1. \A s : Looking!Cardinality(s) = Cardinality(s)
        BY DEF Looking!Cardinality, Cardinality
      <4> QED BY <3>5, <3>9, <4>1, Zenon DEF Looking!IsOrdinary
    <3>11. QuotesUpTo(d - 1) \subseteq QuotesUpTo(n)
      BY <3>1, <3>2, <3>3 DEF QuotesUpTo
    <3>12. /\ IsFiniteSet(QuotesUpTo(n)) /\ Cardinality(QuotesUpTo(n)) \in Nat
           /\ IsFiniteSet(QuotesUpTo(d - 1)) /\ Cardinality(QuotesUpTo(d - 1)) \in Nat
      <4>1. n \in Int /\ d - 1 \in Int
        BY <3>3
      <4> QED BY <4>1, QuotesFinite
    <3>13. Cardinality(QuotesUpTo(n) \ QuotesUpTo(d - 1)) = Cardinality(QuotesUpTo(n)) - Cardinality(QuotesUpTo(d - 1))
      <4>1. QuotesUpTo(n) \cap QuotesUpTo(d - 1) = QuotesUpTo(d - 1)
        BY <3>11
      <4> QED BY <3>12, <4>1, FS_Difference
    <3>14. Cardinality(QuotesUpTo(d - 1)) % 2 = 0
      BY <3>4 DEF Even
    <3>15. Cardinality(QuotesUpTo(n)) % 2 = 0
      <4> DEFINE x == Cardinality(QuotesUpTo(n))
                 y == Cardinality(QuotesUpTo(d - 1))
      <4>1. x \in Nat /\ y \in Nat /\ (x - y) % 2 = 0 /\ y % 2 = 0
        BY <3>10, <3>12, <3>13, <3>14
      <4> HIDE DEF x, y
      <4>2. x % 2 = 0
        BY <4>1
      <4> QED BY <4>2 DEF x
    <3> QED BY <3>1, <3>15 DEF Even
  <2> QED BY <2>1, <2>2
<1>3. Nat \subseteq S
  <2> HIDE DEF S
  <2> QED BY <1>1, <1>2, AllNaturals
<1>4. e \in Nat
  BY <1>0
<1>5. Even(e)
  <2>1. e \in S
    BY ONLY <1>3, <1>4
  <2>2. e <= e
    BY ONLY <1>4
  <2> QED BY ONLY <2>1, <2>2, e \in Looking!LineBegins
<1> QED BY <1>5 DEF Even

\* A directive in an ordinary line is a usual one.
LEMMA OrdinaryIsUsual ==
  ASSUME Looking!TextsAssumption, text \in Texts, NEW b \in Looking!LineBegins,
         Looking!IsDirective(b), Looking!IsOrdinary(b)
  PROVE  IsUsual(b)
<1> DEFINE h == Looking!HashOf(b)
           q == Looking!QuoteOf(b)
<1>1. /\ b \in Nat \ {0} /\ h \in Nat /\ q \in Nat /\ b <= h /\ h < q /\ q + 2 <= Len(text)
      /\ text[h] = Looking!Hash
  BY DirectiveParts
<1>2. \A l \in b..h : text[l] # Looking!NewLine
  <2>1. \A l \in b..(q - 1) : l = h \/ l = Looking!IncludeOf(b) \/ text[l] = Looking!Space
    BY DirectiveParts
  <2>2. text[Looking!IncludeOf(b)] = "include"
    BY DirectiveParts
  <2> HIDE DEF h, q
  <2>3. \A l \in b..h : l \in b..(q - 1)
    BY <1>1
  <2> QED BY <1>1, <2>1, <2>2, <2>3, AtomsDiffer
<1> HIDE DEF q
<1>3. h \in b..Len(text)
  <2>1. Len(text) \in Nat
    BY DEF Looking!TextsAssumption
  <2> HIDE DEF h
  <2> QED BY <1>1, <2>1
<1>4. h \in Looking!Within(Looking!Line(b), Looking!Hash)
  BY <1>1, <1>2, <1>3 DEF Looking!Within, Looking!Line
<1> QED BY <1>4, Zenon DEF Looking!IsOrdinary, IsUsual

LEMMA FirstIs ==
  ASSUME rest \in Nat \ {0}, Looking!Matches # {}
  PROVE  /\ Looking!First(Looking!Matches) \in Looking!Matches
         /\ \A k \in Looking!Matches : Looking!First(Looking!Matches) <= k
<1>1. Looking!Matches \subseteq Nat
  BY DEF Looking!Matches
<1>2. PICK k \in Looking!Matches : \A l \in Looking!Matches : k <= l
  BY <1>1, LeastNatural
<1> QED BY <1>2, Zenon DEF Looking!First

\* The next match is not behind the next directive that is to be found.
LEMMA NonePassedOver ==
  ASSUME Looking!TextsAssumption, text \in Texts, rest \in Nat \ {0},
         NEW b \in Looking!Directives, Looking!OrdinaryUpTo(b), rest <= b
  PROVE  IsUsual(b) /\ Looking!Matches # {} /\ Looking!First(Looking!Matches) <= b
<1>1. b \in Looking!LineBegins /\ Looking!IsDirective(b)
  BY DEF Looking!Directives
<1>2. b \in Nat
  BY <1>1, DirectiveParts
<1>3. Looking!IsOrdinary(b)
  BY <1>1, <1>2 DEF Looking!OrdinaryUpTo
<1>4. IsUsual(b)
  BY <1>1, <1>3, OrdinaryIsUsual
<1>5. b \in Looking!Matches
  BY <1>1, <1>4, UsualMatches
<1> QED BY <1>4, <1>5, FirstIs

\* Nor does an include in the rest of the text begin behind its line.
LEMMA NoneBeforeTheFirst ==
  ASSUME Looking!TextsAssumption, text \in Texts, rest \in Nat \ {0}, Looking!Matches # {},
         NEW w \in Looking!IncludeFrom(Looking!First(Looking!Matches)),
         NEW c \in Looking!LineBegins, c <= Looking!Skip(Looking!First(Looking!Matches), Looking!Blank),
         NEW b \in Looking!Directives, Looking!OrdinaryUpTo(b), rest <= b
  PROVE  c <= b
<1> DEFINE m == Looking!First(Looking!Matches)
           h == Looking!Skip(m, Looking!Blank)
           g == Looking!HashOf(b)
<1>0. text \in Seq(STRING)
  BY DEF Looking!TextsAssumption
<1>1. m \in Nat \ {0}
  BY FirstIs DEF Looking!Matches
<1>2. m <= b
  BY NonePassedOver
<1>3. b \in Looking!LineBegins /\ Looking!IsDirective(b)
  BY DEF Looking!Directives
<1>4. b \in Nat /\ g \in Nat /\ b <= g /\ g <= Looking!QuoteOf(b) + 3 /\ text[g] = Looking!Hash
  BY <1>3, DirectiveParts
<1>5. h \in Nat /\ \A l \in m..(h - 1) : text[l] \in Looking!Blank
  BY <1>0, <1>1, IncludeParts
<1>6. c <= h /\ c \in Nat
  BY <1>0 DEF Looking!LineBegins
<1> HIDE DEF m, h, g
<1>7. text[g] \notin Looking!Blank
  BY <1>4, AtomsDiffer DEF Looking!Blank
<1>8. g \notin m..(h - 1)
  BY <1>5, <1>7
<1>9. h <= g
  BY <1>1, <1>2, <1>4, <1>5, <1>8
<1>10. CASE b <= c
  <2>1. Looking!QuoteOf(b) \in Nat
    BY <1>3, DirectiveParts
  <2>2. c <= Looking!QuoteOf(b) + 3
    BY <1>4, <1>5, <1>6, <1>9, <2>1
  <2>3. c = b
    BY <1>3, <1>10, <2>2, DirectiveInLine
  <2> QED BY <1>4, <2>3
<1> QED BY <1>4, <1>6, <1>10

LEMMA NoMoreQuotes ==
  ASSUME NEW r \in Nat \ {0}, NEW m \in Nat, r <= m, \A l \in r..(m - 1) : text[l] # Looking!Quote
  PROVE  QuotesUpTo(m - 1) = QuotesUpTo(r - 1)
<1>1. \A k \in 1..(m - 1) : k \in 1..(r - 1) \/ k \in r..(m - 1)
  OBVIOUS
<1>2. \A k \in 1..(r - 1) : k \in 1..(m - 1)
  OBVIOUS
<1> QED BY <1>1, <1>2 DEF QuotesUpTo

LEMMA OneMoreQuote ==
  ASSUME NEW r \in Nat \ {0}, NEW m \in Nat, r <= m, \A l \in r..(m - 1) : text[l] # Looking!Quote,
         text[m] = Looking!Quote
  PROVE  Cardinality(QuotesUpTo(m)) = Cardinality(QuotesUpTo(r - 1)) + 1
<1>1. QuotesUpTo(m) = QuotesUpTo(m - 1) \cup {m} /\ m \notin QuotesUpTo(m - 1)
  <2>1. 1..m = 1..(m - 1) \cup {m} /\ m \notin 1..(m - 1)
    OBVIOUS
  <2> QED BY <2>1 DEF QuotesUpTo
<1>2. QuotesUpTo(m - 1) = QuotesUpTo(r - 1)
  BY NoMoreQuotes
<1>3. r - 1 \in Int
  OBVIOUS
<1>4. IsFiniteSet(QuotesUpTo(r - 1))
  BY <1>3, QuotesFinite
<1>5. Cardinality(QuotesUpTo(r - 1) \cup {m}) = Cardinality(QuotesUpTo(r - 1)) + 1
  BY <1>1, <1>2, <1>4, FS_AddElement
<1> QED BY <1>1, <1>2, <1>5

LEMMA DirectivesFinite ==
  ASSUME text \in Seq(STRING), NEW n \in Int
  PROVE  /\ IsFiniteSet(DirectivesUpTo(n)) /\ Cardinality(DirectivesUpTo(n)) \in Nat
         /\ \A b \in DirectivesUpTo(n) : 1 <= Cardinality(DirectivesUpTo(n))
<1>1. DirectivesUpTo(n) \subseteq 1..n /\ IsFiniteSet(1..n)
  <2>1. Looking!LineBegins \subseteq Nat \ {0}
    BY DEF Looking!LineBegins
  <2>2. Looking!Directives \subseteq Nat \ {0}
    BY <2>1 DEF Looking!Directives
  <2>3. \A b \in DirectivesUpTo(n) : b \in Nat \ {0} /\ b <= n
    BY <2>2 DEF DirectivesUpTo
  <2>4. 1 \in Int
    OBVIOUS
  <2> QED BY <2>3, <2>4, FS_Interval
<1>2. IsFiniteSet(DirectivesUpTo(n)) /\ Cardinality(DirectivesUpTo(n)) \in Nat
  BY <1>1, FS_Subset, FS_CardinalityType
<1>3. ASSUME NEW b \in DirectivesUpTo(n) PROVE Cardinality(DirectivesUpTo(n)) # 0
  BY <1>2, FS_EmptySet
<1> QED BY <1>2, <1>3

IsPlace(r) == r \in 1..(Len(text) + 1) /\ (r = 1 \/ text[r - 1] = Looking!Quote)
QuotesAreCounted(r, open_quote) == open_quote <=> Cardinality(QuotesUpTo(r - 1)) % 2 = 1
\* The directives before r in ordinary lines are found, and if all are ordinary, nothing else.
AreFound(r, list) ==
  /\ \A b \in Looking!Directives : b < r /\ Looking!OrdinaryUpTo(b) =>
       /\ Cardinality(DirectivesUpTo(b)) <= Len(list)
       /\ list[Cardinality(DirectivesUpTo(b))] = Looking!WordOf(b)
  /\ (\A c \in Looking!LineBegins : c < r => Looking!IsOrdinary(c)) =>
       Len(list) = Cardinality(DirectivesUpTo(r - 1))
GrepInv ==
  /\ text \in Texts /\ grep_pc \in {"grep", "look", "done"}
  /\ in_quotes \in BOOLEAN /\ found_includes \in Seq(Accepted)
  /\ IsPlace(rest) /\ QuotesAreCounted(rest, in_quotes) /\ AreFound(rest, found_includes)
  /\ grep_pc # "grep" => Looking!Matches = {}

\* The expression finds a quote.
LEMMA AfterQuote ==
  ASSUME Looking!TextsAssumption, GrepInv, Looking!Matches # {},
         Looking!At(Looking!First(Looking!Matches), {Looking!Quote})
  PROVE  /\ IsPlace(Looking!First(Looking!Matches) + 1)
         /\ QuotesAreCounted(Looking!First(Looking!Matches) + 1, ~in_quotes)
         /\ AreFound(Looking!First(Looking!Matches) + 1, found_includes)
<1> DEFINE m == Looking!First(Looking!Matches)
<1>0. text \in Texts /\ text \in Seq(STRING) /\ Len(text) \in Nat
  BY DEF Looking!TextsAssumption, GrepInv
<1>1. rest \in Nat \ {0} /\ rest \in 1..(Len(text) + 1)
  BY <1>0 DEF GrepInv, IsPlace
<1>2. m \in Looking!Matches /\ \A k \in Looking!Matches : m <= k
  BY <1>1, FirstIs
<1>3. m \in rest..Len(text) /\ text[m] = Looking!Quote
  BY <1>2 DEF Looking!Matches, Looking!At
<1>4. m \in Nat \ {0} /\ rest <= m /\ m <= Len(text)
  BY <1>0, <1>1, <1>3
<1>5. \A l \in rest..(m - 1) : text[l] # Looking!Quote
  <2> SUFFICES ASSUME NEW l \in rest..(m - 1), text[l] = Looking!Quote PROVE FALSE
    OBVIOUS
  <2>1. l \in rest..Len(text) /\ ~(m <= l)
    BY <1>0, <1>1, <1>4
  <2>2. l \in Looking!Matches
    BY <2>1 DEF Looking!Matches
  <2> QED BY <1>2, <2>1, <2>2
<1>6. ASSUME NEW b \in Looking!Directives, Looking!OrdinaryUpTo(b), b < m + 1
      PROVE  b < rest
  <2> SUFFICES ASSUME rest <= b PROVE FALSE
    <3>1. b \in Nat
      BY <1>0 DEF Looking!Directives, Looking!LineBegins
    <3> QED BY <1>1, <3>1
  <2>1. m <= b
    BY <1>0, <1>1, <1>6, NonePassedOver
  <2>2. b \in Looking!LineBegins /\ Looking!IsDirective(b)
    BY DEF Looking!Directives
  <2>3. b \in Nat /\ Looking!HashOf(b) \in Nat /\ Looking!QuoteOf(b) \in Nat /\ b < Looking!QuoteOf(b)
    BY <1>0, <2>2, DirectiveParts
  <2>4. b = m
    BY <1>4, <1>6, <2>1, <2>3
  <2>5. b \in b..(Looking!QuoteOf(b) - 1)
    BY <2>3
  <2>6. text[b] # Looking!Quote
    BY <1>0, <2>2, <2>5, DirectiveHasNoQuotes
  <2> QED BY <1>3, <2>4, <2>6
<1> HIDE DEF m
<1>7. IsPlace(m + 1)
  BY <1>0, <1>3, <1>4 DEF IsPlace
<1>8. QuotesAreCounted(m + 1, ~in_quotes)
  <2>1. Cardinality(QuotesUpTo(m)) = Cardinality(QuotesUpTo(rest - 1)) + 1
    BY <1>1, <1>3, <1>4, <1>5, OneMoreQuote
  <2>2. rest - 1 \in Int /\ (m + 1) - 1 = m
    BY <1>1, <1>4
  <2>3. Cardinality(QuotesUpTo(rest - 1)) \in Nat
    BY <2>2, QuotesFinite
  <2>4. in_quotes \in BOOLEAN /\ (in_quotes <=> Cardinality(QuotesUpTo(rest - 1)) % 2 = 1)
    BY DEF GrepInv, QuotesAreCounted
  <2>5. Cardinality(QuotesUpTo(rest - 1)) % 2 = 1 <=> ~(Cardinality(QuotesUpTo(m)) % 2 = 1)
    <3> DEFINE x == Cardinality(QuotesUpTo(rest - 1))
    <3>1. x \in Nat /\ Cardinality(QuotesUpTo(m)) = x + 1
      BY <2>1, <2>3
    <3> HIDE DEF x
    <3>2. x % 2 = 1 <=> ~((x + 1) % 2 = 1)
      BY <3>1
    <3> QED BY <3>1, <3>2 DEF x
  <2> QED BY <2>2, <2>4, <2>5 DEF QuotesAreCounted
<1>9. AreFound(m + 1, found_includes)
  <2>1. \A b \in Looking!Directives : b < m + 1 /\ Looking!OrdinaryUpTo(b) =>
          /\ Cardinality(DirectivesUpTo(b)) <= Len(found_includes)
          /\ found_includes[Cardinality(DirectivesUpTo(b))] = Looking!WordOf(b)
    BY <1>6 DEF GrepInv, AreFound
  <2>2. ASSUME \A c \in Looking!LineBegins : c < m + 1 => Looking!IsOrdinary(c)
        PROVE  Len(found_includes) = Cardinality(DirectivesUpTo((m + 1) - 1))
    <3>0. Looking!LineBegins \subseteq Nat /\ Looking!Directives \subseteq Looking!LineBegins
      BY <1>0 DEF Looking!LineBegins, Looking!Directives
    <3>1. \A c \in Looking!LineBegins : c < rest => Looking!IsOrdinary(c)
      BY <1>1, <1>4, <2>2, <3>0
    <3>2. Len(found_includes) = Cardinality(DirectivesUpTo(rest - 1))
      BY <3>1 DEF GrepInv, AreFound
    <3>3. ASSUME NEW b \in Looking!Directives, b <= m PROVE b <= rest - 1
      <4>1. b \in Nat /\ b < m + 1
        BY <1>4, <3>0, <3>3
      <4>2. Looking!OrdinaryUpTo(b)
        BY <1>4, <2>2, <3>0, <4>1 DEF Looking!OrdinaryUpTo
      <4> QED BY <1>1, <1>6, <4>1, <4>2
    <3>4. \A b \in Looking!Directives : b <= rest - 1 => b <= m
      BY <1>1, <1>4, <3>0
    <3>5. DirectivesUpTo(m) = DirectivesUpTo(rest - 1)
      BY <3>3, <3>4 DEF DirectivesUpTo
    <3>6. (m + 1) - 1 = m
      BY <1>4
    <3> QED BY <3>2, <3>5, <3>6
  <2> QED BY <2>1, <2>2 DEF AreFound
<1> QED BY <1>7, <1>8, <1>9 DEF m

\* The expression finds an include.
LEMMA AfterInclude ==
  ASSUME Looking!TextsAssumption, GrepInv, Looking!Matches # {},
         NEW w \in Looking!IncludeFrom(Looking!First(Looking!Matches)), NEW list,
         list = IF in_quotes THEN found_includes ELSE Append(found_includes, text[w])
  PROVE  /\ IsPlace(w + 2) /\ QuotesAreCounted(w + 2, in_quotes) /\ AreFound(w + 2, list)
         /\ list \in Seq(Accepted)
<1> DEFINE m == Looking!First(Looking!Matches)
           h == Looking!Skip(m, Looking!Blank)
<1>0. text \in Texts /\ text \in Seq(STRING) /\ Len(text) \in Nat
  BY DEF Looking!TextsAssumption, GrepInv
<1>1. /\ rest \in Nat \ {0} /\ rest \in 1..(Len(text) + 1) /\ (rest = 1 \/ text[rest - 1] = Looking!Quote)
      /\ in_quotes \in BOOLEAN /\ found_includes \in Seq(Accepted)
  BY <1>0 DEF GrepInv, IsPlace
<1>2. m \in Looking!Matches /\ \A k \in Looking!Matches : m <= k
  BY <1>1, FirstIs
<1>3. m \in Nat \ {0} /\ rest <= m /\ m <= Len(text)
  BY <1>0, <1>1, <1>2 DEF Looking!Matches
<1>4. PICK n \in Nat :
        /\ h \in Nat /\ w \in Nat /\ m <= h /\ h < n /\ n + 2 < w /\ w + 1 <= Len(text)
        /\ text[h] = Looking!Hash /\ text[n] = "include" /\ text[w - 1] = Looking!Quote
        /\ text[w] \in Accepted /\ text[w + 1] = Looking!Quote
        /\ \A l \in m..(h - 1) : text[l] \in Looking!Blank
        /\ \A l \in (h + 1)..(n - 1) : text[l] \in Looking!Blank
        /\ \A l \in (n + 1)..(w - 2) : text[l] \in Looking!Blank
  BY <1>0, <1>3, IncludeParts
<1>5. \A l \in rest..(w - 2) : text[l] # Looking!Quote
  <2> SUFFICES ASSUME NEW l \in rest..(w - 2), text[l] = Looking!Quote PROVE FALSE
    OBVIOUS
  <2>1. CASE l < m
    <3>1. l \in rest..Len(text) /\ ~(m <= l)
      BY <1>0, <1>1, <1>3, <2>1
    <3>2. l \in Looking!Matches
      BY <3>1 DEF Looking!Matches
    <3> QED BY <1>2, <3>1, <3>2
  <2>2. CASE m <= l
    <3> HIDE DEF h, m
    <3>1. l = h \/ l = n \/ l \in m..(h - 1) \/ l \in (h + 1)..(n - 1) \/ l \in (n + 1)..(w - 2)
      BY <1>1, <1>3, <1>4, <2>2
    <3>2. Looking!Quote \notin Looking!Blank
      BY AtomsDiffer DEF Looking!Blank
    <3> QED BY <1>4, <3>1, <3>2, AtomsDiffer
  <2> QED BY <1>1, <1>3, <2>1, <2>2
<1>6. text[w] # Looking!Quote
  BY <1>4 DEF Looking!TextsAssumption
<1>7. PICK c \in Looking!LineBegins : c <= h /\ \A d \in Looking!LineBegins : d <= h => d <= c
  <2>1. h \in Nat \ {0}
    BY <1>3, <1>4
  <2> HIDE DEF h
  <2> QED BY <1>0, <2>1, LineOf
<1>8. Looking!LineBegins \subseteq Nat \ {0} /\ Looking!Directives \subseteq Looking!LineBegins
  BY <1>0 DEF Looking!LineBegins, Looking!Directives
<1>9. \A b \in Looking!Directives : Looking!OrdinaryUpTo(b) /\ rest <= b => c <= b
  BY <1>0, <1>1, <1>7, NoneBeforeTheFirst
<1>10. ASSUME Looking!OrdinaryUpTo(c)
       PROVE  /\ c \in Looking!Directives /\ Looking!WordOf(c) = text[w] /\ rest <= c /\ ~in_quotes
              /\ \A d \in Looking!LineBegins : d < w + 2 => d <= c
  <2>1. Looking!IsOrdinary(c)
    BY <1>8, <1>10 DEF Looking!OrdinaryUpTo
  <2>2. IsUsual(c) /\ Looking!HashOf(c) = h /\ w = Looking!QuoteOf(c) + 1
    BY <1>0, <1>3, <1>7, <2>1, IncludeIs
  <2>3. Looking!IsDirective(c)
    BY <2>2 DEF IsUsual
  <2>4. /\ Looking!QuoteOf(c) \in Nat /\ Looking!WordOf(c) = text[Looking!QuoteOf(c) + 1]
        /\ h < Looking!QuoteOf(c)
    <3>1. /\ Looking!QuoteOf(c) \in Nat /\ Looking!IncludeOf(c) \in Nat /\ Looking!HashOf(c) \in Nat
          /\ Looking!WordOf(c) = text[Looking!QuoteOf(c) + 1]
          /\ Looking!HashOf(c) < Looking!IncludeOf(c) /\ Looking!IncludeOf(c) < Looking!QuoteOf(c)
      BY <1>0, <2>3, DirectiveParts
    <3>2. Looking!HashOf(c) < Looking!QuoteOf(c)
      BY <3>1
    <3> QED BY <2>2, <3>1, <3>2
  <2> HIDE DEF h, m
  <2>5. rest <= c
    <3> SUFFICES ASSUME c < rest PROVE FALSE
      BY <1>1, <1>8
    <3>1. rest - 1 \in c..(Looking!QuoteOf(c) - 1) /\ rest # 1
      BY <1>1, <1>3, <1>4, <1>8, <2>4
    <3> QED BY <1>0, <1>1, <2>3, <3>1, DirectiveHasNoQuotes
  <2>6. c - 1 \in Nat /\ c <= w - 2
    BY <1>4, <1>7, <1>8
  <2>7. QuotesUpTo(c - 1) = QuotesUpTo(rest - 1)
    <3>1. \A l \in rest..(c - 1) : text[l] # Looking!Quote
      BY <1>1, <1>4, <1>5, <1>8, <2>6
    <3>2. c \in Nat
      BY <1>8
    <3> QED BY <1>1, <2>5, <3>1, <3>2, NoMoreQuotes
  <2>8. Cardinality(QuotesUpTo(c - 1)) % 2 = 0
    <3>1. \A d \in Looking!LineBegins : d < c => Looking!IsOrdinary(d)
      BY <1>8, <1>10 DEF Looking!OrdinaryUpTo
    <3> QED BY <1>0, <3>1, QuotesInPairs
  <2>9. ~in_quotes
    BY <2>7, <2>8 DEF GrepInv, QuotesAreCounted
  <2>10. \A d \in Looking!LineBegins : d < w + 2 => d <= c
    <3> SUFFICES ASSUME NEW d \in Looking!LineBegins, d < w + 2, c <= d PROVE d = c
      BY <1>8
    <3>1. d <= Looking!QuoteOf(c) + 3
      BY <1>4, <1>8, <2>2, <2>4
    <3> QED BY <1>0, <2>3, <3>1, DirectiveInLine
  <2>11. c \in Looking!Directives
    BY <2>3 DEF Looking!Directives
  <2> QED BY <2>2, <2>4, <2>5, <2>9, <2>10, <2>11
<1>11. c <= w /\ c \in Nat
  <2> HIDE DEF h, m
  <2> QED BY <1>4, <1>7, <1>8
<1> HIDE DEF h, m
<1>12. rest <= w
  BY <1>1, <1>3, <1>4
<1>13. IsPlace(w + 2)
  <2>1. (w + 2) - 1 = w + 1 /\ w + 2 \in 1..(Len(text) + 1)
    BY <1>0, <1>4
  <2> QED BY <1>4, <2>1 DEF IsPlace
<1>14. QuotesAreCounted(w + 2, in_quotes)
  <2>1. Cardinality(QuotesUpTo(w - 1)) = Cardinality(QuotesUpTo(rest - 1)) + 1
    <3>1. w - 1 \in Nat /\ rest <= w - 1 /\ (w - 1) - 1 = w - 2
      BY <1>1, <1>3, <1>4
    <3> QED BY <1>1, <1>4, <1>5, <3>1, OneMoreQuote
  <2>2. Cardinality(QuotesUpTo(w + 1)) = Cardinality(QuotesUpTo(w - 1)) + 1
    <3>1. w \in Nat \ {0} /\ w + 1 \in Nat /\ w <= w + 1
      BY <1>4
    <3>2. \A l \in w..((w + 1) - 1) : text[l] # Looking!Quote
      BY <1>4, <1>6
    <3> QED BY <1>4, <3>1, <3>2, OneMoreQuote
  <2>3. rest - 1 \in Int /\ (w + 2) - 1 = w + 1
    BY <1>1, <1>4
  <2>4. Cardinality(QuotesUpTo(rest - 1)) \in Nat
    BY <2>3, QuotesFinite
  <2>5. in_quotes <=> Cardinality(QuotesUpTo(rest - 1)) % 2 = 1
    BY DEF GrepInv, QuotesAreCounted
  <2>6. Cardinality(QuotesUpTo(rest - 1)) % 2 = 1 <=> Cardinality(QuotesUpTo(w + 1)) % 2 = 1
    <3> DEFINE x == Cardinality(QuotesUpTo(rest - 1))
    <3>1. x \in Nat /\ Cardinality(QuotesUpTo(w + 1)) = x + 2
      BY <2>1, <2>2, <2>4
    <3> HIDE DEF x
    <3>2. x % 2 = 1 <=> (x + 2) % 2 = 1
      BY <3>1
    <3> QED BY <3>1, <3>2 DEF x
  <2> QED BY <2>3, <2>5, <2>6 DEF QuotesAreCounted
<1>15. list \in Seq(Accepted)
  BY <1>1, <1>4
<1>16. /\ Len(list) \in Nat /\ Len(found_includes) \in Nat /\ Len(found_includes) <= Len(list)
       /\ \A k \in 1..Len(found_includes) : list[k] = found_includes[k]
       /\ ~in_quotes => Len(list) = Len(found_includes) + 1 /\ list[Len(list)] = text[w]
  BY <1>1, <1>4
<1>17. \A b \in Looking!Directives : b < rest /\ Looking!OrdinaryUpTo(b) =>
         /\ Cardinality(DirectivesUpTo(b)) <= Len(list)
         /\ list[Cardinality(DirectivesUpTo(b))] = Looking!WordOf(b)
  <2> SUFFICES ASSUME NEW b \in Looking!Directives, b < rest, Looking!OrdinaryUpTo(b)
               PROVE  /\ Cardinality(DirectivesUpTo(b)) <= Len(list)
                      /\ list[Cardinality(DirectivesUpTo(b))] = Looking!WordOf(b)
    OBVIOUS
  <2>1. /\ Cardinality(DirectivesUpTo(b)) <= Len(found_includes)
        /\ found_includes[Cardinality(DirectivesUpTo(b))] = Looking!WordOf(b)
    BY DEF GrepInv, AreFound
  <2>2. b \in Int /\ b \in DirectivesUpTo(b)
    BY <1>8 DEF DirectivesUpTo
  <2>3. Cardinality(DirectivesUpTo(b)) \in Nat /\ 1 <= Cardinality(DirectivesUpTo(b))
    BY <1>0, <2>2, DirectivesFinite
  <2> QED BY <1>16, <2>1, <2>3
<1>18. CASE ~Looking!OrdinaryUpTo(c)
  <2>1. ASSUME NEW b \in Looking!Directives, Looking!OrdinaryUpTo(b) PROVE b < rest
    <3>1. b \in Nat
      BY <1>8
    <3>2. ~(c <= b)
      BY <1>8, <1>11, <1>18, <2>1, <3>1 DEF Looking!OrdinaryUpTo
    <3> QED BY <1>1, <1>9, <2>1, <3>1, <3>2
  <2>2. PICK d \in Looking!LineBegins : d <= c /\ ~Looking!IsOrdinary(d)
    BY <1>18 DEF Looking!OrdinaryUpTo
  <2>3. d < w + 2
    BY <1>4, <1>8, <1>11, <2>2
  <2> QED BY <1>13, <1>14, <1>15, <1>17, <2>1, <2>2, <2>3 DEF AreFound
<1>19. CASE Looking!OrdinaryUpTo(c)
  <2>1. /\ c \in Looking!Directives /\ Looking!WordOf(c) = text[w] /\ rest <= c /\ ~in_quotes
        /\ \A d \in Looking!LineBegins : d < w + 2 => d <= c
    BY <1>10, <1>19
  <2>2. Len(found_includes) = Cardinality(DirectivesUpTo(rest - 1))
    <3>1. \A d \in Looking!LineBegins : d < rest => Looking!IsOrdinary(d)
      BY <1>1, <1>8, <1>19, <2>1 DEF Looking!OrdinaryUpTo
    <3> QED BY <3>1 DEF GrepInv, AreFound
  <2>3. \A b \in Looking!Directives : b <= c => b <= rest - 1 \/ b = c
    <3> SUFFICES ASSUME NEW b \in Looking!Directives, b <= c, rest <= b PROVE b = c
      BY <1>1, <1>8
    <3>1. Looking!OrdinaryUpTo(b)
      BY <1>8, <1>19 DEF Looking!OrdinaryUpTo
    <3>2. b \in Nat /\ c <= b
      BY <1>8, <1>9, <3>1
    <3> QED BY <1>11, <3>2
  <2>4. DirectivesUpTo(c) = DirectivesUpTo(rest - 1) \cup {c} /\ c \notin DirectivesUpTo(rest - 1)
    <3>1. \A b \in Looking!Directives : b <= rest - 1 => b <= c
      BY <1>1, <1>8, <1>11, <2>1
    <3>2. ~(c <= rest - 1) /\ c <= c
      BY <1>1, <1>11, <2>1
    <3> QED BY <2>1, <2>3, <3>1, <3>2 DEF DirectivesUpTo
  <2>5. Cardinality(DirectivesUpTo(c)) = Len(list)
    <3>1. rest - 1 \in Int
      BY <1>1
    <3>2. IsFiniteSet(DirectivesUpTo(rest - 1))
      BY <1>0, <3>1, DirectivesFinite
    <3>3. Cardinality(DirectivesUpTo(rest - 1) \cup {c}) = Cardinality(DirectivesUpTo(rest - 1)) + 1
      BY <2>4, <3>2, FS_AddElement
    <3> QED BY <1>16, <2>1, <2>2, <2>4, <3>3
  <2>6. DirectivesUpTo((w + 2) - 1) = DirectivesUpTo(c)
    <3>1. \A d \in Looking!Directives : d <= (w + 2) - 1 <=> d <= c
      <4> TAKE d \in Looking!Directives
      <4>1. d \in Looking!LineBegins /\ d \in Nat
        BY <1>8
      <4>2. d <= (w + 2) - 1 <=> d < w + 2
        BY <1>4, <4>1
      <4>3. d <= c => d < w + 2
        BY <1>4, <1>11, <4>1
      <4> QED BY <2>1, <4>1, <4>2, <4>3
    <3> QED BY <3>1 DEF DirectivesUpTo
  <2>7. ASSUME NEW b \in Looking!Directives, b < w + 2, Looking!OrdinaryUpTo(b), ~(b < rest) PROVE b = c
    <3>1. b \in Looking!LineBegins /\ b \in Nat
      BY <1>8
    <3>2. b <= c
      BY <2>1, <2>7, <3>1
    <3>3. ~(b <= rest - 1)
      BY <1>1, <2>7, <3>1
    <3> QED BY <2>3, <3>2, <3>3
  <2>8. AreFound(w + 2, list)
    <3>1. \A b \in Looking!Directives : b < w + 2 /\ Looking!OrdinaryUpTo(b) =>
            /\ Cardinality(DirectivesUpTo(b)) <= Len(list)
            /\ list[Cardinality(DirectivesUpTo(b))] = Looking!WordOf(b)
      <4>1. Cardinality(DirectivesUpTo(c)) <= Len(list) /\ list[Cardinality(DirectivesUpTo(c))] = Looking!WordOf(c)
        BY <1>16, <2>1, <2>5
      <4> QED BY <1>17, <2>7, <4>1
    <3>2. Len(list) = Cardinality(DirectivesUpTo((w + 2) - 1))
      BY <2>5, <2>6
    <3> QED BY <3>1, <3>2 DEF AreFound
  <2> QED BY <1>13, <1>14, <1>15, <2>8
<1> QED BY <1>18, <1>19

\* What the text is like is settled by the beginning.
LEMMA TextStays ==
  ASSUME text' = text
  PROVE  /\ \A r : IsPlace(r)' <=> IsPlace(r)
         /\ \A r, q : QuotesAreCounted(r, q)' <=> QuotesAreCounted(r, q)
         /\ \A r, list : AreFound(r, list)' <=> AreFound(r, list)
         /\ rest' = rest => Looking!Matches' = Looking!Matches
<1>1. \A k, atoms : Looking!At(k, atoms)' <=> Looking!At(k, atoms)
  BY DEF Looking!At
<1>2. \A k, atoms : Looking!Skip(k, atoms)' = Looking!Skip(k, atoms)
  BY DEF Looking!Skip, Looking!At
<1>3. \A b : /\ Looking!HashOf(b)' = Looking!HashOf(b) /\ Looking!IncludeOf(b)' = Looking!IncludeOf(b)
             /\ Looking!QuoteOf(b)' = Looking!QuoteOf(b)
  BY DEF Looking!QuoteOf, Looking!IncludeOf, Looking!HashOf, Looking!Skip, Looking!At
<1>4. \A b : Looking!WordOf(b)' = Looking!WordOf(b)
  BY <1>3 DEF Looking!WordOf
<1>5. \A b : Looking!IsDirective(b)' <=> Looking!IsDirective(b)
  BY <1>1, <1>3 DEF Looking!IsDirective
<1>6. Looking!LineBegins' = Looking!LineBegins
  BY DEF Looking!LineBegins
<1>7. Looking!Directives' = Looking!Directives
  BY <1>5, <1>6 DEF Looking!Directives
<1>8. \A b : Looking!IsOrdinary(b)' <=> Looking!IsOrdinary(b)
  <2>1. \A b, atom : Looking!Within(Looking!Line(b), atom)' = Looking!Within(Looking!Line(b), atom)
    BY DEF Looking!Within, Looking!Line
  <2> QED BY <1>3, <1>4, <1>5, <2>1 DEF Looking!IsOrdinary
<1>9. \A b : Looking!OrdinaryUpTo(b)' <=> Looking!OrdinaryUpTo(b)
  BY <1>6, <1>8 DEF Looking!OrdinaryUpTo
<1>10. \A n : DirectivesUpTo(n)' = DirectivesUpTo(n) /\ QuotesUpTo(n)' = QuotesUpTo(n)
  BY <1>7 DEF DirectivesUpTo, QuotesUpTo
<1>11. \A r : IsPlace(r)' <=> IsPlace(r)
  BY DEF IsPlace
<1>12. \A r, q : QuotesAreCounted(r, q)' <=> QuotesAreCounted(r, q)
  BY <1>10 DEF QuotesAreCounted
<1>13. \A r, list : AreFound(r, list)' <=> AreFound(r, list)
  BY <1>4, <1>6, <1>7, <1>8, <1>9, <1>10 DEF AreFound
<1>14. rest' = rest => Looking!Matches' = Looking!Matches
  BY <1>1, <1>2 DEF Looking!Matches, Looking!IncludeFrom
<1> QED BY <1>11, <1>12, <1>13, <1>14

LEMMA GrepInductive ==
  ASSUME Looking!TextsAssumption
  PROVE  /\ Looking!Init => GrepInv
         /\ GrepInv /\ [Looking!Next]_(Looking!vars) => GrepInv'
<1>1. ASSUME Looking!Init PROVE GrepInv
  <2>1. /\ text \in Texts /\ grep_pc = "grep" /\ rest = 1 /\ in_quotes = FALSE /\ found_includes = <<>>
    BY <1>1 DEF Looking!Init
  <2>2. text \in Seq(STRING) /\ Len(text) \in Nat
    BY <2>1 DEF Looking!TextsAssumption
  <2>3. IsPlace(1)
    BY <2>2 DEF IsPlace
  <2>4. QuotesUpTo(1 - 1) = {} /\ DirectivesUpTo(1 - 1) = {}
    <3>1. Looking!Directives \subseteq Nat \ {0}
      BY <2>2 DEF Looking!Directives, Looking!LineBegins
    <3>2. \A b \in Looking!Directives : ~(b <= 1 - 1) /\ ~(b < 1)
      BY <3>1
    <3> QED BY <3>2 DEF QuotesUpTo, DirectivesUpTo
  <2>5. Cardinality({}) = 0
    BY FS_EmptySet
  <2>6. QuotesAreCounted(1, FALSE)
    BY <2>4, <2>5 DEF QuotesAreCounted
  <2>7. AreFound(1, <<>>)
    <3>1. Looking!Directives \subseteq Nat \ {0}
      BY <2>2 DEF Looking!Directives, Looking!LineBegins
    <3>2. \A b \in Looking!Directives : ~(b < 1)
      BY <3>1
    <3> QED BY <2>4, <2>5, <3>2 DEF AreFound
  <2>8. IsPlace(rest) /\ QuotesAreCounted(rest, in_quotes) /\ AreFound(rest, found_includes)
    BY <2>1, <2>3, <2>6, <2>7, Zenon
  <2>9. found_includes \in Seq(Accepted)
    BY <2>1
  <2>10. in_quotes \in BOOLEAN
    BY <2>1, Zenon
  <2> QED BY <2>1, <2>8, <2>9, <2>10 DEF GrepInv
<1>2. ASSUME GrepInv, [Looking!Next]_(Looking!vars) PROVE GrepInv'
  <2>0. in_quotes \in BOOLEAN /\ text \in Texts /\ rest \in Nat \ {0}
    BY <1>2 DEF GrepInv, IsPlace, Looking!TextsAssumption
  <2>1. CASE Looking!FindQuote
    <3>1. /\ grep_pc = "grep" /\ grep_pc' = grep_pc /\ Looking!Matches # {} /\ text' = text
          /\ Looking!At(Looking!First(Looking!Matches), {Looking!Quote})
          /\ in_quotes' = (~in_quotes) /\ found_includes' = found_includes
          /\ rest' = Looking!First(Looking!Matches) + 1
      BY <2>1 DEF Looking!FindQuote, Looking!Toggled, Looking!sourceVars
    <3>2. IsPlace(rest') /\ QuotesAreCounted(rest', in_quotes') /\ AreFound(rest', found_includes')
      BY <1>2, <3>1, AfterQuote
    <3>3. IsPlace(rest)' /\ QuotesAreCounted(rest, in_quotes)' /\ AreFound(rest, found_includes)'
      BY <3>1, <3>2, TextStays
    <3> QED BY <1>2, <2>0, <3>1, <3>3 DEF GrepInv
  <2>2. CASE Looking!FindInclude
    <3>1. /\ grep_pc = "grep" /\ grep_pc' = grep_pc /\ Looking!Matches # {} /\ text' = text
          /\ in_quotes' = in_quotes
      BY <2>2 DEF Looking!FindInclude, Looking!sourceVars
    <3>2. PICK w \in Looking!IncludeFrom(Looking!First(Looking!Matches)) :
            /\ found_includes' = (IF in_quotes THEN found_includes ELSE Append(found_includes, text[w]))
            /\ rest' = w + 2
      BY <2>2 DEF Looking!FindInclude
    <3>3. /\ IsPlace(rest') /\ QuotesAreCounted(rest', in_quotes') /\ AreFound(rest', found_includes')
          /\ found_includes' \in Seq(Accepted)
      BY <1>2, <3>1, <3>2, AfterInclude
    <3>4. IsPlace(rest)' /\ QuotesAreCounted(rest, in_quotes)' /\ AreFound(rest, found_includes)'
      BY <3>1, <3>3, TextStays
    <3> QED BY <2>0, <3>1, <3>3, <3>4 DEF GrepInv
  <2>3. ASSUME ~Looking!FindQuote, ~Looking!FindInclude PROVE GrepInv'
    <3>1. /\ UNCHANGED <<text, rest, in_quotes, found_includes>>
          /\ grep_pc' \in {"grep", "look", "done"}
          /\ grep_pc' # "grep" => Looking!Matches = {}
      BY <1>2, <2>3
      DEF GrepInv, Looking!Next, Looking!vars, Looking!NothingFound, Looking!OwnHeader,
          Looking!OwnHeaderWithoutPrefix, Looking!FromLibrary, Looking!FromLibraryOfThisPackage,
          Looking!FromNowhere, Looking!AllLookedAt, Looking!NextInclude, Looking!sourceVars
    <3>2. IsPlace(rest)' /\ QuotesAreCounted(rest, in_quotes)' /\ AreFound(rest, found_includes)'
      BY <1>2, <3>1, TextStays DEF GrepInv
    <3>3. Looking!Matches' = Looking!Matches
      BY <3>1, TextStays
    <3> QED BY <1>2, <2>0, <3>1, <3>2, <3>3 DEF GrepInv
  <2> QED BY <2>1, <2>2, <2>3
<1> QED BY <1>1, <1>2

(* OrdinaryIncludesAreFound of SourceIncludes: once nothing more is found  *)
(* the includes are those of the lines a preprocessor takes for directives *)
(* and in their order, as far as the lines up to them are ordinary, and no *)
(* others if all lines are; the loop in ExtractCCIncludes().               *)
THEOREM OrdinaryIncludesFound ==
  ASSUME Looking!TextsAssumption PROVE Looking!Spec => []Looking!OrdinaryIncludesAreFound
<1>1. \A s : Looking!Cardinality(s) = Cardinality(s)
  BY DEF Looking!Cardinality, Cardinality
<1>2. ASSUME GrepInv PROVE Looking!OrdinaryIncludesAreFound
  <2> SUFFICES ASSUME grep_pc = "look"
               PROVE  /\ \A b \in Looking!Directives : Looking!OrdinaryUpTo(b) =>
                           /\ Cardinality(DirectivesUpTo(b)) <= Len(found_includes)
                           /\ found_includes[Cardinality(DirectivesUpTo(b))] = Looking!WordOf(b)
                      /\ (\A b \in Looking!LineBegins : Looking!IsOrdinary(b)) =>
                           Len(found_includes) = Cardinality(Looking!Directives)
    BY <1>1 DEF Looking!OrdinaryIncludesAreFound, DirectivesUpTo
  <2>1. text \in Texts /\ rest \in Nat \ {0} /\ Looking!Matches = {} /\ AreFound(rest, found_includes)
    BY <1>2 DEF GrepInv, IsPlace, Looking!TextsAssumption
  <2>2. Looking!Directives \subseteq Looking!LineBegins /\ Looking!LineBegins \subseteq Nat
    BY <2>1 DEF Looking!Directives, Looking!LineBegins, Looking!TextsAssumption
  <2>3. \A b \in Looking!Directives : Looking!OrdinaryUpTo(b) => b < rest
    <3> SUFFICES ASSUME NEW b \in Looking!Directives, Looking!OrdinaryUpTo(b), rest <= b PROVE FALSE
      BY <2>1, <2>2
    <3> QED BY <2>1, NonePassedOver
  <2>4. ASSUME \A b \in Looking!LineBegins : Looking!IsOrdinary(b)
        PROVE  Len(found_includes) = Cardinality(Looking!Directives)
    <3>1. Len(found_includes) = Cardinality(DirectivesUpTo(rest - 1))
      BY <2>1, <2>4 DEF AreFound
    <3>2. \A b \in Looking!Directives : b <= rest - 1
      BY <2>1, <2>2, <2>3, <2>4 DEF Looking!OrdinaryUpTo
    <3>3. DirectivesUpTo(rest - 1) = Looking!Directives
      BY <3>2 DEF DirectivesUpTo
    <3> QED BY <3>1, <3>3
  <2> QED BY <2>1, <2>3, <2>4 DEF AreFound
<1> QED BY <1>2, GrepInductive, PTL DEF Looking!Spec
=============================================================================
