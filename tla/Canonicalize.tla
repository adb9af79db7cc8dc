----------------------------- MODULE Canonicalize -----------------------------
(***************************************************************************)
(* bant canonicalize (bant/tool/canon-targets.cc): the labels in the deps  *)
(* of a target are written in the shortest form.  The edits are commands   *)
(* for buildozer (bant/tool/edit-callback.cc), which rewrites the file;    *)
(* then the user runs the tool again.                                      *)
(***************************************************************************)
EXTENDS BazelTarget, FiniteSets

CONSTANTS
  Lists,      \* records [package, deps]: a package and the deps of a target of it
  Self,       \* name of that target
  Runs        \* bound: how often the tool is run

VARIABLES
  current_package,
  deps,       \* the labels as the BUILD file has them
  pos,        \* the dependency looked at next
  edits,      \* commands written, not yet executed
  runs,       \* how often the tool came to its end
  first_read  \* ghost: what the labels were read as in the beginning

canonVars == <<current_package, deps, pos, edits, runs, first_read>>

(* What is written as a dependency has a name: "//foo:" has none.          *)
ASSUME ListsAssumption ==
  \A l \in Lists :
    /\ IsPackage(l.package) /\ l.deps \in Seq(Text)
    /\ \A i \in DOMAIN l.deps :
         LET t == ParseFrom(l.deps[i], l.package) IN
         NamesRepository(l.deps[i]) /\ (t = Rejected \/ t.target_name # <<>>)

self == Target(current_package, Self)

(* CreateBuildozerDepsEditCallback() *)
BuildozerCommand(edit, rule, before, after) ==
  [command |-> CASE edit = "kRemove" -> <<"remove deps", before>>
                 [] edit = "kAdd"    -> <<"add deps", after>>
                 [] edit = "kRename" -> <<"replace deps", before, after>>,
   target  |-> ToString(rule)]

CanonInit ==
  /\ \E l \in Lists : current_package = l.package /\ deps = l.deps
  /\ first_read = [i \in DOMAIN deps |-> ParseFrom(deps[i], current_package)]
  /\ pos = 1 /\ edits = <<>> /\ runs = 0

CheckDependency ==
  /\ pos <= Len(deps) /\ runs < Runs
  /\ pos' = pos + 1
  /\ LET dep_target == ParseFrom(deps[pos], current_package)
         canonical == ToStringRelativeTo(dep_target, current_package)
     IN IF dep_target = Rejected \/ deps[pos] = canonical THEN UNCHANGED edits
        ELSE edits' = Append(edits, BuildozerCommand("kRename", self, deps[pos], canonical))
  /\ UNCHANGED <<current_package, deps, runs, first_read>>

Finished == pos > Len(deps)

(* buildozer replaces what is written like the first label. *)
Replaced(list, command) == [i \in DOMAIN list |-> IF list[i] = command[2] THEN command[3] ELSE list[i]]
Execute ==
  /\ Finished /\ edits # <<>>
  /\ deps' = Replaced(deps, Head(edits).command)
  /\ edits' = Tail(edits)
  /\ pos' = Len(deps) + 1
  /\ UNCHANGED <<current_package, runs, first_read>>

RunAgain ==
  /\ Finished /\ edits = <<>> /\ runs < Runs
  /\ pos' = 1 /\ runs' = runs + 1
  /\ UNCHANGED <<current_package, deps, edits, first_read>>

CanonNext == CheckDependency \/ Execute \/ RunAgain
CanonSpec == CanonInit /\ [][CanonNext]_canonVars

-----------------------------------------------------------------------------
(* Whatever was edited so far, a label is read as the target it was read   *)
(* as in the beginning, or rejected as it was.                             *)
MeaningIsKept ==
  \A i \in DOMAIN deps : ParseFrom(deps[i], current_package) = first_read[i]

(* One run is enough: the one after the edits finds nothing to edit, and   *)
(* two spellings of a target have become one.                              *)
CanonicalizingSettles ==
  runs > 0 =>
    /\ edits = <<>>
    /\ \A i, j \in DOMAIN deps : (first_read[i] = first_read[j] /\ first_read[i] # Rejected) => deps[i] = deps[j]
=============================================================================
