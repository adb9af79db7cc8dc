---------------------------- MODULE TargetFinder ----------------------------
(***************************************************************************)
(* Finding the targets of a file (bant/explore/query-utils.cc): a visitor  *)
(* over the elaborated tree that reports each call of a rule with its      *)
(* attributes.  Attributes of one type are treated alike, so a few of them *)
(* stand for all.                                                          *)
(***************************************************************************)
EXTENDS Elaboration

CONSTANTS
  RulesOfInterest,  \* the rules asked for; all of them, if empty
  AllowEmptyName

VARIABLES
  searched,  \* how many statements the finder has walked over
  finder     \* its fields: relevancy, current, package default visibility, reports

finderVars == <<elaborationVars, searched, finder>>

ScalarAttributes == {"name", "include_prefix"}
BoolAttributes == {"alwayslink", "testonly"}
ListAttributes == {"hdrs", "deps", "outs", "visibility"}

(* A pointer to a list of the tree: none, or the one it points to, which   *)
(* may have no elements.                                                   *)
None == {}
The(list) == {list}

Empty == [a \in ListAttributes |-> None]
         @@ [a \in BoolAttributes |-> FALSE] @@ [a \in ScalarAttributes |-> ""]
Fresh(rule) == [rule |-> rule, attribute |-> Empty]

NewFinder == [relevancy |-> "none", current |-> Fresh(""), default_visibility |-> None,
              reported |-> <<>>]

IsRelevant(name) ==
  IF name = "package" THEN "package"
  ELSE IF RulesOfInterest = {} \/ name \in RulesOfInterest THEN "user" ELSE "none"

ExtractPackageInfo(a, f) ==
  IF a.sub[1].text = "default_visibility" /\ IsList(a.sub[2])
  THEN [f EXCEPT !.default_visibility = The(a.sub[2])] ELSE f

ExtractQueryInfo(a, f) ==
  LET lhs == a.sub[1].text
      v   == a.sub[2]
      Set(x) == [f EXCEPT !.current.attribute[lhs] = x]
  IN CASE IsScalar(v) /\ lhs \in ScalarAttributes -> Set(v.text)
       [] IsScalar(v) /\ lhs \in BoolAttributes -> Set(v.kind = "num" /\ v.text # "0")
       [] v.kind = "id" /\ lhs \in BoolAttributes -> Set(v.text = "True")
       [] IsList(v) /\ lhs \in ListAttributes -> Set(The(v))
       [] OTHER -> f

InformCaller(f) ==
  LET at == f.current.attribute
      linked == at.alwayslink \/ (f.current.rule = "cc_library" /\ \A list \in at.hdrs : list.sub = <<>>)
      visibility == IF at.visibility = None THEN f.default_visibility ELSE at.visibility
  IN IF at.name = "" /\ ~AllowEmptyName THEN f
     ELSE [f EXCEPT !.current.attribute.alwayslink = linked,
                    !.current.attribute.visibility = visibility,
                    !.reported = Append(@, [f.current EXCEPT !.attribute.alwayslink = linked,
                                                             !.attribute.visibility = visibility])]

RECURSIVE Walk(_, _), WalkAll(_, _)
WalkAll(nodes, f) == IF nodes = <<>> THEN f ELSE WalkAll(Tail(nodes), Walk(Head(nodes), f))

\* Mutant: what the last target had stays.
VisitFunCallStale(call, f) ==
  LET rule == CalledName(call)
      w == WalkAll(Arguments(call), [f EXCEPT !.relevancy = IsRelevant(rule), !.current.rule = rule])
  IN CASE f.relevancy # "none" -> WalkAll(call.sub, f)
       [] f.relevancy = "none" /\ IsRelevant(rule) = "none" -> f
       [] OTHER -> [IF w.relevancy = "user" THEN InformCaller(w) ELSE w EXCEPT !.relevancy = "none"]
VisitFunCall(call, f) ==
  LET rule == CalledName(call)
      w == WalkAll(Arguments(call), [f EXCEPT !.relevancy = IsRelevant(rule), !.current = Fresh(rule)])
  IN CASE f.relevancy # "none" -> WalkAll(call.sub, f)  \* Nesting.
       [] f.relevancy = "none" /\ IsRelevant(rule) = "none" -> f
       [] OTHER -> [IF w.relevancy = "user" THEN InformCaller(w) ELSE w EXCEPT !.relevancy = "none"]

(* Walks into whatever is no assignment or call. *)
Walk(n, f) ==
  CASE n.kind = "call" -> VisitFunCall(n, f)
    [] Identified(n) /\ n.sub[2] # Nil ->
         CASE f.relevancy = "package" -> ExtractPackageInfo(n, f)
           [] f.relevancy = "user" -> ExtractQueryInfo(n, f)
           [] OTHER -> f
    [] n.kind = "=" /\ ~(Identified(n) /\ n.sub[2] # Nil) -> f
    [] OTHER -> WalkAll(n.sub, f)
-----------------------------------------------------------------------------
FinderInit == ElaborationInit /\ searched = 0 /\ finder = NewFinder

ElaborateTheFile == ElaborationNext /\ UNCHANGED <<searched, finder>>

Elaborated == statements # <<>> /\ ~crashed /\ Len(elaborated) = Len(statements)

FindTargets ==
  /\ Elaborated /\ searched < Len(elaborated)
  /\ finder' = Walk(elaborated[searched + 1], finder)
  /\ searched' = searched + 1
  /\ UNCHANGED elaborationVars

FinderNext == ElaborateTheFile \/ FindTargets
FinderSpec == FinderInit /\ [][FinderNext]_finderVars
-----------------------------------------------------------------------------
Alone(i) == Walk(elaborated[i], NewFinder).reported
But(report, visibility) == [report EXCEPT !.attribute.visibility = visibility]

(* Every target is reported once, in the order of the file, and as if it   *)
(* was the only one: nothing of a target in front of it, of a package() or *)
(* of a call within it sticks to it but the default visibility             *)
(* (TargetFinder::current_, in_relevant_call_).                            *)
ReportsAreIndependent ==
  LET alone == [i \in 1..searched |-> [k \in DOMAIN Alone(i) |-> But(Alone(i)[k], None)]]
      all   == [k \in DOMAIN finder.reported |-> But(finder.reported[k], None)]
      RECURSIVE Join(_)
      Join(i) == IF i = 0 THEN <<>> ELSE Join(i - 1) \o alone[i]
  IN all = Join(searched)

(* The last list given to a call by that name. *)
LastList(call, name) ==
  LET args  == Arguments(call)
      given == {k \in DOMAIN args : /\ Identified(args[k]) /\ args[k].sub[1].text = name
                                    /\ args[k].sub[2] # Nil /\ IsList(args[k].sub[2])}
  IN IF given = {} THEN None ELSE The(args[Latest(given)].sub[2])
DefaultOf(i) == LastList(elaborated[i], "default_visibility")
PackagesAt == {i \in 1..searched : elaborated[i].kind = "call" /\ CalledName(elaborated[i]) = "package"}

(* "The package should come early in the file, so we should have gathered  *)
(* the default visibility once we hit an actual rule": if it does, each    *)
(* target without a visibility of its own has that of the last package(),  *)
(* and one with a visibility keeps it, though it may be the empty list.    *)
DefaultVisibilityApplies ==
  (searched > 0 /\ elaborated[searched].kind = "call" /\ Alone(searched) # <<>>) =>
    LET setting == {i \in PackagesAt : DefaultOf(i) # None}
        default == IF setting = {} THEN None ELSE DefaultOf(Latest(setting))
        own     == LastList(elaborated[searched], "visibility")
    IN finder.reported[Len(finder.reported)].attribute.visibility
         = IF own = None THEN default ELSE own

(* What is reported of a target is its own and its package's, whatever was *)
(* reported before (TargetFinder::VisitFunCall with its one Result).       *)
ReportsAreRight == ReportsAreIndependent /\ DefaultVisibilityApplies
=============================================================================
