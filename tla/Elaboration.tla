---------------------------- MODULE Elaboration ----------------------------
(***************************************************************************)
(* Elaboration of a parsed file (bant/frontend/elaboration.cc): names with *)
(* a known value, lists and strings put together, select() and glob() are  *)
(* replaced in the syntax tree, one statement after the other.  The tree   *)
(* is what the parser made of the file, of a file with errors too.         *)
(*                                                                         *)
(* A node has its kind, the text of the token it stands for and its        *)
(* subtrees.  No node is visited again once it is the value of a variable, *)
(* so replacing a pointer in place and returning the new tree is the same. *)
(***************************************************************************)
EXTENDS Parser, TLC

CONSTANTS
  Files,        \* sequences of tokens, each <<kind, text>>
  CustomFlags,  \* flags given on the command line
  PackageFiles, \* what is in the directory of the package, as the walk returns it
  Matching      \* the files each glob pattern matches

VARIABLES
  text,              \* the text of each token
  elaborated,        \* the statements that have been visited
  global_variables,  \* name -> value, of the statements visited
  crashed            \* a null pointer was dereferenced

elaborationVars == <<vars, text, elaborated, global_variables, crashed>>

Tree(kind, txt, sub) == [kind |-> kind, text |-> txt, sub |-> sub]
Nil == Tree("null", "", <<>>)
Str(txt) == Tree("str", txt, <<>>)

RECURSIVE TreeOf(_)
TreeOf(n) == Tree(n.kind, IF n.at = 0 THEN "" ELSE text[n.at], [i \in DOMAIN n.sub |-> TreeOf(n.sub[i])])

IsList(n) == n.kind \in {"[", "{", "("}
IsScalar(n) == n.kind \in {"str", "num"}
Identified(n) == n.kind = "=" /\ n.sub[1].kind = "id"  \* maybe_identifier()

(* FunCall::identifier() casts without a look: the text of a string has    *)
(* the place of the name, any other node compares with no name.            *)
CalledName(call) == IF call.sub[1].kind \in {"id", "str", "num"} THEN call.sub[1].text ELSE ""

NonEmpty(list) == SelectSeq(list.sub, LAMBDA n : IsScalar(n) /\ n.text # "")
ExtractStringList(list) == [i \in DOMAIN NonEmpty(list) |-> NonEmpty(list)[i].text]

(* bin_op: what is known of one side only is taken; unknown stays.         *)
Plus(b, left, right) ==
  CASE IsList(left) /\ ~IsList(right) -> left
    [] ~IsList(left) /\ IsList(right) -> right
    [] left.kind = right.kind /\ IsList(left) -> [left EXCEPT !.sub = @ \o right.sub]
    [] left.kind = "str" /\ right.kind = "str" -> Str(left.text \o right.text)
    [] OTHER -> b

Arguments(call) == call.sub[2].sub

(* The pairs of all maps among the arguments, as far as they have a key.   *)
RECURSIVE Pairs(_)
Pairs(args) ==
  IF args = <<>> THEN <<>>
  ELSE (IF Head(args).kind # "{" THEN <<>>
        ELSE SelectSeq(Head(args).sub, LAMBDA p : p.kind = ":" /\ IsScalar(p.sub[1])))
       \o Pairs(Tail(args))

RECURSIVE Choose(_, _)
Choose(pairs, default) ==
  IF pairs = <<>> THEN default
  ELSE LET key == Head(pairs).sub[1].text
           value == Head(pairs).sub[2]
       IN IF key \in CustomFlags THEN value
          ELSE Choose(Tail(pairs), IF key = "//conditions:default" THEN value ELSE default)
HandleSelect(call) == Choose(Pairs(Arguments(call)), call)

(* The include and exclude lists; the last argument of a kind counts, and  *)
(* one that is not a list after all is as if there was none.               *)
Given(args, positional, keyword) ==
  LET which == {i \in DOMAIN args : \/ positional /\ IsList(args[i])
                                    \/ Identified(args[i]) /\ args[i].sub[1].text = keyword}
      last  == args[CHOOSE i \in which : \A j \in which : j <= i]
      list  == IF IsList(last) THEN last ELSE last.sub[2]
  IN IF which = {} \/ ~IsList(list) THEN <<>> ELSE ExtractStringList(list)

Matched(patterns) == UNION {Matching[patterns[i]] : i \in DOMAIN patterns}
HandleGlob(call) ==
  LET include == Matched(Given(Arguments(call), TRUE, "include"))
      exclude == Matched(Given(Arguments(call), FALSE, "exclude"))
      files   == SelectSeq(PackageFiles, LAMBDA f : f \in include /\ f \notin exclude)
  IN Tree("[", "", [i \in DOMAIN files |-> Str(files[i])])

Call(call) ==
  CASE CalledName(call) = "glob"   -> HandleGlob(call)
    [] CalledName(call) = "select" -> HandleSelect(call)
    [] OTHER -> call

(* Where a pointer is followed without a look whether it is null.          *)
Missing(n) ==
  LET Is(name) == n.kind = "call" /\ CalledName(n) = name
      args == Arguments(n)
      In(nodes) == Nil \in {nodes[i] : i \in DOMAIN nodes}
  IN \/ n.kind = "+" /\ In(n.sub)
     \/ Is("glob") /\ (In(args) \/ \E i \in DOMAIN args :
                         \/ IsList(args[i]) /\ In(args[i].sub)
                         \/ args[i].kind = "=" /\ (In(args[i].sub) \/ In(args[i].sub[2].sub)))
     \/ Is("select") /\ (In(args) \/ \E i \in DOMAIN args :
                         /\ args[i].kind = "{"
                         /\ \E k \in DOMAIN args[i].sub :
                              \/ args[i].sub[k] = Nil
                              \/ args[i].sub[k].kind = ":" /\ args[i].sub[k].sub[1] = Nil)

(* A visited node: what replaces it, the variables known behind it, and    *)
(* whether the visitor got that far.                                       *)
Visited(n, globals, crash) == [n |-> n, globals |-> globals, crash |-> crash]

RECURSIVE Visit(_, _, _), VisitAll(_, _, _)

VisitAll(nodes, globals, nest) ==
  IF nodes = <<>> THEN Visited(<<>>, globals, FALSE)
  ELSE LET first == Visit(Head(nodes), globals, nest)
           rest  == VisitAll(Tail(nodes), first.globals, nest)
       IN Visited(<<first.n>> \o rest.n, rest.globals, first.crash \/ rest.crash)

\* Mutant: keyword arguments are global variables, too.
VisitAssignmentLeaky(a, globals, nest) ==
  LET v == Visit(a.sub[2], globals, nest)
  IN Visited([a EXCEPT !.sub[2] = v.n],
             IF Identified(a) THEN (a.sub[1].text :> v.n) @@ v.globals ELSE v.globals, v.crash)
(* The left hand side is not visited; arguments are no global variables.   *)
VisitAssignment(a, globals, nest) ==
  LET v == Visit(a.sub[2], globals, nest)
  IN Visited([a EXCEPT !.sub[2] = v.n],
             IF nest = 0 /\ Identified(a) THEN (a.sub[1].text :> v.n) @@ v.globals ELSE v.globals,
             v.crash)

VisitIdentifier(i, globals) == IF i.text \in DOMAIN globals THEN globals[i.text] ELSE i

Visit(n, globals, nest) ==
  IF n.kind = "id" THEN Visited(VisitIdentifier(n, globals), globals, FALSE)
  ELSE IF n.kind = "=" THEN VisitAssignment(n, globals, nest)
  ELSE LET v == VisitAll(n.sub, globals, IF n.kind = "call" THEN nest + 1 ELSE nest)
           m == [n EXCEPT !.sub = v.n]
           crash == v.crash \/ Missing(m)
       IN Visited(CASE crash -> m
                    [] ~crash /\ n.kind = "+" -> Plus(m, m.sub[1], m.sub[2])
                    [] ~crash /\ n.kind = "call" -> Call(m)
                    [] OTHER -> m,
                  v.globals, crash)
-----------------------------------------------------------------------------
ElaborationInit ==
  /\ \E f \in Files : /\ tokens = [i \in DOMAIN f |-> f[i][1]]
                      /\ text   = [i \in DOMAIN f |-> f[i][2]]
  /\ statements = <<>>
  /\ error = FALSE
  /\ elaborated = <<>>
  /\ global_variables = <<>>
  /\ crashed = FALSE

ParseTheFile == parse /\ UNCHANGED <<text, elaborated, global_variables, crashed>>

(* The next element of the list that is the file (VisitList).              *)
Elaborate ==
  /\ Len(elaborated) < Len(statements)
  /\ ~crashed
  /\ \E v \in {Visit(TreeOf(statements[Len(elaborated) + 1]), global_variables, 0)} :
       /\ elaborated' = Append(elaborated, v.n)
       /\ global_variables' = v.globals
       /\ crashed' = v.crash
  /\ UNCHANGED <<vars, text>>

ElaborationNext == ParseTheFile \/ Elaborate
ElaborationSpec == ElaborationInit /\ [][ElaborationNext]_elaborationVars
-----------------------------------------------------------------------------

(* What a value means: the last assignment to a name in front of its use   *)
(* counts, with the meaning it had there.  A list expression is all its    *)
(* strings in order, whatever is not a list left out; a select() is the    *)
(* branch of the first flag that is set, or of the last default.           *)
Defined(name, i) ==
  {j \in 1..(i - 1) : statements[j].kind = "=" /\ text[statements[j].sub[1].at] = name}
Latest(set) == CHOOSE j \in set : \A k \in set : k <= j
Earliest(set) == CHOOSE j \in set : \A k \in set : j <= k
Definition(j) == TreeOf(statements[j].sub[2])

Branch(select) ==
  LET pairs == Pairs(Arguments(select))
      With(keys) == {k \in DOMAIN pairs : pairs[k].sub[1].text \in keys}
      default == With({"//conditions:default"})
  IN CASE With(CustomFlags) # {} -> pairs[Earliest(With(CustomFlags))].sub[2]
       [] With(CustomFlags) = {} /\ default # {} -> pairs[Latest(default)].sub[2]
       [] OTHER -> Nil

IsCall(n, name) == n.kind = "call" /\ n.sub[1].text = name

RECURSIVE Text(_, _), Items(_, _)
Text(n, i) ==
  LET l == Text(n.sub[1], i)
      r == Text(n.sub[2], i)
      set == Defined(n.text, i)
  IN CASE IsScalar(n) -> n.text
       [] n.kind = "+" -> IF "" \in {l, r} THEN "" ELSE l \o r
       [] n.kind = "id" /\ set # {} -> Text(Definition(Latest(set)), Latest(set))
       [] IsCall(n, "select") -> Text(Branch(n), i)
       [] OTHER -> ""
Items(n, i) ==
  LET set == Defined(n.text, i)
      args == Arguments(n)
      Value(k) == IF args[k].kind = "=" THEN args[k].sub[2] ELSE args[k]
      All(kws) == UNION {Matched(Items(Value(k), i)) :
                           k \in {k \in DOMAIN args : (IF args[k].kind = "=" THEN args[k].sub[1].text ELSE "") \in kws}}
  IN CASE IsList(n) -> SelectSeq([k \in DOMAIN n.sub |-> Text(n.sub[k], i)], LAMBDA s : s # "")
       [] n.kind = "+" -> Items(n.sub[1], i) \o Items(n.sub[2], i)
       [] n.kind = "id" /\ set # {} -> Items(Definition(Latest(set)), Latest(set))
       [] IsCall(n, "select") -> Items(Branch(n), i)
       [] IsCall(n, "glob") -> SelectSeq(PackageFiles, LAMBDA f : f \in All({"", "include"}) \ All({"exclude"}))
       [] OTHER -> <<>>

(* Each argument of a rule, and each assignment: the tree it had and the   *)
(* tree it has.                                                            *)
Values(i) ==
  LET was == TreeOf(statements[i])
      is  == elaborated[i]
  IN IF was.kind = "=" THEN {<<was.sub[2], is.sub[2]>>}
     ELSE IF was.kind = "call" /\ is.kind = "call"
     THEN {<<Arguments(was)[k].sub[2], Arguments(is)[k].sub[2]>> :
             k \in {k \in DOMAIN Arguments(was) : Arguments(was)[k].kind = "="}}
     ELSE {}

(* What is a list or a string after the elaboration has exactly the        *)
(* strings its source means, in order: through variables assigned again,   *)
(* arguments with the name of a variable, operands that are not known,     *)
(* select() and glob() (all of SimpleElaborator).                          *)
ValuesAreWhatWasMeant ==
  (~error /\ ~crashed) =>
    \A i \in DOMAIN elaborated : \A v \in Values(i) :
      /\ IsList(v[2]) => Items(v[1], i) = ExtractStringList(v[2])
      /\ v[2].kind = "str" => Text(v[1], i) = v[2].text

(* A file the parser accepts is elaborated to its end: nothing the parser  *)
(* may leave out of a node is followed.                                    *)
AcceptedFilesDoNotCrash == crashed => error

(* Both: what the parser accepts is elaborated, and to what it means.      *)
ElaborationKeepsTheMeaning == ValuesAreWhatWasMeant /\ AcceptedFilesDoNotCrash
=============================================================================
