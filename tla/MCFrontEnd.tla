----------------------------- MODULE MCFrontEnd -----------------------------
(***************************************************************************)
(* From the text of a BUILD file to its targets, in small files.  A        *)
(* behaviour begins with a text, which is scanned and parsed and printed,  *)
(* or with tokens, which are parsed and printed, or parsed, elaborated and *)
(* searched for targets.                                                   *)
(***************************************************************************)
EXTENDS TargetFinder, PrintVisitor, ScannedText

VARIABLE phase   \* "scan", "print" or "elaborate"

-----------------------------------------------------------------------------
(* Texts: everything up to a length over the atoms a group of handlers     *)
(* tells apart.                                                            *)

UpTo(n, kinds) == UNION {[1..k -> kinds] : k \in 0..n}

(* Strings with quotes of both kinds, raw and escaped, over lines. *)
StringContents ==
  UpTo(6, {"dq", "\\", "\n"}) \cup UpTo(5, {"dq", "\\", "\n", "r"})
  \cup UpTo(4, {"dq", "sq", "\\", "\n", "name"})

(* Words, comments, brackets, operators and numbers. *)
OtherContents ==
  UpTo(4, {"name", "if", "in", "#", "\n", "\\", "["}) \cup UpTo(4, {"0", "1", "x", ".", "\n"})
  \cup UpTo(3, {"=", "/", "!", "+", "$", "\n", "name", "r", "dq"})

(* Those the code does not get right are among them, what is promised of   *)
(* every text is checked of them, too.                                     *)
TripledSingleQuotes == {<<"sq", "sq", "sq", inside, "sq", "sq", "sq">> : inside \in {"name", "\n", "\\"}}

AllContents ==
  StringContents \cup OtherContents \cup TripledSingleQuotes
  \cup UpTo(4, {"not", "in", "name", "[", " ", "\n"})

-----------------------------------------------------------------------------
(* Tokens: everything up to a length over those a group of productions     *)
(* tells apart, behind a beginning that leads there.                       *)

After(prefix, rests) == {prefix \o r : r \in rests}

AllInputs ==
  After(<<"id", "=">>, UpTo(5, {"id", "-", "(", ")", ","})
                   \cup UpTo(4, {"num", "bad", "not", "+", ".", "["}))
  \cup After(<<"id", "=", "id", "[">>, UpTo(4, {"id", ":", "]", "^[", "not", "["}))
  \cup After(<<"id", "=", "num", "if">>, UpTo(4, {"num", "if", "else", "(", ")", "+"}))
  \cup After(<<"id", "=", "{">>, UpTo(5, {"id", "}", ":", ",", "-"}))
  \cup After(<<"id", "(">>, UpTo(4, {"id", "=", ",", ")", "[", "]", "."}))
  \cup After(<<"[", "id", "for">>, UpTo(4, {"id", "in", "(", ")", "]", ","}))
  \cup After(<<"[", "id", "for", "(", "id", ",">>, UpTo(5, {"in", "id", "]", ")"}))
  \cup After(<<"{", "id", ":", "id">>, UpTo(4, {"for", "in", "id", "}", "if"}))
  \cup UpTo(4, {"id", "(", ")", "=", "[", "]"}) \cup UpTo(3, {"id", "(", ")", "=", "str", "."})

Additions == {<<"id">> \o r : r \in UpTo(2, {"=", "(", "id", "]"})}

-----------------------------------------------------------------------------
(* Files put together from statements: variables that are assigned, used   *)
(* and assigned again, and rules.                                          *)

T(kind) == <<kind, kind>>
Id(name) == <<"id", name>>
S(txt) == <<"str", txt>>
ListOf(x) == <<T("["), x, T("]")>>
NoElements == <<T("["), T("]")>>
Assign(name, value) == <<Id(name), T("=")>> \o value
Argument(name, value) == Assign(name, value) \o <<T(",")>>
Rule(name, arguments) == <<Id(name), T("(")>> \o arguments \o <<T(")")>>

Add(x, y) == x \o <<T("+")>> \o y
Select(x, y) ==
  Rule("select", <<T("{"), S("//conditions:default"), T(":")>> \o x
                 \o <<T(","), S("flag"), T(":")>> \o y \o <<T("}")>>)

A == <<Id("A")>>
B == <<Id("B")>>
Lists == {ListOf(S("a")), Add(A, ListOf(S("b"))), Add(ListOf(S("c")), Add(B, A))}
Assignments ==
  {Assign("A", v) : v \in Lists \cup {<<S("x")>>, ListOf(Id("B")), Select(ListOf(S("d")), B)}}
  \cup {Assign("B", v) : v \in {A, Add(<<S("y")>>, A), ListOf(S("e")), Rule("glob", ListOf(S("*")))}}
Rules ==
  {Rule("cc_library", Argument("name", v) \o Argument("hdrs", A)) : v \in {<<S("n")>>, B, A}}
  \cup {Rule("cc_library", Argument("name", <<S("m")>>) \o Argument("A", ListOf(S("f")))
                           \o Argument("hdrs", Rule("glob", ListOf(S("*")) \o <<T(",")>>
                                                    \o Assign("exclude", A)))),
        Rule("cc_binary", Argument("name", Add(<<S("o")>>, B)) \o Argument("deps", Select(A, B))
                          \o Argument("visibility", B)),
        Rule("genrule", Argument("outs", A) \o Rule("glob", Assign("include", B))),
        Rule("package", Argument("default_visibility", ListOf(S("p")))),
        Rule("package", Argument("default_visibility", A)),
        Rule("package", Argument("default_visibility", NoElements)),
        Rule("cc_library", Argument("name", <<S("q")>>) \o Argument("hdrs", NoElements)
                           \o Argument("visibility", NoElements)),
        <<T("[")>> \o Rule("cc_library", Argument("name", A) \o Argument("alwayslink", <<Id("True")>>))
                   \o <<T("for"), Id("A"), T("in")>> \o B \o <<T("]")>>}
Broken == {Assign("A", Add(B, <<>>)), Rule("glob", <<T("["), T("+")>>)}

(* Files of four: a variable that changes between its uses. *)
Again == {Assign("A", v) : v \in {ListOf(S("a")), Add(A, ListOf(S("b")))}}
Long == LET Few == Again \cup {Assign("B", A), Rule("package", Argument("default_visibility", A)),
                         Rule("package", Argument("default_visibility", ListOf(S("p")))),
                         Rule("package", Argument("default_visibility", NoElements)),
                         Rule("cc_binary", Argument("name", <<S("n")>>) \o Argument("deps", B))}
        IN {w \o x \o y \o z : w \in Again, x, y, z \in Few}

Joined(first, second, third) == {x \o y \o z : x \in first, y \in second, z \in third}
Some == Assignments \cup Rules
SomeFiles ==
  Some \cup Joined(Some, Some, {<<>>}) \cup Joined(Assignments, Assignments, Some)
  \cup Joined(Rules, Again, Rules) \cup Long \cup Joined(Some, Broken, {<<>>})

Flags == {"flag"}
Directory == <<"a", "b", "h">>
Patterns == [p \in {"a", "b", "c", "d", "e", "f", "p", "x", "*", "h"} |->
               IF p = "*" THEN {"a", "b", "h"} ELSE {p}]

-----------------------------------------------------------------------------
NoText == content = <<>> /\ scan = Scanning!Fresh /\ upcoming_ = Scanning!NoToken /\ handed_out = <<>>
NoValues == /\ text = <<>> /\ elaborated = <<>> /\ global_variables = <<>> /\ crashed = FALSE
            /\ searched = 0 /\ finder = NewFinder
valueVars == <<text, elaborated, global_variables, crashed, searched, finder>>

FrontEndInit ==
  \/ phase = "scan" /\ Scanning!Init /\ tokens = <<>> /\ statements = <<>> /\ error = FALSE
     /\ before = Nothing /\ NoValues
  \/ phase = "print" /\ PrintInit /\ NoText /\ NoValues
  \/ phase = "elaborate" /\ FinderInit /\ NoText /\ before = Nothing

ScanText ==
  /\ phase = "scan" /\ Scanning!Next
  /\ UNCHANGED <<phase, vars, before, valueVars>>

(* What the parser tells apart of a token.  Whether a number is one that   *)
(* fits is decided by its text, which is not there.                        *)
KindOf(token) ==
  CASE token.type = "identifier" -> "id"
    [] token.type = "string" -> "str"
    [] token.type = "!" -> "not"
    [] token.type \in {"not in", "double", "<", "/"} -> "+"
    [] token.type = "[" /\ token.flag -> "^["
    [] OTHER -> token.type

(* The parser pulls all tokens from the scanner, up to the end.            *)
ParseText ==
  /\ phase = "scan" /\ Scanning!AtEof
  /\ \A i \in DOMAIN handed_out : handed_out[i].type # "number"
  /\ phase' = "print"
  /\ tokens' = [i \in 1..(Len(handed_out) - 1) |-> KindOf(handed_out[i])]
  /\ UNCHANGED <<statements, error, before, scannerVars, valueVars>>

PrintTokens == phase = "print" /\ PrintNext /\ UNCHANGED <<phase, scannerVars, valueVars>>

ElaborateTokens == phase = "elaborate" /\ FinderNext /\ UNCHANGED <<phase, scannerVars, before>>

FrontEndNext == ScanText \/ ParseText \/ PrintTokens \/ ElaborateTokens
FrontEndSpec == FrontEndInit /\ [][FrontEndNext]_<<phase, scannerVars, before, finderVars>>
=============================================================================
