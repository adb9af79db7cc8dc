----------------------------- MODULE MCCommands -----------------------------
(***************************************************************************)
(* From the command line to what a command does.  A behaviour begins with  *)
(* a command line, and goes on with the command if there is one to call;   *)
(* or with a command in one of many projects; or with the workspace files  *)
(* and the external directory, in which the projects are to be found.      *)
(***************************************************************************)
EXTENDS RunCommand, CommandLine, Workspace

CONSTANTS p, q, x   \* packages, x of another project

VARIABLE part   \* "line", "command" or "workspace"

-----------------------------------------------------------------------------
(* The packages depend on each other in every way.                         *)

Graphs == {d \in [Package -> SUBSET Package] : \A r \in Package : r \notin d[r]}
TheWorlds ==
  {[deps |-> d, hidden |-> h, edits |-> {p, x}, workspace |-> TRUE] : d \in Graphs, h \in SUBSET {p, q}}
  \cup {[deps |-> [r \in Package |-> {}], hidden |-> {}, edits |-> {}, workspace |-> FALSE]}
ThePatterns ==
  {[filter |-> FALSE, packages |-> Package]}
  \cup {[filter |-> TRUE, packages |-> s] : s \in {{p}, {p, q}, {x}}}
TheDepths == {-1, 0, 1, 2, Unlimited}

-----------------------------------------------------------------------------
(* Every prefix of a command, and one with a letter too many, with up to   *)
(* two patterns; some commands with up to two options.                     *)

IsValid(pattern) == pattern # "a:b:c"
Prefixes == UNION {{SubSeq(n, 1, i) : i \in 0..Len(n)} : n \in kCommandNames}
Typed == Prefixes \cup {r \o c : r \in Prefixes, c \in {"-", "a", "s"}}
PatternLists == UNION {[1..n -> {"//q", "a:b:c"}] : n \in 0..2}

With(letter, arguments) == {[letter |-> letter, arg |-> a] : a \in arguments}
FormatsTyped == UNION {{SubSeq(n, 1, i) : i \in 0..Len(n)} : n \in kFormatOutNames} \cup {"x", "jp"}
Options ==
  With("C", {"dir", "gone"}) \cup With("o", {"out", "gone", "-"}) \cup With("f", FormatsTyped)
  \cup With("g", {"foo"}) \cup With("r", {"", "2", "-1"})
  \cup UNION {With(o, {""}) : o \in {"q", "k", "i", "p", "E", "b", "e", "v", "V", "h", "?"}}

TheCommandLines ==
  {[options |-> <<>>, args |-> <<c>> \o s] : c \in Typed, s \in PatternLists}
  \cup {[options |-> o, args |-> a] : o \in UNION {[1..n -> Options] : n \in 0..2},
                                     a \in {<<>>, <<"dwyu">>, <<"dwyu", "//q">>, <<"pri", "//q">>}}

-----------------------------------------------------------------------------
(* Up to three of nine entries of the external directory, and up to two    *)
(* declarations in an old and a new workspace file.                        *)

TheOrder == <<"+", "1", "2", "@", "a", "b", "override", "~">>
TheRank == [c \in {TheOrder[i] : i \in DOMAIN TheOrder} |-> CHOOSE i \in DOMAIN TheOrder : TheOrder[i] = c]
NameTyped == {<<"a">>, <<"b">>}
Entries ==
  {<<"a">>, <<"a", "+">>, <<"a", "~">>, <<"a", "~", "1">>, <<"a", "~", "2">>, <<"a", "~", "override">>,
   <<"a", "~", "~", "b">>, <<"b">>, <<"b", "~", "1">>}
Dirs == UNION {[s -> {"directory", "closed", "file"}] : s \in {s \in SUBSET Entries : Cardinality(s) <= 3}}
Declared ==
  {[name |-> n, version |-> v, repo_name |-> r] : n \in NameTyped, v \in {<<>>, <<"1">>}, r \in {<<>>, <<"b">>}}
File(decls) == [exists |-> TRUE, rules |-> decls]
NoFile == [exists |-> FALSE, rules |-> <<>>]
OneRule == {File(<<>>)} \cup {File(<<d>>) : d \in Declared}
\* Versions of one project, and two projects that may have a name in common.
VersionsOf(n, versions) == {File(<<[name |-> n, version |-> v, repo_name |-> <<>>]>>) : v \in versions}
Twice ==
  LET versions == VersionsOf(<<"a">>, {<<>>, <<"1">>, <<"2">>}) IN versions \X versions
Both ==
  VersionsOf(<<"b">>, {<<>>, <<"1">>}) \X {File(<<d>>) : d \in {d \in Declared : d.name = <<"a">>}}
Files ==
  {<<old, NoFile, NoFile, NoFile>> : old \in {NoFile} \cup OneRule}
  \cup {<<NoFile, NoFile, NoFile, new>> : new \in OneRule}
  \cup {<<two[1], NoFile, NoFile, two[2]>> : two \in Twice \cup Both}

TheCheckouts == {[files |-> f, dirs |-> d] : f \in Files, d \in Dirs}

-----------------------------------------------------------------------------
NotCalled ==
  /\ world = [deps |-> [r \in Package |-> {}], hidden |-> {}, edits |-> {}, workspace |-> FALSE]
  /\ cmd = "list-packages" /\ patterns = kMatchAllBundle /\ elaborate = FALSE /\ print_ast = FALSE
  /\ asked_depth = 0 /\ depth = 0 /\ pc = "load"
  /\ parsed = {} /\ elaborated = [r \in Package |-> 0] /\ graph = {} /\ output = {} /\ exit = ""
NoLine ==
  /\ options = <<>> /\ asked = <<>> /\ args = <<>> /\ flags = NoFlags
  /\ primary_out = "stdout" /\ info_out = "stderr" /\ called = "" /\ typed = <<>> /\ status = ""
  /\ complaint = <<>>
NoWorkspace ==
  /\ ws_files = <<>> /\ dirs = <<>> /\ ws = 0 /\ rules = <<>> /\ project_location = <<>>
  /\ missing = <<>> /\ workspace_found = FALSE /\ project_dirs = {}

CommandsInit ==
  \/ part = "line" /\ LineInit /\ NotCalled /\ NoWorkspace
  \/ part = "command" /\ Init /\ NoLine /\ NoWorkspace
  \/ part = "workspace" /\ LoadInit /\ NotCalled /\ NoLine

ReadLine == part = "line" /\ LineNext /\ UNCHANGED <<part, vars, workspaceVars>>

(* The call of RunCommand(): each of p and q needs the other and x.  *)
CallRunCommand ==
  /\ part = "line" /\ status = "run"
  /\ part' = "command"
  /\ world' = [deps |-> [r \in Package |-> IF r = x THEN {} ELSE Package \ {r}], hidden |-> {q},
               edits |-> Package, workspace |-> TRUE]
  /\ cmd' = called
  /\ patterns' = IF typed = <<>> THEN kMatchAllBundle ELSE [filter |-> TRUE, packages |-> {q}]
  /\ elaborate' = flags.elaborate /\ print_ast' = flags.print_ast
  /\ asked_depth' = flags.recurse_dependency_depth /\ depth' = asked_depth'
  /\ UNCHANGED <<pc, parsed, elaborated, graph, output, exit, lineVars, workspaceVars>>

RunIt == part = "command" /\ Next /\ UNCHANGED <<part, lineVars, workspaceVars>>
LoadProjects == part = "workspace" /\ LoadNext /\ UNCHANGED <<part, vars, lineVars>>

CommandsNext == ReadLine \/ CallRunCommand \/ RunIt \/ LoadProjects
CommandsSpec == CommandsInit /\ [][CommandsNext]_<<part, vars, lineVars, workspaceVars>>

-----------------------------------------------------------------------------
(* Edits are for the targets that were typed (RunCliCommand(), the callers *)
(* of CreateDependencyEdits()): not for those that were read because the   *)
(* typed ones depend on them, however deep -r goes, and never for all.     *)
OnlyTypedTargetsAreEdited ==
  (status = "run" /\ pc = "done" /\ cmd \in {"dwyu", "canonicalize"}) =>
    typed # <<>> /\ output = {q} /\ exit = "3"

(* From the typed words to what is edited.                                 *)
TheCommandIsDoneAsTyped == TheLineIsUnderstood /\ OnlyTypedTargetsAreEdited
=============================================================================
