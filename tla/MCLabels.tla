------------------------------ MODULE MCLabels ------------------------------
(***************************************************************************)
(* Labels, patterns and lists of dependencies; a behaviour is about one of *)
(* them.  Every text of up to five characters and every spelling of the    *)
(* targets of seven packages is read and printed; every two patterns of    *)
(* all kinds become a bundle; every label of up to five characters, and    *)
(* any two of a list of spellings, are made canonical.                     *)
(***************************************************************************)
EXTENDS Labels, Canonicalize, BazelPattern

VARIABLE part   \* what the behaviour is about

-----------------------------------------------------------------------------
(* The labels.                                                             *)
Projects == {<<>>, <<"@", "a">>}
PackagePaths == {<<>>, <<"a">>, <<"a", "/", "b">>, <<"b", "/", "a">>}
Packages == {BazelPackage(pr, pa) : pr \in Projects, pa \in PackagePaths}
Names == {<<"a">>, <<"b">>, <<"a", "/", "b">>, <<"b", "/", "a">>, <<"@", "a">>, <<".", "b">>}
Targets == {Target(p, n) : p \in Packages, n \in Names}

TheVersions == {<<"~", "b">>}

TheCharacters == {"/", ":", "@", "~", "a", "b", "t", "x", ".", "*"} \cup Words
Chars == {"/", ":", "@", "a", "~"}
(* The name of a repository is neither empty nor begins with a version. *)
IsOdd(s) == \E i \in DOMAIN s : s[i] = "@" /\ (i = Len(s) \/ s[i + 1] \in {"~", ":", "@"})
Texts(n) == {s \in UNION {[1..k -> Chars] : k \in 0..n} : ~IsOdd(s)}
Home == BazelPackage(<<>>, <<"a">>)
External == BazelPackage(<<"@", "a">>, <<>>)

Spelled == UNION {UNION {{[kind |-> "label", text |-> s, context |-> c, meant |-> t] : s \in Spellings(t, c)}
                         : t \in {t \in Targets : c.project # <<>> => t.package.project = c.project}}
                  : c \in Packages}
RuleNames == {[kind |-> "name", text |-> s \o t.target_name, context |-> t.package, meant |-> t] :
               s \in {<<>>, <<":">>}, t \in Targets}
TheLabels == RuleNames \cup Spelled
             \cup {[kind |-> "label", text |-> s, context |-> c, meant |-> Unknown] :
                     s \in Texts(5), c \in {Home, External}}
TheContexts == {Home, External, BazelPackage(<<>>, <<>>), BazelPackage(<<"@", "a">>, <<"b">>)}

-----------------------------------------------------------------------------
(* Patterns of all kinds, in packages one of which, ab, begins like a.     *)

ab == <<"a", "b">>
Places == {BazelPackage(project, path) :
             project \in {<<>>, <<"@", "x">>},
             path \in {<<>>, <<"a">>, ab, <<"a", "/", "b">>, <<"a", "/", "b", "/", "a">>}}
TargetNames == UNION {[1..n -> {"a", "b"}] : n \in 1..3} \cup {<<".", "b">>}
TheTargets == {Target(place, n) : place \in Places, n \in TargetNames}

Globs == {<<"*", "a">>, <<"a", "*">>, <<"a", "*", "b">>, <<"*", "*", "b">>, <<"b", "*", "a", "*">>, <<".", "*">>}
Top == <<"/", "/">>
Dots == <<".", ".", ".">>
Means(txt, kind_, package, name) == [text |-> txt, kind |-> kind_, package |-> package, name |-> name]
OnCommandLine(place) ==
  LET package == place.project \o Top \o place.path
      dots == IF place.path = <<>> THEN package \o Dots ELSE package \o <<"/">> \o Dots
  IN {Means(dots, "below", place, <<>>)}
     \cup {Means(package \o <<":", all>>, "package", place, <<>>) : all \in {"all", "*"}}
     \cup {Means(package \o <<":">> \o n, "targets", place, n) : n \in Globs \cup {<<"a">>, <<".", "b">>}}
     \cup (IF place.path = <<>> THEN {} ELSE {Means(package, "targets", place, LastSegment(place.path))})
Public == Top \o <<"visibility", ":">>
InAttribute(place, ctx) ==
  LET package == IF place = ctx THEN <<>> ELSE Top \o place.path
  IN {Means(package \o <<":", "__pkg__">>, "package", place, <<>>),
      Means(package \o <<":", "__subpackages__">>, "below", place, <<>>),
      Means(Top \o place.path \o <<":", "b">>, "anything", place, <<>>),
      Means(Public \o <<"private">>, "package", ctx, <<>>),
      Means(Public \o <<"public">>, "anything", place, <<>>)}

Line(w, from, ctx) ==
  [text |-> w.text, source |-> from, context |-> ctx, kind |-> w.kind, package |-> w.package, name |-> w.name]
Root == BazelPackage(<<>>, <<>>)
Typed == {Line(w, "command line", Root) : w \in {Means(Dots, "below", Root, <<>>)} \cup UNION {OnCommandLine(place) : place \in Places}}
Attributes == UNION {UNION {{Line(w, "visibility", ctx) : w \in InAttribute(place, ctx)}
                            : place \in {p \in Places : p.project = ctx.project}} : ctx \in Places}
ThePatterns == Typed \cup Attributes

-----------------------------------------------------------------------------
(* Lists of dependencies.  "//" and "//:" are read as a target without a   *)
(* name.                                                                   *)

HasName(s, p) == LET t == ParseFrom(s, p) IN t = Rejected \/ t.target_name # <<>>
UsualSpellings ==
  {<<"a">>, <<":", "a">>, <<"/", "/", "a">>, <<"/", "/", "a", ":", "a">>, <<"@", "/", "/", "a">>,
   <<"@", "a", "/", "/", "a">>, <<"@", "a", "~", "b", "/", "/", "a", ":", "a">>, <<"@", "a">>,
   <<"@", "a", "/", "/", ":", "a">>, <<"@", "a", "/", "/", "b", ":", "a">>, <<"/", "/", "b", ":", "a">>,
   <<"/", "/", "b">>, <<"b">>, <<"@", "a", "/", "/", "b">>}
Short == Texts(2) \cup UsualSpellings
MayBeWritten(l) == \A i \in DOMAIN l.deps : HasName(l.deps[i], l.package)
TheLists ==
  LET In3 == {Home, External, BazelPackage(<<"@", "a">>, <<"b">>)} IN
  {l \in {[package |-> p, deps |-> <<d>>] : p \in In3, d \in Texts(5)}
     \cup {[package |-> p, deps |-> <<d, e>>] : p \in In3, d, e \in Short}
     : MayBeWritten(l)}
TheSelf == <<"t">>

-----------------------------------------------------------------------------
NoLabel == text = <<>> /\ kind = "label" /\ context = Home /\ target = Nothing /\ meant = Unknown
NoPatterns == patterns = <<>> /\ finished = FALSE /\ has_filter = FALSE /\ source = "command line" /\ meanings = {}
NoList == current_package = Home /\ deps = <<>> /\ pos = 1 /\ edits = <<>> /\ runs = 0 /\ first_read = <<>>

EachInit ==
  \/ part = "label" /\ Init /\ NoPatterns /\ NoList
  \/ part = "pattern" /\ PatternInit /\ NoLabel /\ NoList
  \/ part = "list" /\ CanonInit /\ NoLabel /\ NoPatterns

ReadAndPrint == part = "label" /\ Next /\ UNCHANGED <<part, patternVars, canonVars>>
Bundle == part = "pattern" /\ PatternNext /\ UNCHANGED <<part, vars, canonVars>>
Shorten == part = "list" /\ CanonNext /\ UNCHANGED <<part, vars, patternVars>>

EachNext == ReadAndPrint \/ Bundle \/ Shorten
EachSpec == EachInit /\ [][EachNext]_<<part, vars, patternVars, canonVars>>

-----------------------------------------------------------------------------

(* Reading, printing (ParseFrom, ToString) and making canonical            *)
(* (CreateCanonicalizeEdits) keep the target that a label names, and a     *)
(* second run has nothing left to edit.                                    *)
LabelsKeepTheirMeaning ==
  /\ LabelsKeepTheirTarget
  /\ PackagesHaveOneForm
  /\ MeaningIsKept
  /\ CanonicalizingSettles
=============================================================================
