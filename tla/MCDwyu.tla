------------------------------- MODULE MCDwyu -------------------------------
(***************************************************************************)
(* What dwyu needs to know and what it makes of it.  A behaviour begins    *)
(* with a project of three BUILD files, the headers of which are indexed;  *)
(* or with the text of a source, the includes of which are looked up; or   *)
(* with a path that is looked up by its end; or with a target whose        *)
(* includes are known, which is compared with its dependencies.  Some      *)
(* projects go all the way: their index is that of a source, and what the  *)
(* source needs is compared with the dependencies of its target.           *)
(***************************************************************************)
EXTENDS Dwyu

CONSTANTS lib_a, lib_b, lib_c, lib_d, self

VARIABLES
  part,         \* "providers", "includes", "suffix" or "edits"
  files, visit_pc, visited, aliased_by, provided, generated, complaints,    \* of HeaderProviders
  text, target, index, is_generated, grep_pc, rest, in_quotes, found_includes,
  looked_at, sets, accounted, hinted,                                       \* of SourceIncludes
  keys, key, min_fuzzy_paths, find_pc, found, best,
  best_common_path_elements, match                                          \* of SuffixIndex

Ordinary ==
  [known |-> TRUE, deprecated |-> FALSE, same_package |-> FALSE,
   protobuf_headers |-> FALSE, visibility |-> {}, alwayslink |-> FALSE,
   testonly |-> FALSE]

\* The kinds of libraries the predicates tell apart.
Kinds ==
  {Ordinary,
   [Ordinary EXCEPT !.known = FALSE],
   [Ordinary EXCEPT !.deprecated = TRUE],
   [Ordinary EXCEPT !.visibility = {"other"}],
   [Ordinary EXCEPT !.visibility = {"other", "match"}],
   [Ordinary EXCEPT !.visibility = {"other"}, !.same_package = TRUE],
   [Ordinary EXCEPT !.protobuf_headers = TRUE],
   [Ordinary EXCEPT !.alwayslink = TRUE],
   [Ordinary EXCEPT !.testonly = TRUE]}

From(libs) == [via |-> "lib", libs |-> libs]
Own == [via |-> "own", libs |-> {}]
Unknown == [via |-> "unknown", libs |-> {}]

File(includes) == [readable |-> TRUE, includes |-> includes]
NoFile == [readable |-> FALSE, includes |-> <<>>]

Entry(l) == [lib |-> l, keep |-> FALSE]
Keep(l) == [lib |-> l, keep |-> TRUE]

-----------------------------------------------------------------------------
(* Libraries of every kind.                                                *)

AllLibs == {lib_a, lib_b, lib_c, lib_d, self}

FewIncludes == {From({lib_a}), From({lib_b}), From({lib_a, lib_b}), Own}

FewSources ==
  {<<File(<<x, y>>)>> : x, y \in FewIncludes}
  \cup {<<File(<<x>>), File(<<y>>)>> : x, y \in FewIncludes}
  \cup {<<File(<<x>>), y>> : x \in FewIncludes, y \in {NoFile, File(<<Unknown>>)}}

FewDeps ==
  {<<>>, <<Entry(lib_a)>>, <<Keep(lib_a)>>, <<Entry(lib_a), Entry(lib_a)>>,
   <<Keep(lib_a), Entry(lib_a)>>, <<Entry(lib_b), Entry(lib_a)>>,
   <<Entry(lib_a), Keep(lib_b)>>, <<Entry(Invalid), Entry(lib_b)>>}

\* test is read for a testonly library only, ignore_keep for a dep to keep.
WorldsOfKinds ==
  {w \in [sources : FewSources,
          info    : {[l \in AllLibs |-> IF l = other THEN x ELSE Ordinary] :
                       x \in Kinds, other \in {lib_a, lib_b}},
          test    : BOOLEAN,
          ignore_keep : BOOLEAN,
          deps    : FewDeps] :
     /\ w.test => \E l \in AllLibs : w.info[l].testonly
     /\ w.ignore_keep => \E n \in DOMAIN w.deps : w.deps[n].keep}

-----------------------------------------------------------------------------
(* Many alternatives.                                                      *)

Alternatives ==
  {s \in SUBSET {lib_a, lib_b, lib_c, lib_d} : Cardinality(s) \in 1..3}

ManyDeps ==
  {<<>>, <<Entry(lib_a)>>, <<Entry(lib_b), Entry(lib_a)>>,
   <<Entry(lib_c), Entry(lib_d)>>, <<Entry(lib_a), Entry(lib_d), Entry(lib_c)>>}

WorldsOfAlternatives ==
  [sources : {<<File(<<From(x), From(y), From(z)>>)>> : x, y, z \in Alternatives},
   info    : {[l \in AllLibs |-> Ordinary]},
   test    : {FALSE},
   ignore_keep : {FALSE},
   deps    : ManyDeps]

AllWorlds == WorldsOfKinds \cup WorldsOfAlternatives

-----------------------------------------------------------------------------
(* Projects with any of a few rules in each BUILD file.                    *)

A == [project |-> "", path |-> <<"p">>]
B == [project |-> "", path |-> <<"z", "p">>]
X == [project |-> "@x", path |-> <<"p">>]
At(package, name) == [package |-> package, name |-> name]
Nowhere == At([project |-> "", path |-> <<>>], "")

Rule(kind, name) ==
  [rule |-> kind, name |-> name, hdrs |-> <<>>, textual_hdrs |-> <<>>, include_prefix |-> <<>>,
   strip_prefix |-> <<>>, includes |-> <<>>, srcs |-> <<>>, deps |-> <<>>, protos |-> <<>>,
   outs |-> <<>>, actual |-> Nowhere]
Proto(dir, stem) == [dir |-> dir, stem |-> stem, is_proto |-> TRUE]
Alias(name, actual) == [Rule("alias", name) EXCEPT !.actual = actual]
Genrule(name, outs) == [Rule("genrule", name) EXCEPT !.outs = outs]

RulesOfA ==
  <<[Rule("cc_proto_library", "pb") EXCEPT !.deps = <<At(A, "proto")>>],
    Alias("early", At(B, "far")),
    [Rule("cc_library", "lib") EXCEPT !.hdrs = <<<<"h">>, <<":", "h">>>>, !.textual_hdrs = <<<<"t">>>>],
    [Rule("cc_library", "same") EXCEPT !.hdrs = <<<<"h">>>>, !.strip_prefix = <<"p">>],
    [Rule("proto_library", "proto") EXCEPT !.protos = <<Proto(<<>>, "x"), Proto(<<":">>, "y")>>],
    [Rule("cc_grpc_library", "grpc") EXCEPT !.srcs = <<At(A, "proto")>>],
    Genrule("gen", <<<<"f">>, <<":", "g">>>>)>>
RulesOfB ==
  <<Alias("late", At(A, "lib")), Alias("proto", At(A, "pb")),
    [Rule("cc_library", "far") EXCEPT !.hdrs = <<<<"h">>>>, !.includes = <<<<"z">>>>],
    [Rule("cc_library", "here") EXCEPT !.hdrs = <<<<"h">>>>, !.include_prefix = <<".">>],
    Genrule("one", <<<<"f">>>>), Genrule("two", <<<<"f">>>>)>>
RulesOfX ==
  <<[Rule("cc_library", "lib") EXCEPT !.hdrs = <<<<"h">>>>], Genrule("gen", <<<<"f">>>>)>>

Some(rules, wanted) == SelectSeq(rules, LAMBDA r : r.name \in wanted)
NamesOf(rules) == {rules[n].name : n \in DOMAIN rules}
Build(package, rules) == [package |-> package, rules |-> rules]
Project(in_a, in_b, in_x) ==
  <<Build(A, Some(RulesOfA, in_a)), Build(B, Some(RulesOfB, in_b)), Build(X, Some(RulesOfX, in_x))>>
TheProjects ==
  {Project(in_a, in_b, in_x) :
     in_a \in SUBSET NamesOf(RulesOfA), in_b \in SUBSET NamesOf(RulesOfB), in_x \in SUBSET NamesOf(RulesOfX)}

Providing == INSTANCE HeaderProviders
               WITH ProjectFiles <- TheProjects, pc <- visit_pc, reported <- complaints
providerVars == <<files, visit_pc, visited, aliased_by, provided, generated, complaints>>

-----------------------------------------------------------------------------
(* Texts of up to three lines, includes of every kind among them, and a    *)
(* header that is known by paths of one to three parts.                    *)

TheWords == {"h", "p/h", "z/p/h", "/h", "p.d/h"}
ThePaths ==
  [w \in TheWords |-> CASE w = "h"     -> <<"h">>
                        [] w = "p/h"   -> <<"p", "h">>
                        [] w = "z/p/h" -> <<"z", "p", "h">>
                        [] w = "/h"    -> <<"", "h">>
                        [] w = "p.d/h" -> <<"p.d", "h">>]

Plain(w) == <<"#", "include", " ", "\"", w, "\"">>
UsualLines ==
  {Plain(w) : w \in TheWords}
  \cup {<<" ", "#", " ", "include", " ", " ", "\"", "h", "\"", " ", "x">>,
        <<"x", "\"", "x", "\"">>}
OtherLines ==
  {<<>>,
   <<"x", "\"">>,
   <<"\"", "x">>,
   <<"x", "#", "include", " ", "\"", "h", "\"">>,
   <<"\"", "\"", "#", "include", " ", "\"", "h", "\"">>,
   <<"#", "include", "\"", "h", "\"">>}
Lines == UsualLines \cup OtherLines
NL == <<"\n">>
TheTexts ==
  Lines \cup {k \o NL \o l : k \in Lines, l \in Lines}
  \cup {k \o NL \o l \o NL \o m : k \in OtherLines, l \in Lines, m \in OtherLines \cup {Plain("p/h")}}

InP(own) == [package |-> <<"p">>, files |-> own]
TheTargets == {InP({}), InP({<<"h">>}), [package |-> <<>>, files |-> {<<"h">>}]}
IndexOf(paths) == [p \in paths |-> {p}]
TheIndexes ==
  {IndexOf(s) : s \in {{}, {<<"h">>}, {<<"p", "h">>}, {<<"y", "p", "h">>}, {<<"p", "h">>, <<"y", "p", "h">>},
                       {<<"x", "p", "h">>, <<"y", "p", "h">>}}}

Looking == INSTANCE SourceIncludes
             WITH Texts <- TheTexts, Words <- TheWords, Accepted <- TheWords \ {"p.d/h"}, PathOf <- ThePaths,
                  Targets <- TheTargets, Indexes <- TheIndexes,
                  pc <- grep_pc, run <- rest, result <- found_includes, needed <- sets,
                  all_known <- accounted, reported <- hinted
sourceTextVars == <<text, target, index, is_generated, grep_pc, rest, in_quotes, found_includes,
                    looked_at, sets, accounted, hinted>>

-----------------------------------------------------------------------------
(* Paths of up to three parts; b and ab end alike, and "." sorts before    *)
(* "/", which sorts before letters.                                        *)

Parts == {<<"b">>, <<"a", "b">>, <<".", "b">>}
Join(p, q) == p \o <<"/">> \o q
b == <<"b">>
ab == <<"a", "b">>
KeyPaths == Parts \cup {Join(p, q) : p \in Parts, q \in Parts}
            \cup {Join(p, Join(b, b)) : p \in {b, ab}} \cup {Join(p, Join(ab, b)) : p \in {b, ab}}
TheRank ==
  [c \in {".", "/", "a", "b"} |-> CASE c = "." -> 1 [] c = "/" -> 2 [] c = "a" -> 3 [] c = "b" -> 4]

Finding == INSTANCE SuffixIndex
             WITH Paths <- KeyPaths, MaxIndex <- 3, Fuzzy <- {0, 1, 2}, Rank <- TheRank,
                  index <- keys, pc <- find_pc, result <- match
suffixVars == <<keys, key, min_fuzzy_paths, find_pc, found, best, best_common_path_elements, match>>

ASSUME HandedOverAssumption == Providing!ProjectsAssumption /\ Looking!TargetsAssumption /\ Looking!TextsAssumption

-----------------------------------------------------------------------------
NoProject ==
  /\ files = <<>> /\ visit_pc = "aliases" /\ visited = 0
  /\ aliased_by = {} /\ provided = {} /\ generated = {} /\ complaints = {}
NoText ==
  /\ text = <<>> /\ target = InP({}) /\ index = <<>> /\ is_generated = FALSE /\ grep_pc = "grep"
  /\ rest = 1 /\ in_quotes = FALSE /\ found_includes = <<>> /\ looked_at = 0 /\ sets = <<>>
  /\ accounted = TRUE /\ hinted = {}
NoKeys ==
  /\ keys = {} /\ key = b /\ min_fuzzy_paths = 0 /\ find_pc = "search" /\ found = <<>> /\ best = <<>>
  /\ best_common_path_elements = 0 /\ match = Finding!nullopt
Idle ==
  [sources |-> <<>>, info |-> [l \in AllLibs |-> Ordinary], test |-> FALSE, ignore_keep |-> FALSE,
   deps |-> <<>>]
NoTarget ==
  /\ world = Idle /\ run = 1 /\ deps = <<>> /\ pc = "sources" /\ source = 1 /\ include = 1
  /\ all_known = TRUE /\ needed = <<>> /\ i = 1 /\ j = 1 /\ current_set = {} /\ already_covered = {}
  /\ minimized = <<>> /\ open = {} /\ checked_off = {} /\ dep = 1 /\ removed = {} /\ added = <<>>

DwyuInit ==
  \/ part = "providers" /\ Providing!Init /\ NoText /\ NoKeys /\ NoTarget
  \/ part = "includes" /\ Looking!Init /\ NoProject /\ NoKeys /\ NoTarget
  \/ part = "suffix" /\ Finding!FindInit /\ NoProject /\ NoText /\ NoTarget
  \/ part = "edits" /\ Init /\ NoProject /\ NoText /\ NoKeys

IndexHeaders == part = "providers" /\ Providing!Next /\ UNCHANGED <<part, sourceTextVars, suffixVars, vars>>
LookUpIncludes == part = "includes" /\ Looking!Next /\ UNCHANGED <<part, providerVars, suffixVars, vars>>
FindASuffix == part = "suffix" /\ Finding!FindNext /\ UNCHANGED <<part, providerVars, sourceTextVars, vars>>
CompareDeps == part = "edits" /\ Next /\ UNCHANGED <<part, providerVars, sourceTextVars, suffixVars>>

(* Projects whose index goes to dwyu: up to three that provide z/p/h, p/h  *)
(* or both.                                                                *)
HandedOver == {Project(in_a, in_b, {}) : in_a \in SUBSET {"lib"}, in_b \in SUBSET {"late", "far"}}
SomeIncludes == {Plain(w) : w \in {"h", "p/h", "z/p/h"}}
UseIndex ==
  /\ part = "providers" /\ visit_pc = "done" /\ files \in HandedOver
  /\ part' = "includes"
  /\ index' = [path \in {p[1] : p \in provided} |-> Providing!Providers(path)]
  /\ text' \in SomeIncludes \cup {k \o NL \o l : k, l \in SomeIncludes}
  /\ target' \in {InP({}), InP({<<"h">>})}
  /\ UNCHANGED <<providerVars, is_generated, grep_pc, rest, in_quotes, found_includes, looked_at, sets,
                 accounted, hinted, suffixVars, vars>>

(* What a source needs is compared with the dependencies of its target.    *)
LibOf(t) == CASE t = At(A, "lib") -> lib_a [] t = At(B, "late") -> lib_b [] t = At(B, "far") -> lib_c
LibsOf(targets) == {LibOf(t) : t \in targets}
UseSource ==
  /\ part = "includes" /\ grep_pc = "done" /\ files # <<>>
  /\ part' = "edits"
  /\ \E list \in {<<>>} \cup {<<Entry(k)>> : k \in {lib_a, lib_b, lib_c}}
                   \cup {<<Entry(k), Entry(l)>> : k, l \in {lib_a, lib_b, lib_c}} :
       /\ world' = [Idle EXCEPT
            !.sources = <<File([n \in DOMAIN sets |-> From(LibsOf(sets[n]))]
                               \o (IF accounted THEN <<>> ELSE <<Unknown>>))>>,
            !.deps = list]
       /\ deps' = list
  /\ UNCHANGED <<run, pc, readVars, minimizeVars, editVars, providerVars, sourceTextVars, suffixVars>>

(* What is done stays so. *)
Ended ==
  /\ \/ part = "providers" /\ visit_pc = "done"
     \/ part = "includes" /\ grep_pc = "done"
     \/ part = "suffix" /\ find_pc = "done"
  /\ UNCHANGED <<part, providerVars, sourceTextVars, suffixVars, vars>>

DwyuNext == IndexHeaders \/ LookUpIncludes \/ FindASuffix \/ CompareDeps \/ UseIndex \/ UseSource \/ Ended
\* Only targets whose includes are known.
EditsSpec ==
  /\ part = "edits" /\ Init /\ NoProject /\ NoText /\ NoKeys
  /\ [][CompareDeps]_<<part, providerVars, sourceTextVars, suffixVars, vars>>

DwyuSpec == DwyuInit /\ [][DwyuNext]_<<part, providerVars, sourceTextVars, suffixVars, vars>>

-----------------------------------------------------------------------------
(* From the rules and the text to the edits: a library of which the source *)
(* includes a header by one of the paths it provides it under is among the *)
(* dependencies in the end, or another one that provides it, if one was    *)
(* before or there is only one (CreateEditsForTarget()).                   *)
IncludesKeepTheirLibrary ==
  (part = "edits" /\ files # <<>> /\ pc = "done") =>
    \A w \in {Looking!WordOf(d) : d \in Looking!Directives} :
      LET by == LibsOf(Providing!Providers(ThePaths[w])) IN
      (~Looking!IsOwnFile(w) /\ (by \cap Libs(deps) # {} \/ Cardinality(by) = 1))
        => by \cap Libs(Edited) # {}

(* What the comparison relies on: the includes of ordinary lines are found *)
(* and removals possible only if each has its libraries (SourceIncludes);  *)
(* aliases provide what their library does, headers of a proto are those   *)
(* of the libraries made from it, a generated file is that of the first    *)
(* genrule (HeaderProviders); FindBySuffix() finds what shares most.       *)
WhatIsHandedOverIsTrue ==
  /\ Looking!OrdinaryIncludesAreFound
  /\ Looking!EveryIncludeIsAccountedFor
  /\ Providing!AliasesProvideWhatTheyName
  /\ Providing!ProtoHeadersHaveTheirLibrary
  /\ Providing!FilesHaveOneCreator
  /\ Finding!TheBestMatchIsFound
=============================================================================
