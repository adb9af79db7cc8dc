--------------------------- MODULE SourceIncludes ---------------------------
(***************************************************************************)
(* From the text of a source to the libraries it needs (bant/tool/dwyu.cc, *)
(* ExtractCCIncludes() and the loop over its result): a regular expression *)
(* is run over the text again and again, then each include is looked for   *)
(* in the target's own files and in the index of headers.                  *)
(*                                                                         *)
(* A text is a sequence of "\n", " ", "#", "include", Quote, words that    *)
(* may stand between quotes, and "x" for all else; a path is the sequence  *)
(* of its parts, the first being "" if it begins with a slash.             *)
(***************************************************************************)
EXTENDS Naturals, Sequences, FiniteSets

CONSTANTS
  Texts,
  Words,      \* what may stand between the quotes of an include
  Accepted,   \* those of them the regular expression takes for a path
  PathOf,     \* the path a word is
  Targets,    \* records [package, files]: its path, and the srcs and hdrs as they are written
  Indexes     \* headers_from_libs_: path to the set of libraries

(* The files of a target are paths; that of a package may be empty.        *)
TargetsAssumption == \A t \in Targets : \A f \in t.files : f \in Seq(STRING)

NewLine == "\n"
Space == " "
Hash == "#"
Quote == "\""
Blank == {Space, NewLine}
(* There are no blanks and no quotes in what stands between two quotes.    *)
TextsAssumption ==
  /\ Texts \subseteq Seq(STRING)
  /\ Accepted \subseteq Words /\ Words \cap {Space, NewLine, Quote} = {}

VARIABLES
  text, target, index,
  is_generated,  \* the source was not found in the source tree
  pc,
  run,           \* where the rest of the text begins
  in_quotes,     \* best_effort_in_nested_quote_toggle
  result,        \* the includes, later pound_includes
  looked_at,     \* how many of them have been looked for
  needed,        \* the sets of libraries found, before their visibility is considered
  all_known,     \* all_headers_accounted_for
  reported       \* includes with the message "header relative to this file"

vars == <<text, target, index, is_generated, pc, run, in_quotes, result, looked_at, needed,
          all_known, reported>>
sourceVars == <<text, target, index, is_generated>>
lookupVars == <<looked_at, needed, all_known, reported>>

At(i, atoms) == i \in DOMAIN text /\ text[i] \in atoms
\* The first place from i on that has none of these; \s* if they are Blank.
Skip(i, atoms) == CHOOSE k \in i..(Len(text) + i) : ~At(k, atoms) /\ \A l \in i..(k - 1) : At(l, atoms)

(* The second half of the expression, from i on: the places of the word.   *)
(* What was consumed is no longer there, so that "^" is the beginning of   *)
(* the rest, too.                                                          *)
IncludeFrom(i) ==
  LET hash == Skip(i, Blank)
      include == Skip(hash + 1, Blank)
      quote == Skip(include + 1, Blank)
  IN {w \in {quote + 1} : /\ i = run \/ At(i - 1, {NewLine})
                          /\ At(hash, {Hash}) /\ At(include, {"include"})
                          /\ quote > include + 1
                          /\ At(quote, {Quote}) /\ At(w, Accepted) /\ At(w + 1, {Quote})}
Matches == {i \in run..Len(text) : text[i] = Quote \/ IncludeFrom(i) # {}}
First(s) == CHOOSE i \in s : \A k \in s : i <= k

-----------------------------------------------------------------------------
(* ExtractCCIncludes()                                                     *)

Init ==
  /\ text \in Texts /\ target \in Targets /\ index \in Indexes /\ is_generated \in BOOLEAN
  /\ pc = "grep" /\ run = 1 /\ in_quotes = FALSE /\ result = <<>>
  /\ looked_at = 0 /\ needed = <<>> /\ all_known = TRUE /\ reported = {}

\* Mutant: a string never ends.
NotToggled == TRUE
Toggled == ~in_quotes

FindQuote ==
  /\ pc = "grep" /\ Matches # {}
  /\ At(First(Matches), {Quote})
  /\ in_quotes' = Toggled
  /\ run' = First(Matches) + 1
  /\ UNCHANGED <<sourceVars, pc, result, lookupVars>>

FindInclude ==
  /\ pc = "grep" /\ Matches # {}
  /\ \E w \in IncludeFrom(First(Matches)) :
       /\ result' = (IF in_quotes THEN result ELSE Append(result, text[w]))
       /\ run' = w + 2
  /\ UNCHANGED <<sourceVars, pc, in_quotes, lookupVars>>

NothingFound ==
  /\ pc = "grep" /\ Matches = {}
  /\ pc' = "look"
  /\ UNCHANGED <<sourceVars, run, in_quotes, result, lookupVars>>

-----------------------------------------------------------------------------
(* DependenciesNeededBySources(), for each include.                        *)

Prefixed(path, item) == (IF path = <<>> THEN <<"">> ELSE path) \o item
IsHeaderInList(header, list, prefix_path) ==
  \E item \in list : header = item \/ header = Prefixed(prefix_path, item)
QualifiedFile(path) == target.package \o path

InCommon(p, q) ==
  Cardinality({n \in 1..Len(p) : /\ n <= Len(q)
                                 /\ \A m \in 0..(n - 1) : p[Len(p) - m] = q[Len(q) - m]})
MinFuzzyPaths == 2
(* What FindBySuffix() may answer, see the module SuffixIndex: this very   *)
(* path, or else one that has most in common with it, if that is enough.   *)
FindBySuffix(path) ==
  IF path \in DOMAIN index THEN {path}
  ELSE {p \in DOMAIN index : /\ InCommon(path, p) >= MinFuzzyPaths
                             /\ \A q \in DOMAIN index : InCommon(path, p) >= InCommon(path, q)}

inc_file == PathOf[result[looked_at + 1]]
IsOwn == IsHeaderInList(inc_file, target.files, target.package)
IsOwnWithoutPrefix == IsHeaderInList(inc_file, target.files, <<>>)

NextInclude ==
  /\ pc = "look" /\ looked_at < Len(result)
  /\ looked_at' = looked_at + 1
  /\ UNCHANGED <<sourceVars, pc, run, in_quotes, result>>
(* Nobody can do anything about a generated file. *)
Report == reported' = IF is_generated THEN reported ELSE reported \cup {result[looked_at + 1]}

OwnHeader ==
  /\ NextInclude
  /\ IsOwn
  /\ UNCHANGED <<needed, all_known, reported>>

OwnHeaderWithoutPrefix ==
  /\ NextInclude
  /\ ~IsOwn /\ IsOwnWithoutPrefix
  /\ Report
  /\ UNCHANGED <<needed, all_known>>

FromLibrary ==
  /\ NextInclude
  /\ ~IsOwn /\ ~IsOwnWithoutPrefix
  /\ \E match \in FindBySuffix(inc_file) : needed' = Append(needed, index[match])
  /\ UNCHANGED <<all_known, reported>>

FromLibraryOfThisPackage ==
  /\ NextInclude
  /\ ~IsOwn /\ ~IsOwnWithoutPrefix /\ FindBySuffix(inc_file) = {}
  /\ \E match \in FindBySuffix(QualifiedFile(inc_file)) : needed' = Append(needed, index[match])
  /\ Report
  /\ UNCHANGED all_known

FromNowhere ==
  /\ NextInclude
  /\ ~IsOwn /\ ~IsOwnWithoutPrefix
  /\ FindBySuffix(inc_file) = {} /\ FindBySuffix(QualifiedFile(inc_file)) = {}
  /\ all_known' = FALSE
  /\ UNCHANGED <<needed, reported>>

AllLookedAt ==
  /\ pc = "look" /\ looked_at = Len(result)
  /\ pc' = "done"
  /\ UNCHANGED <<sourceVars, run, in_quotes, result, lookupVars>>

Next == \/ FindQuote \/ FindInclude \/ NothingFound
        \/ OwnHeader \/ OwnHeaderWithoutPrefix \/ FromLibrary \/ FromLibraryOfThisPackage \/ FromNowhere
        \/ AllLookedAt
Spec == Init /\ [][Next]_vars

-----------------------------------------------------------------------------
(* What a preprocessor sees: lines that begin with an include directive.   *)

LineBegins == {1} \cup {i + 1 : i \in {k \in DOMAIN text : text[k] = NewLine}}
Line(b) == {k \in b..Len(text) : \A l \in b..k : text[l] # NewLine}
HashOf(b) == Skip(b, {Space})
IncludeOf(b) == Skip(HashOf(b) + 1, {Space})
QuoteOf(b) == Skip(IncludeOf(b) + 1, {Space})
WordOf(b) == text[QuoteOf(b) + 1]
IsDirective(b) ==
  /\ At(HashOf(b), {Hash}) /\ At(IncludeOf(b), {"include"})
  /\ At(QuoteOf(b), {Quote}) /\ At(QuoteOf(b) + 1, Words) /\ At(QuoteOf(b) + 2, {Quote})
Directives == {b \in LineBegins : IsDirective(b)}

(* A line as everybody writes it: quotes in pairs, and if it has a "#",    *)
(* that of an include with a path of the usual kind, set off by a space.   *)
Within(places, atom) == {k \in places : text[k] = atom}
IsOrdinary(b) ==
  /\ Cardinality(Within(Line(b), Quote)) % 2 = 0
  /\ \A h \in Within(Line(b), Hash) :
       h = HashOf(b) /\ IsDirective(b) /\ WordOf(b) \in Accepted /\ QuoteOf(b) > IncludeOf(b) + 1
OrdinaryUpTo(b) == \A c \in LineBegins : c <= b => IsOrdinary(c)

(* When the includes are looked for: of a text of ordinary lines exactly   *)
(* the include directives were found, and in their order; those in front   *)
(* of any other line always are.                                           *)
OrdinaryIncludesAreFound ==
  pc = "look" =>
    /\ \A b \in Directives : OrdinaryUpTo(b) =>
         LET n == Cardinality({c \in Directives : c <= b})
         IN n <= Len(result) /\ result[n] = WordOf(b)
    /\ (\A b \in LineBegins : IsOrdinary(b)) => Len(result) = Cardinality(Directives)

(* If removals are allowed, then each include that was found is either a   *)
(* file of the target or there is a set of libraries for it, one of which  *)
(* provides this header if any does; and no other library is needed.       *)
Root(w) == PathOf[w]
Here(w) == target.package \o PathOf[w]
IsOwnFile(w) == \E f \in target.files : Root(w) \in {f, <<"">> \o f, target.package \o f}
ProvidersOf(w) ==
  IF Root(w) \in DOMAIN index THEN {index[Root(w)]}
  ELSE {index[p] : p \in {q \in DOMAIN index : \E r \in {Root(w), Here(w)} : InCommon(r, q) >= 2 \/ q = r}}
ForeignUpTo(m) == {n \in 1..m : ~IsOwnFile(result[n])}
EveryIncludeIsAccountedFor ==
  (pc = "done" /\ all_known) =>
    /\ Len(needed) = Cardinality(ForeignUpTo(Len(result)))
    /\ \A n \in ForeignUpTo(Len(result)) : needed[Cardinality(ForeignUpTo(n))] \in ProvidersOf(result[n])
=============================================================================
