---------------------------- MODULE BazelPattern ----------------------------
(***************************************************************************)
(* Patterns (bant/types-bazel.cc, BazelPattern and BazelPatternBundle):    *)
(* those of the command line or of a visibility attribute are read one by  *)
(* one into a bundle, which is then asked which targets and packages match.*)
(***************************************************************************)
EXTENDS BazelTarget

Seqs == INSTANCE SequencesExt

CONSTANTS
  WrittenPatterns, \* records: text, source, context; and the kind, package and name that are meant
  Asked,           \* the targets there are
  MaxPatterns      \* bound: patterns in a bundle

VARIABLES
  patterns,     \* the patterns of the bundle
  finished,     \* Finish() was called
  has_filter,
  source,       \* "command line" or "visibility": where the patterns are from
  meanings      \* the meanings of the patterns read so far

patternVars == <<patterns, finished, has_filter, source, meanings>>

Ellipsis == <<".", ".", ".">>
EndsWith(s, end) == Seqs!IsSuffix(end, s)

AlwaysMatch == [kind |-> "always", pattern |-> Target(BazelPackage(<<>>, <<>>), <<>>), regex |-> <<>>]
Expressions == Seq(Characters \cup {".*", "any"})
Patterns == [kind : {"always", "exact", "regex", "package", "recursive"},
             pattern : [package : [project : Text, path : Text], target_name : Text],
             regex : Expressions]
Pattern(kind, package, name, regex) == [kind |-> kind, pattern |-> Target(package, name), regex |-> regex]

(* "." means any character behind the last star: that part is not quoted.  *)
(* No text has another character that means something in an expression.    *)
ASSUME ExpressionsAssumption ==
  Characters \cap {"+", "?", "(", ")", "[", "]", "{", "}", "|", "^", "$"} = {}
Assembled(glob) ==
  LET Star(i) == glob[i] = "*"
      Suppressed(i) == Star(i) /\ i > 1 /\ Star(i - 1)
      Part(i) == IF Star(i) THEN ".*"
                 ELSE IF glob[i] = "." /\ i > Last(glob, "*") THEN "any" ELSE glob[i]
      assembled[n \in Nat] ==
        IF n = 0 THEN <<>>
        ELSE IF Suppressed(n) THEN assembled[n - 1] ELSE Append(assembled[n - 1], Part(n))
  IN assembled
GlobbingToRE2(glob) == Assembled(glob)[Len(glob)]

(* Where in the text the expression may be after its first n parts.        *)
Reached(regex, s) ==
  LET reached[n \in Nat] ==
        IF n = 0 THEN {1}
        ELSE IF regex[n] = ".*" THEN {k \in 1..(Len(s) + 1) : \E j \in reached[n - 1] : j <= k}
        ELSE {j + 1 : j \in {j \in reached[n - 1] : j <= Len(s) /\ regex[n] \in {"any", s[j]}}}
  IN reached
FullMatch(regex, s) == Len(s) + 1 \in Reached(regex, s)[Len(regex)]

\* Mutant: the slash in front of the dots stays.
CutSlash(path) == SubSeq(path, 1, Len(path) - 3)
Cut(path) == SubSeq(path, 1, IF Len(path) > 3 THEN Len(path) - 4 ELSE Len(path) - 3)

PatternParseFrom(text, context) ==
  LET t    == ParseFrom(text, context)
      p    == t.package
      name == t.target_name
  IN IF t = Rejected THEN Rejected
     ELSE IF name \in {<<"__pkg__">>, <<"all">>, <<"*">>} THEN Pattern("package", p, <<>>, <<>>)
     ELSE IF name = <<"__subpackages__">> THEN Pattern("recursive", p, <<>>, <<>>)
     ELSE IF p.path = Ellipsis \/ EndsWith(p.path, <<"/">> \o Ellipsis)
     THEN Pattern("recursive", [p EXCEPT !.path = Cut(@)], <<>>, <<>>)
     ELSE IF name = Ellipsis
     THEN IF p.path # <<>> THEN Rejected ELSE Pattern("recursive", p, <<>>, <<>>)
     ELSE IF Has(name, "*") THEN Pattern("regex", p, <<>>, GlobbingToRE2(name))
     ELSE Pattern("exact", p, name, <<>>)

Visibility(what) == <<"/", "/", "visibility", ":", what>>
ParseVisibility(text, context) ==
  IF text = Visibility("public") THEN AlwaysMatch
  ELSE IF text = Visibility("private") THEN Pattern("package", context, <<>>, <<>>)
  ELSE IF EndsWith(text, Ellipsis) \/ (text # <<>> /\ text[Len(text)] \in {"__pkg__", "__subpackages__"})
  THEN PatternParseFrom(text, context)
  ELSE AlwaysMatch

MatchPackage(p, package) ==
  CASE p.kind = "always" -> TRUE
    [] p.kind \in {"exact", "regex", "package"} -> package = p.pattern.package
    [] p.kind = "recursive" ->
         LET me == p.pattern.package IN
         /\ package.project = me.project
         /\ \/ me.path \in {<<>>, package.path}
            \/ Seqs!IsPrefix(me.path \o <<"/">>, package.path)

MatchTarget(p, t) ==
  CASE p.kind = "exact" -> t = p.pattern
    [] p.kind = "regex" -> t.package = p.pattern.package /\ FullMatch(p.regex, t.target_name)
    [] OTHER -> MatchPackage(p, t.package)

is_recursive(p) == p.kind \in {"recursive", "always"}

BundleMatchTarget(b, t) == \E i \in DOMAIN b : MatchTarget(b[i], t)
BundleMatchPackage(b, package) == \E i \in DOMAIN b : MatchPackage(b[i], package)

-----------------------------------------------------------------------------
(* What is written: all targets of a package, or below it, or those whose  *)
(* names are a name in which each star stands for any text.                *)
PartEnds(path) == {Len(path)} \cup {i - 1 : i \in {i \in DOMAIN path : path[i] = "/"}}
IsBelow(package, top) ==
  /\ package.project = top.project
  /\ top.path = <<>> \/ \E n \in PartEnds(package.path) : SubSeq(package.path, 1, n) = top.path
\* Each part of the name begins where the one before it ends.
FillsIn(name, glob) ==
  \E begin \in [1..(Len(glob) + 1) -> 1..(Len(name) + 1)] :
    /\ begin[1] = 1 /\ begin[Len(glob) + 1] = Len(name) + 1
    /\ \A i \in 1..Len(glob) :
         IF glob[i] = "*" THEN begin[i] <= begin[i + 1]
         ELSE begin[i + 1] = begin[i] + 1 /\ name[begin[i]] = glob[i]
IsMeant(w, t) ==
  CASE w.kind = "targets"  -> t.package = w.package /\ FillsIn(t.target_name, w.name)
    [] w.kind = "package"  -> t.package = w.package
    [] w.kind = "below"    -> IsBelow(t.package, w.package)
    [] w.kind = "anything" -> TRUE

MeaningOf == [w \in WrittenPatterns |-> {t \in Asked : IsMeant(w, t)}]

(* The labels it is written as, each in any of its spellings.  No "." is   *)
(* behind the last star, where it is any character, and //foo/... is not   *)
(* combined with other names than "...".                                   *)
EndsInDots(path) == path = Ellipsis \/ EndsWith(path, <<"/">> \o Ellipsis)
WithDots(p) == [p EXCEPT !.path = IF @ = <<>> THEN Ellipsis ELSE @ \o <<"/">> \o Ellipsis]
PackageNames == {<<"all">>, <<"*">>, <<"__pkg__">>}
DotsAreQuoted(name) == \A i \in DOMAIN name : name[i] = "." => ~Has(name, "*") \/ i < Last(name, "*")
IsPlainName(name) ==
  name \notin PackageNames \cup {<<>>, <<"__subpackages__">>, Ellipsis} /\ DotsAreQuoted(name)
LabelsOf(w) ==
  CASE w.kind = "targets" -> {Target(w.package, w.name)}
    [] w.kind = "package" -> {Target(w.package, name) : name \in PackageNames}
    [] w.kind = "below"   -> {Target(w.package, <<"__subpackages__">>), Target(WithDots(w.package), Ellipsis)}
                             \cup (IF w.package.path = <<>> THEN {Target(w.package, Ellipsis)} ELSE {})
    [] OTHER -> {}
IsSpelled(w, labels) ==
  /\ IsPackage(w.package) /\ ~EndsInDots(w.package.path)
  /\ \E l \in labels : IsTargetOf(l, w.context) /\ w.text \in Spellings(l, w.context)

(* On the command line, and in a visibility attribute, where the name of a *)
(* group of packages stands for all of them.                               *)
LooksLikePattern(name) == name \in {<<"__pkg__">>, <<"__subpackages__">>, Ellipsis}
IsTyped(w) ==
  /\ w.context = BazelPackage(<<>>, <<>>)
  /\ IsSpelled(w, LabelsOf(w))
  /\ w.kind = "targets" => w.name \in Text /\ IsPlainName(w.name)
IsAttribute(w) ==
  \/ w.text = Visibility("public") /\ w.kind = "anything"
  \/ w.text = Visibility("private") /\ w.kind = "package" /\ w.package = w.context
  \/ w.kind # "targets" /\ IsSpelled(w, {l \in LabelsOf(w) : LooksLikePattern(l.target_name)})
  \/ /\ w.kind = "anything" /\ w.text \notin {<<>>, Visibility("private")}
     /\ w.text[Len(w.text)] \notin {".", "__pkg__", "__subpackages__"}
ASSUME PatternsAssumption ==
  /\ \A w \in WrittenPatterns :
       /\ w.text \in Text /\ IsPackage(w.context)
       /\ \/ w.source = "command line" /\ IsTyped(w)
          \/ w.source = "visibility" /\ IsAttribute(w)
  /\ Asked \subseteq [package : [project : Text, path : Text], target_name : Text]
  /\ {".", "*"} \subseteq Characters /\ {".*", "any"} \cap Characters = {}
  /\ Rejected \notin Patterns

-----------------------------------------------------------------------------
PatternInit ==
  /\ patterns = <<>> /\ meanings = {}
  /\ finished = FALSE /\ has_filter = FALSE
  /\ source \in {"command line", "visibility"}

AddPattern(p, w) ==
  /\ ~finished /\ w.source = source /\ Len(patterns) < MaxPatterns
  /\ patterns' = IF p = Rejected THEN patterns ELSE Append(patterns, p)
  /\ meanings' = meanings \cup {MeaningOf[w]}
  /\ UNCHANGED <<finished, has_filter, source>>

AddCommandLine == \E w \in {w \in WrittenPatterns : w.source = "command line"} :
                    AddPattern(PatternParseFrom(w.text, BazelPackage(<<>>, <<>>)), w)
AddVisibility == \E w \in {w \in WrittenPatterns : w.source = "visibility"} :
                    AddPattern(ParseVisibility(w.text, w.context), w)

Finish ==
  /\ ~finished
  /\ finished' = TRUE
  /\ has_filter' = (patterns # <<>>)
  /\ patterns' = IF patterns = <<>> THEN <<AlwaysMatch>> ELSE patterns
  /\ UNCHANGED <<source, meanings>>

PatternNext == AddCommandLine \/ AddVisibility \/ Finish
PatternSpec == PatternInit /\ [][PatternNext]_patternVars

-----------------------------------------------------------------------------
Meant == IF meanings = {} THEN Asked ELSE UNION meanings

(* A bundle matches the targets its patterns mean, part by part of their   *)
(* paths and star by star of their names, and all if there is none:        *)
(* //foo/... is foo and what is below it, and never foobar.  (No name has  *)
(* a "." behind its last star, where it is any character.)                 *)
MatchesAreMeant == finished => {t \in Asked : BundleMatchTarget(patterns, t)} = Meant

(* A target that matches is found: its package matches as well, and the    *)
(* search for BUILD files, which starts at the path of a pattern and       *)
(* descends only if the pattern is_recursive(), comes to it.               *)
MatchesAreReached ==
  finished => \A t \in {t \in Asked : BundleMatchTarget(patterns, t)} :
             /\ BundleMatchPackage(patterns, t.package)
             /\ \E i \in DOMAIN patterns :
                  LET start == patterns[i].pattern.package.path IN
                  \/ start = t.package.path
                  \/ /\ is_recursive(patterns[i])
                     /\ start = <<>> \/ Seqs!IsPrefix(start \o <<"/">>, t.package.path)

(* What BazelPattern promises of a BazelPatternBundle: it matches the      *)
(* targets its patterns mean, and the search comes to what it matches      *)
(* (FillFromPattern).                                                      *)
PatternsMatchWhatIsMeant == MatchesAreMeant /\ MatchesAreReached
=============================================================================
