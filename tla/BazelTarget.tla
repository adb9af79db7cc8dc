----------------------------- MODULE BazelTarget -----------------------------
(***************************************************************************)
(* Packages and targets and how they are read and printed                  *)
(* (bant/types-bazel.cc).  A text is a sequence of characters; words that  *)
(* are only compared as a whole, Words, are one element of it.             *)
(***************************************************************************)
EXTENDS Naturals, Sequences

CONSTANTS
  Characters, \* and words
  Versions,   \* of external projects, as bzlmod writes them: "~1"
  Rejected    \* std::nullopt

Words == {"all", "__pkg__", "__subpackages__", "visibility", "public", "private"}
ASSUME CharactersAssumption == {"/", ":", "@", "~"} \cup Words \subseteq Characters

Text == Seq(Characters)

ASSUME RejectedAssumption ==
  /\ Rejected \notin [project : Text, path : Text]
  /\ Rejected \notin [package : [project : Text, path : Text], target_name : Text]

BazelPackage(project, path) == [project |-> project, path |-> path]
Target(package, name) == [package |-> package, target_name |-> name]

Has(s, c) == \E i \in DOMAIN s : s[i] = c
First(s, c) == CHOOSE i \in DOMAIN s : s[i] = c /\ \A j \in 1..(i - 1) : s[j] # c
Last(s, c) == CHOOSE i \in DOMAIN s : s[i] = c /\ \A j \in (i + 1)..Len(s) : s[j] # c
Before(s, c) == IF Has(s, c) THEN SubSeq(s, 1, First(s, c) - 1) ELSE s
BeforeLast(s, c) == IF Has(s, c) THEN SubSeq(s, 1, Last(s, c) - 1) ELSE s
AfterLast(s, c) == SubSeq(s, Last(s, c) + 1, Len(s))
IsShort(s) == s = <<>> \/ (Len(s) = 1 /\ s[1] \notin Words)   \* size() < 2

(* Without the slashes at both ends. *)
Strip(s) ==
  LET inner == {i \in DOMAIN s : s[i] # "/"} IN
  IF inner = {} THEN <<>>
  ELSE SubSeq(s, CHOOSE i \in inner : \A j \in inner : i <= j, CHOOSE i \in inner : \A j \in inner : j <= i)

PackageParseFrom(str) ==
  LET s == BeforeLast(str, ":")
      project == IF s[1] = "@" THEN Before(s, "/") ELSE <<>>
      path == Strip(SubSeq(s, Len(project) + 1, Len(s)))
      DoubleSlash == \E i \in 2..Len(path) : path[i - 1] = "/" /\ path[i] = "/"
  IN IF IsShort(s) \/ DoubleSlash THEN Rejected
     ELSE BazelPackage(IF project = <<"@">> THEN <<>> ELSE Before(project, "~"), path)

(* A label without ":": the target is named like the last part. *)
Shorthand(str) ==
  IF Has(str, "/") THEN [package |-> str, target |-> AfterLast(str, "/")]
  ELSE IF str # <<>> /\ str[1] = "@" THEN [package |-> str, target |-> Tail(str)]
  ELSE [package |-> <<>>, target |-> str]

ParseFrom(str, ctx) ==
  LET part == IF ~Has(str, ":") THEN Shorthand(str)
              ELSE [package |-> Before(str, ":"), target |-> AfterLast(str, ":")]
      parsed == PackageParseFrom(part.package)
      MoreParts == Has(str, ":") /\ First(str, ":") # Last(str, ":")
  IN IF MoreParts THEN Rejected
     ELSE IF part.package = <<>> THEN Target(ctx, part.target)
     ELSE IF parsed = Rejected THEN Rejected
     ELSE Target(IF parsed.project = <<>> THEN [parsed EXCEPT !.project = ctx.project] ELSE parsed,
                 part.target)

PackageToString(p) == p.project \o <<"/", "/">> \o p.path
PackageLastElement(p) ==
  IF Has(p.path, "/") THEN AfterLast(p.path, "/")
  ELSE IF p.path # <<>> THEN p.path
  ELSE IF p.project # <<>> THEN Tail(p.project) ELSE <<>>

\* Mutant: the last part of the name is compared.
ToStringShort(t) ==
  IF PackageLastElement(t.package) = AfterLast(<<"/">> \o t.target_name, "/")
  THEN IF t.package.path = <<>> THEN t.package.project ELSE PackageToString(t.package)
  ELSE PackageToString(t.package) \o <<":">> \o t.target_name
ToString(t) ==
  IF PackageLastElement(t.package) = t.target_name
  THEN IF t.package.path = <<>> THEN t.package.project ELSE PackageToString(t.package)
  ELSE PackageToString(t.package) \o <<":">> \o t.target_name

ToStringRelativeTo(t, other) ==
  IF other # t.package THEN ToString(t) ELSE <<":">> \o t.target_name


QualifiedTarget(package, name) ==
  LET bare == IF name # <<>> /\ name[1] = ":" THEN Tail(name) ELSE name
  IN IF bare = <<>> THEN Rejected ELSE Target(package, bare)

-----------------------------------------------------------------------------
(* A package has one form: packages are compared by their path and looked *)
(* up by it, so a path is free of slashes at its ends and of empty parts, *)
(* whatever was typed, and a project is empty or "@" and a name that is    *)
(* free of versions.                                                       *)
HasOneForm(p) ==
  /\ p.path # <<>> => p.path[1] # "/" /\ p.path[Len(p.path)] # "/"
  /\ \A i \in 2..Len(p.path) : ~(p.path[i - 1] = "/" /\ p.path[i] = "/")
  /\ ~Has(p.path, ":")
  /\ p.project # <<>> => /\ p.project[1] = "@" /\ p.project # <<"@">>
                         /\ \A c \in {"/", ":", "~"} : ~Has(p.project, c)

IsPackage(p) == p \in [project : Text, path : Text] /\ HasOneForm(p)
IsTargetOf(t, ctx) ==
  /\ t \in [package : [project : Text, path : Text], target_name : Text]
  /\ HasOneForm(t.package) /\ ~Has(t.target_name, ":")
  /\ t.package.project = <<>> => ctx.project = <<>>   \* can be said there

(* No repository without a name is written: "@~1".  *)
NamesRepository(s) == ~(Len(s) > 1 /\ s[1] = "@" /\ s[2] = "~")

(* Every spelling that Bazel allows of a target, also of one of an         *)
(* external project, which may carry a version:                            *)
(* [@repo]//path[:name] as the documentation of Bazel has it.              *)
Repository(p, ctx) ==
  IF p.project = <<>> THEN {<<>>, <<"@">>}
  ELSE {p.project} \cup {p.project \o v : v \in Versions} \cup (IF p.project = ctx.project THEN {<<>>} ELSE {})
LastSegment(path) == IF Has(path, "/") THEN AfterLast(path, "/") ELSE path
Spellings(t, ctx) ==
  LET p == t.package
      long == {r \o <<"/", "/">> \o p.path : r \in Repository(p, ctx)}
  IN {s \o <<":">> \o t.target_name : s \in long}
     \cup (IF p.path # <<>> /\ t.target_name = LastSegment(p.path) THEN long ELSE {})
     \cup (IF p.path = <<>> /\ p.project = <<"@">> \o t.target_name THEN {p.project} ELSE {})
     \cup (IF p = ctx THEN {<<":">> \o t.target_name} ELSE {})
     \cup (IF p = ctx /\ ~Has(t.target_name, "/") /\ ~Has(t.target_name, "@") THEN {t.target_name} ELSE {})

ASSUME VersionsAssumption ==
  \A v \in Versions : v \in Text /\ v # <<>> /\ v[1] = "~" /\ ~Has(v, "/") /\ ~Has(v, ":")
=============================================================================
