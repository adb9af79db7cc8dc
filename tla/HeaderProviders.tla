-------------------------- MODULE HeaderProviders --------------------------
(***************************************************************************)
(* Which target provides which header and which file is made by which      *)
(* genrule (bant/explore/header-providers.cc, bant/explore/aliased-by.cc): *)
(* the files of the project are visited in the order of their packages,    *)
(* with the aliases collected before.  A path is the sequence of its       *)
(* parts; the ":" that may be in front of a local file is one of them.     *)
(***************************************************************************)
EXTENDS Naturals, Sequences

CONSTANT ProjectFiles   \* the projects: sequences of BUILD files, sorted by package

(* The packages of this project come before those of others: theirs have   *)
(* the empty name in front.                                                *)
Range(s) == {s[i] : i \in DOMAIN s}
IsSequence(s) == s \in Seq(Range(s))
ProjectsAssumption ==
  \A f \in ProjectFiles :
    /\ IsSequence(f)
    /\ \A n \in DOMAIN f : IsSequence(f[n].rules) /\ \A r \in Range(f[n].rules) : IsSequence(r.outs)
    /\ \A m, n \in DOMAIN f : m < n /\ f[n].package.project = "" => f[m].package.project = ""

VARIABLES
  files,        \* ParsedFiles(): records of a package and a sequence of rules
  pc,           \* "aliases", "headers", "genrules" or "done"
  visited,      \* how many files the loop is done with
  aliased_by,   \* pairs <<actual, alias>>
  provided,     \* pairs <<path, target>>: ProvidedFromTargetSet
  generated,    \* pairs <<path, target>>, one for a path: ProvidedFromTarget
  reported      \* the paths with two creators that were complained about

vars == <<files, pc, visited, aliased_by, provided, generated, reported>>

Sequence == INSTANCE SequencesExt

QualifiedTarget(package, rule) == [package |-> package, name |-> rule.name]

(* The ":" goes. *)
QualifiedFile(package, file) == package.path \o (IF Head(file) = ":" THEN Tail(file) ELSE file)

WithoutFront(path, part) ==
  IF path # <<>> /\ Head(path) = part
  THEN LET rest == {i \in DOMAIN path : path[i] # part}
       IN SubSeq(path, CHOOSE i \in rest : \A j \in rest : i <= j, Len(path))
  ELSE path
LightCanonicalizePath(path) == WithoutFront(WithoutFront(path, "."), "")

IsBelow(path, dir) == Len(path) > Len(dir) /\ Sequence!IsPrefix(dir, path)
Behind(path, dir) == SubSeq(path, Len(dir) + 1, Len(path))
StripIfNeeded(path, strip) == IF strip # <<>> /\ IsBelow(path, strip) THEN Behind(path, strip) ELSE path

(* The paths that a header of a library can be included with. *)
StringView == <<"string_view.h">>
IncludedAs(package, lib, header) ==
  LET fqn == QualifiedFile(package, header)
      Skipped == /\ header = StringView /\ Sequence!IsSuffix(<<"absl", "strings">>, package.path)
                 /\ StringView \in Range(lib.hdrs) \cap Range(lib.textual_hdrs)
  IN IF Skipped THEN {}
     ELSE IF lib.include_prefix # <<>> THEN {lib.include_prefix \o header}
     ELSE {StripIfNeeded(fqn, lib.strip_prefix)}
          \cup {Behind(fqn, dir) : dir \in {d \in Range(lib.includes) : IsBelow(fqn, d)}}

WithAliases(target) == {target} \cup {a[2] : a \in {a \in aliased_by : a[1] = target}}
ProvidedBy(keys, target) == keys \X WithAliases(target)

RulesOf(file, names) == {r \in Range(file.rules) : r.rule \in names}

CCLibraryHeaders(file) ==
  UNION {LET keys == UNION {IncludedAs(file.package, lib, h) : h \in Range(lib.hdrs) \cup Range(lib.textual_hdrs)}
         IN ProvidedBy({LightCanonicalizePath(k) : k \in keys}, QualifiedTarget(file.package, lib))
         : lib \in RulesOf(file, {"cc_library", "grpc_cc_library"})}

(* The libraries of one kind made from a proto_library; the first is kept. *)
CCProtoLibrary(file, proto, is_grpc) ==
  SelectSeq(file.rules, LAMBDA r : IF is_grpc THEN r.rule = "cc_grpc_library" /\ proto \in Range(r.srcs)
                                   ELSE r.rule = "cc_proto_library" /\ proto \in Range(r.deps))

(* A source of a proto_library is a record of a directory and a name. *)
ProtoHeaders(package, lib, is_grpc) ==
  {StripIfNeeded(QualifiedFile(package, src.dir \o <<src.stem \o (IF is_grpc THEN ".grpc" ELSE "") \o suffix>>),
                 lib.strip_prefix)
   : src \in {s \in Range(lib.protos) : s.is_proto}, suffix \in {".pb.h", ".proto.h"}}

ProtoLibraryHeaders(file) ==
  UNION {UNION {LET found == CCProtoLibrary(file, QualifiedTarget(file.package, lib), is_grpc)
                IN IF found = <<>> THEN {}
                   ELSE ProvidedBy(ProtoHeaders(file.package, lib, is_grpc),
                                   QualifiedTarget(file.package, found[1]))
                : is_grpc \in BOOLEAN}
         : lib \in RulesOf(file, {"proto_library"})}

-----------------------------------------------------------------------------
Init ==
  /\ files \in ProjectFiles
  /\ pc = "aliases" /\ visited = 0
  /\ aliased_by = {} /\ provided = {} /\ generated = {} /\ reported = {}

ExtractAliasedBy ==
  /\ pc = "aliases"
  /\ aliased_by' = UNION {{<<r.actual, QualifiedTarget(f.package, r)>> : r \in RulesOf(f, {"alias"})} : f \in Range(files)}
  /\ pc' = (IF files = <<>> THEN "done" ELSE "headers")
  /\ UNCHANGED <<files, visited, provided, generated, reported>>

(* The loops over the files of the project. *)
Following(next) ==
  IF visited + 1 = Len(files) THEN visited' = 0 /\ pc' = next
  ELSE visited' = visited + 1 /\ UNCHANGED pc

ExtractHeaderToLibMapping ==
  /\ pc = "headers"
  /\ LET file == files[visited + 1]
     IN provided' = provided \cup CCLibraryHeaders(file) \cup ProtoLibraryHeaders(file)
  /\ Following("genrules")
  /\ UNCHANGED <<files, aliased_by, generated, reported>>

(* What the genrules of a file make: a path and the genrule, at the places *)
(* of the genrule and of the path in its outs.                             *)
Outs(file) ==
  UNION {{<<r, o>> : o \in DOMAIN file.rules[r].outs} : r \in {r \in DOMAIN file.rules : file.rules[r].rule = "genrule"}}
Out(file, at) ==
  LET r == file.rules[at[1]] IN <<QualifiedFile(file.package, r.outs[at[2]]), QualifiedTarget(file.package, r)>>
InFront(at, other) == at[1] < other[1] \/ (at[1] = other[1] /\ at[2] < other[2])
IsMadeIn(made, path) == \E g \in made : g[1] = path

(* The first that makes a path is its creator. *)
Insert(made, file) ==
  made \cup {Out(file, at) : at \in {at \in Outs(file) :
                /\ ~IsMadeIn(made, Out(file, at)[1])
                /\ \A o \in Outs(file) : InFront(o, at) => Out(file, o)[1] # Out(file, at)[1]}}

ExtractGeneratedFromGenrule ==
  /\ pc = "genrules"
  /\ LET file == files[visited + 1]
         IsOfOther(at) == \E g \in generated' : g[1] = Out(file, at)[1] /\ g[2] # Out(file, at)[2]
     IN /\ generated' = Insert(generated, file)
        /\ reported' = reported \cup
             (IF file.package.project = "" THEN {Out(file, at)[1] : at \in {at \in Outs(file) : IsOfOther(at)}} ELSE {})
  /\ Following("done")
  /\ UNCHANGED <<files, aliased_by, provided>>

Next == ExtractAliasedBy \/ ExtractHeaderToLibMapping \/ ExtractGeneratedFromGenrule
Spec == Init /\ [][Next]_vars

-----------------------------------------------------------------------------
Providers(path) == {p[2] : p \in {p \in provided : p[1] = path}}
Rules == UNION {{[package |-> f.package, rule |-> r] : r \in Range(f.rules)} : f \in Range(files)}
Of(kinds) == {r \in Rules : r.rule.rule \in kinds}
TheTarget(r) == QualifiedTarget(r.package, r.rule)
IsAlias(target) == \E a \in Of({"alias"}) : TheTarget(a) = target

(* An alias provides what the library it names provides: wherever the     *)
(* library is, in a file visited before or after that of the alias, dwyu  *)
(* accepts either as a dependency.  (An alias of an alias provides        *)
(* nothing.)                                                              *)
AliasesProvideWhatTheyName ==
  pc = "done" => \A a \in Of({"alias"}) : \A p \in provided :
                    p[2] = a.rule.actual /\ ~IsAlias(p[2]) => <<p[1], TheTarget(a)>> \in provided

(* The headers of a proto file are those of the C++ libraries made from    *)
(* its proto_library, and of nothing else but their aliases: .pb.h those   *)
(* of cc_proto_library, .grpc.pb.h those of cc_grpc_library.               *)
ProtoHeadersHaveTheirLibrary ==
  pc = "done" =>
    \A lib \in Of({"proto_library"}) : \A src \in Range(lib.rule.protos) :
    \A kind \in {<<"cc_proto_library", ".pb.h">>, <<"cc_grpc_library", ".grpc.pb.h">>} :
      LET path == StripIfNeeded(QualifiedFile(lib.package, src.dir \o <<src.stem \o kind[2]>>), lib.rule.strip_prefix)
          makers == {TheTarget(r) : r \in {r \in Of({kind[1]}) :
                       TheTarget(lib) \in Range(r.rule.deps) \cup Range(r.rule.srcs)}}
          names == {TheTarget(a) : a \in {a \in Of({"alias"}) : a.rule.actual \in makers}}
      IN src.is_proto => Providers(path) = makers \cup names

(* The first genrule that makes a file is its creator; one of this project *)
(* comes before one of an external project, where paths look the same, and *)
(* two of this project are complained about.                               *)
FilesHaveOneCreator ==
  pc = "done" =>
    LET Made(r) == {QualifiedFile(r.package, o) : o \in Range(r.rule.outs)}
        Makers(path) == {r \in Of({"genrule"}) : path \in Made(r)}
        Home(path) == {r \in Makers(path) : r.package.project = ""}
    IN \A path \in UNION {Made(r) : r \in Of({"genrule"})} :
         /\ \E r \in Makers(path) : {g \in generated : g[1] = path} = {<<path, TheTarget(r)>>}
         /\ Home(path) # {} => \E r \in Home(path) : <<path, TheTarget(r)>> \in generated
         /\ path \in reported <=> (\E r, s \in Home(path) : TheTarget(r) # TheTarget(s))
=============================================================================
