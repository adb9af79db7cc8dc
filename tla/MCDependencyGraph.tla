------------------------- MODULE MCDependencyGraph -------------------------
(***************************************************************************)
(* Small worlds for DependencyGraph and for CompilationDb, which collects  *)
(* in its callback.                                                        *)
(*                                                                         *)
(* Graphs: two packages, three targets, every combination of a handful of  *)
(* rules, BUILD file states, patterns, depths.  Projects: a library of     *)
(* ours next to an alias, two libraries of an external project, protobuf,  *)
(* a project with a similar name, and one without directory.  What the     *)
(* library depends on, what the alias names and what the others need is    *)
(* free.                                                                   *)
(***************************************************************************)
EXTENDS CompilationDb

CONSTANTS
  a, b, c, \* targets of the graphs
  app, test, named, inc, rpc, proto, any, like, gone  \* and of the projects

GraphTargets == {a, b, c}
ProjectTargets == {app, test, named, inc, rpc, proto, any, like, gone}
Targets == GraphTargets \cup ProjectTargets
GraphPackages == {"p", "q"}
Packages == GraphPackages \cup {"ours", "tests", "x", "protobuf", "like", "gone"}
ThePackageOf ==
  [t \in Targets |->
    CASE t \in {a, b} -> "p" [] t = c -> "q"
      [] t \in {app, named} -> "ours" [] t = test -> "tests" [] t \in {inc, rpc} -> "x"
      [] t \in {proto, any} -> "protobuf" [] t = like -> "like" [] t = gone -> "gone"]

-----------------------------------------------------------------------------
(* Graphs.                                                                 *)

Named(t, deps) == [target |-> t, follow |-> deps]

\* Two rules in p, in both orders, and one in q: cycles, self references,
\* dependencies listed twice, targets nobody declares.
LocalRules ==
  {<<Named(a, x), Named(b, y)>> :
     x \in {<<>>, <<b>>, <<c, b>>, <<c, c>>},
     y \in {<<>>, <<a>>, <<b, c>>, <<c>>}}
  \cup {<<Named(b, x), Named(a, y)>> :
     x \in {<<a>>, <<c>>}, y \in {<<b>>, <<c, a>>}}

\* The same name declared twice, as an unfinished edit of a BUILD file leaves it.
TwiceDeclared ==
  {<<Named(a, x), Named(a, y)>> : x \in {<<b>>, <<c>>}, y \in {<<>>, <<c, a>>}}

RemoteRules == {<<>>, <<Named(c, <<>>)>>, <<Named(c, <<a, b>>)>>,
                <<Named(c, <<b>>)>>}

InGraph(here, there, elsewhere) ==
  [x \in Packages |-> CASE x = "p" -> here [] x = "q" -> there [] OTHER -> elsewhere]

Asts == {InGraph(l, r, <<>>) :
           l \in LocalRules \cup TwiceDeclared, r \in RemoteRules}

GraphWorlds ==
  [ast    : Asts,
   disk   : {InGraph("ok", d, "missing") : d \in DiskState},
   files  : {{"p"}},
   wanted : {{a}, {a, b}, {b, c}},
   depth  : {0, 1, 2, Unlimited}]
  \cup
  [ast    : Asts,
   disk   : {InGraph("ok", "ok", "missing")},
   files  : {{"p", "q"}},
   wanted : {{a}, GraphTargets},
   depth  : {0, 1, Unlimited}]

-----------------------------------------------------------------------------
(* Projects.                                                               *)

AnyString == STRING
TheProjectOf ==
  [p \in Packages |->
    CASE p \in GraphPackages \cup {"ours", "tests"} -> <<>> [] p = "x" -> <<"@x">> [] p = "protobuf" -> <<"@protobuf">>
      [] p = "like" -> <<"@proto_matchers">> [] p = "gone" -> <<"@gone">>]
ThePathOf == [p \in Packages |-> CASE p = "tests" -> <<"t">> [] p = "x" -> <<"lib">> [] OTHER -> <<>>]
TheDirectory ==
  [p \in {<<"@x">>, <<"@protobuf">>, <<"@proto_matchers">>} |->
    CASE p = <<"@x">> -> <<"x~1">> [] p = <<"@protobuf">> -> <<"protobuf~">> [] OTHER -> <<"matchers~">>]
TheProtobuf == {<<"@protobuf">>}
Virtual == <<<<"_virtual_includes", "port">>, <<"io", "_virtual_includes", "io">>>>

With(rule, name, includes, prefix, strip, files) ==
  [rule |-> rule, name |-> <<name>>, includes |-> includes, has_include_prefix |-> prefix,
   strip_include_prefix |-> strip, files |-> files]
TheDetails ==
  [t \in Targets |->
    CASE t \in GraphTargets -> With("cc_library", "graph", <<<<"inc">>>>, FALSE, <<>>, <<<<"g.cc">>>>)
      [] t = app   -> With("cc_library", "app", <<<<"inc">>>>, TRUE, <<"inc">>, <<<<"t", "a.cc">>, <<"a.h">>, <<"a.h">>>>)
      [] t = test  -> With("cc_test", "test", <<>>, FALSE, <<>>, <<<<"a.cc">>, <<"b.cc">>>>)
      [] t = named -> With("alias", "named", <<>>, FALSE, <<>>, <<>>)
      [] t = inc   -> With("cc_library", "inc", <<<<"inc">>, <<"gen">>>>, FALSE, <<"inc">>, <<<<"x.cc">>>>)
      [] t = rpc   -> With("grpc_cc_library", "rpc", <<<<"inc">>>>, TRUE, <<"strip">>, <<<<"rpc.cc">>>>)
      [] t = proto -> With("cc_library", "protobuf", <<<<"src">>>>, TRUE, <<>>, <<<<"p.cc">>>>)
      [] t = any   -> With("proto_library", "port", <<>>, FALSE, <<>>, <<>>)
      [] t = like  -> With("cc_library", "like", <<>>, FALSE, <<>>, <<<<"l.cc">>>>)
      [] t = gone  -> With("cc_library", "gone", <<>>, FALSE, <<>>, <<>>)]

Lists == {<<>>} \cup {<<t>> : t \in ProjectTargets \ {app, test}}
         \cup {l \in {named, inc, rpc, proto} \X {named, inc, any, like} : l[1] # l[2]}
WorldOf(deps, actual, needs, wanted, disk) ==
  [ast |-> [p \in Packages |->
      CASE p = "ours" -> <<Named(app, deps), Named(named, <<actual>>)>>
        [] p = "tests" -> <<Named(test, <<app>>)>>
        [] p = "x" -> <<Named(inc, <<rpc>>), Named(rpc, <<needs>>)>>
        [] p = "protobuf" -> <<Named(any, <<>>), Named(proto, <<inc>>)>>
        [] p = "like" -> <<Named(like, <<proto>>)>>
        [] OTHER -> <<>>],
   disk |-> [p \in Packages |-> IF p = "gone" THEN disk ELSE "ok"],
   files |-> {"ours", "tests"}, wanted |-> wanted, depth |-> 30]
ProjectWorlds ==
  {WorldOf(deps, actual, needs, wanted, disk) :
     deps \in Lists, actual \in {inc, any, like}, needs \in {proto, gone},
     wanted \in {{app}, {app, test, inc}}, disk \in {"missing", "unreadable"}}

TheWorlds == GraphWorlds \cup ProjectWorlds

ASSUME ProjectsAssumption == KeysTellDirectories
=============================================================================
