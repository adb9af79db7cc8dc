-------------------------- MODULE MCClangTidyCache --------------------------
(***************************************************************************)
(* Small projects for ClangTidyCache.                                      *)
(***************************************************************************)
EXTENDS ClangTidyCache

CONSTANTS
  source, header, other_header,          \* files
  source_name, header_name, other_name,  \* their names
  s0, s1, h0, h1, i0, i1,                \* contents
  w1, w2                                 \* threads

TwoWorkers == {w1, w2}
Names == {source_name, header_name, other_name}
Contents == {s0, s1, h0, h1, i0, i1}
Triple == {source, header, other_header}
TripleHeaders == {header, other_header}

\* A source that includes a header that may include another one, which is outside
\* of start_dir, names all different.
Pair == {source, header}
ChainNames ==
  [f \in Triple |-> CASE f = source -> source_name
                      [] f = header -> header_name
                      [] f = other_header -> other_name]
ChainTexts ==
  [f \in Triple |-> CASE f = source -> {s1}
                      [] f = header -> {h0, h1}
                      [] f = other_header -> {i0, i1}]
ChainIncludes ==
  [c \in Contents |-> CASE c = s1 -> <<header>>
                        [] c = h1 -> <<other_header>>
                        [] OTHER  -> <<>>]

\* A source that includes two headers of the same name.
TwinNames == [f \in Triple |-> IF f = source THEN source_name ELSE header_name]
TwinIncludes ==
  [c \in Contents |-> IF c \in {s0, s1} THEN <<header, other_header>> ELSE <<>>]
DifferentTexts ==
  [f \in Triple |-> CASE f = source -> {s0}
                      [] f = header -> {h0, h1}
                      [] f = other_header -> {i0}]

\* Two headers of the same name with the same content, as copies are.
SameTexts == [f \in Triple |-> IF f = source THEN {s0, s1} ELSE {h0}]
=============================================================================
