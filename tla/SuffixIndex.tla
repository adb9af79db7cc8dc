---------------------------- MODULE SuffixIndex ----------------------------
(***************************************************************************)
(* Looking up an #include that no target provides under exactly this path  *)
(* (bant/explore/header-providers.cc, FindBySuffix): the keys of the index *)
(* are paths backwards with a "/" appended, sorted, and one binary search  *)
(* has to come to the key that shares most parts of the path's end.        *)
(***************************************************************************)
EXTENDS Naturals, Sequences, FiniteSets

CONSTANTS
  Paths,      \* paths in the index and paths looked up, sequences of characters
  MaxIndex,   \* bound: how many paths are in the index
  Fuzzy,      \* values of min_fuzzy_paths
  Rank        \* the order of the characters

VARIABLES
  index,      \* the keys
  key, min_fuzzy_paths,   \* the arguments
  pc,         \* where the function is
  found,      \* the position of lower_bound, End if behind the last
  best, best_common_path_elements,
  result      \* the match and its score, or nullopt

findVars == <<index, key, min_fuzzy_paths, pc, found, best, best_common_path_elements, result>>

Sequence == INSTANCE SequencesExt

End == <<>>           \* no key is empty
nullopt == [match |-> <<>>, fuzzy_score |-> 0]

(* std::string's operator<. *)
Less(s, t) ==
  \E i \in 1..Len(t) :
    /\ \A j \in 1..(i - 1) : j <= Len(s) /\ s[j] = t[j]
    /\ i > Len(s) \/ Rank[s[i]] < Rank[t[i]]

KeyTransform(path) == Sequence!Reverse(path) \o <<"/">>
Path(k) == Sequence!Reverse(SubSeq(k, 1, Len(k) - 1))

lower_bound(k) ==
  LET after == {e \in index : ~Less(e, k)}
  IN IF after = {} THEN End ELSE CHOOSE e \in after : \A f \in after : f = e \/ Less(e, f)
Previous(k) ==
  LET before == {e \in index : Less(e, k)}
  IN CHOOSE e \in before : \A f \in before : f = e \/ Less(f, e)
IsBegin(k) == \A e \in index : ~Less(e, k)
IsLast(k) == \A e \in index : ~Less(k, e)

\* The positions of the common prefix.
CommonPrefix(a, b) == {i \in DOMAIN a \cap DOMAIN b : \A j \in 1..i : a[j] = b[j]}
CommonSlashes(a, b) == Cardinality({i \in CommonPrefix(a, b) : a[i] = "/"})

search_key == KeyTransform(key)

-----------------------------------------------------------------------------
FindInit ==
  /\ \E n \in 0..MaxIndex : index \in {{KeyTransform(p[i]) : i \in 1..n} : p \in [1..n -> Paths]}
  /\ key \in Paths /\ min_fuzzy_paths \in Fuzzy
  /\ pc = "search"
  /\ found = End /\ best = End /\ best_common_path_elements = 0 /\ result = nullopt

Search ==
  /\ pc = "search"
  /\ IF index = {} THEN pc' = "done" /\ UNCHANGED <<found, result>>
     ELSE LET k == lower_bound(search_key)
          IN /\ found' = k
             /\ IF k = search_key
                THEN pc' = "done" /\ result' = [match |-> key, fuzzy_score |-> 0]
                ELSE pc' = "at" /\ UNCHANGED result
  /\ UNCHANGED <<index, key, min_fuzzy_paths, best, best_common_path_elements>>

(* At the position, or at the last entry if that is the end. *)
LookAt ==
  /\ pc = "at"
  /\ best' = IF found = End THEN CHOOSE e \in index : IsLast(e) ELSE found
  /\ best_common_path_elements' = CommonSlashes(search_key, best')
  /\ pc' = "before"
  /\ UNCHANGED <<index, key, min_fuzzy_paths, found, result>>

LookBefore ==
  /\ pc = "before"
  /\ IF found # End /\ ~IsBegin(best)
     THEN LET before == Previous(best)
              common == CommonSlashes(search_key, before)
          IN IF common > best_common_path_elements
             THEN best' = before /\ best_common_path_elements' = common
             ELSE UNCHANGED <<best, best_common_path_elements>>
     ELSE UNCHANGED <<best, best_common_path_elements>>
  /\ pc' = "decide"
  /\ UNCHANGED <<index, key, min_fuzzy_paths, found, result>>

Decide ==
  /\ pc = "decide"
  /\ result' = IF best_common_path_elements < min_fuzzy_paths THEN nullopt
               ELSE [match |-> Path(best), fuzzy_score |-> best_common_path_elements]
  /\ pc' = "done"
  /\ UNCHANGED <<index, key, min_fuzzy_paths, found, best, best_common_path_elements>>

FindNext == Search \/ LookAt \/ LookBefore \/ Decide
FindSpec == FindInit /\ [][FindNext]_findVars

-----------------------------------------------------------------------------
(* How many parts, from the last one, two paths have in common. *)
Slashes(p) == {i \in 1..Len(p) : p[i] = "/"} \cup {0}
Ends(p) == {SubSeq(p, i + 1, Len(p)) : i \in Slashes(p)}
InCommon(p, q) == Cardinality(Ends(p) \cap Ends(q))

(* A path of the index that is the one looked for is found; otherwise, the *)
(* answer is one that has the most parts of its end in common with it, of  *)
(* all of the index, if these are at least min_fuzzy_paths.                *)
TheBestMatchIsFound ==
  pc = "done" =>
    LET paths == {Path(k) : k \in index}
        most == {p \in paths : \A q \in paths : InCommon(key, p) >= InCommon(key, q)}
        score(p) == InCommon(key, p)
    IN IF key \in paths THEN result = [match |-> key, fuzzy_score |-> 0]
       ELSE IF \E p \in most : score(p) >= min_fuzzy_paths
       THEN result.match \in most /\ result.fuzzy_score = score(result.match)
       ELSE result = nullopt
=============================================================================
