----------------------------- MODULE GlobMatch -----------------------------
(***************************************************************************)
(* The predicates that glob() walks the file system with                   *)
(* (bant/util/glob-match-builder.cc).  A pattern and a path are sequences  *)
(* of characters.  A pattern with a star becomes a regular expression,     *)
(* which is a sequence of characters and of ".*", "[^/]*" and "/?"; that   *)
(* of a directory, a(/b(/c)?)?, matches what one of its beginnings in      *)
(* front of a "/" matches.                                                 *)
(***************************************************************************)
EXTENDS CollectFiles

Sequence == INSTANCE SequencesExt

StartsWith(s, begin) == Sequence!IsPrefix(begin, s)
From(s, i) == SubSeq(s, i, Len(s))
Has(s, c) == \E i \in DOMAIN s : s[i] = c

(* StrReplaceAll with the longer of two patterns first. *)
RECURSIVE FileRegex(_), DirectoryRegex(_)
FileRegex(p) ==
  CASE p = <<>> -> <<>>
    [] StartsWith(p, <<"*", "*", "/">>) -> <<".*", "/?">> \o FileRegex(From(p, 4))
    [] ~StartsWith(p, <<"*", "*", "/">>) /\ StartsWith(p, <<"*">>) -> <<"[^/]*">> \o FileRegex(Tail(p))
    [] OTHER -> <<Head(p)>> \o FileRegex(Tail(p))
DirectoryRegex(p) ==
  CASE p = <<>> -> <<>>
    [] StartsWith(p, <<"*", "*">>) -> <<".*", "/?">> \o DirectoryRegex(From(p, 3))
    [] ~StartsWith(p, <<"*", "*">>) /\ StartsWith(p, <<"*">>) -> <<"[^/]*">> \o DirectoryRegex(Tail(p))
    [] OTHER -> <<Head(p)>> \o DirectoryRegex(Tail(p))

(* RE2::FullMatch. *)
RECURSIVE FullMatch(_, _)
FullMatch(regex, s) ==
  IF regex = <<>> THEN s = <<>>
  ELSE LET rest == Tail(regex) IN
       CASE Head(regex) = ".*" -> \E i \in 1..(Len(s) + 1) : FullMatch(rest, From(s, i))
         [] Head(regex) = "[^/]*" ->
              \E i \in 1..(Len(s) + 1) : ~Has(SubSeq(s, 1, i - 1), "/") /\ FullMatch(rest, From(s, i))
         [] Head(regex) = "/?" -> FullMatch(rest, s) \/ (StartsWith(s, <<"/">>) /\ FullMatch(rest, Tail(s)))
         [] OTHER -> StartsWith(s, <<Head(regex)>>) /\ FullMatch(rest, Tail(s))

MakeFilenameMatcher(patterns, s) ==
  \E p \in patterns : IF Has(p, "*") THEN FullMatch(FileRegex(p), s) ELSE p = s

Slashes(p) == {i \in DOMAIN p : p[i] = "/"}
LastSlash(p) == CHOOSE i \in Slashes(p) : \A j \in Slashes(p) : j <= i
(* The beginnings of a path or a regular expression, itself included. *)
Prefixes(p) == {p} \cup {SubSeq(p, 1, i - 1) : i \in Slashes(p)}

\* Mutant: only the directories the files are in.
MakeDirectoryMatcherLast(patterns, s) ==
  \E p \in patterns :
    IF Slashes(p) = {} THEN s = <<>>
    ELSE LET d == SubSeq(p, 1, LastSlash(p) - 1) IN
         IF Has(d, "*") THEN FullMatch(DirectoryRegex(d), s) ELSE s \in Prefixes(d)
MakeDirectoryMatcher(patterns, s) ==
  \E p \in patterns :
    IF Slashes(p) = {} THEN s = <<>>
    ELSE LET d == SubSeq(p, 1, LastSlash(p) - 1) IN
         IF Has(d, "*") THEN \E r \in Prefixes(DirectoryRegex(d)) : FullMatch(r, s)
         ELSE s \in Prefixes(d)

FileMatchPredicate(include, exclude, s) ==
  MakeFilenameMatcher(include, s) /\ ~MakeFilenameMatcher(exclude, s)
DirectoryMatchPredicate(include, s) == MakeDirectoryMatcher(include, s)

(* glob() has patterns for paths; the search for BUILD files has names of  *)
(* files to include and names of directories to leave out, and enters no   *)
(* links, or no directory at all ("flat").                                 *)
DirPredicate(what, e, path) ==
  CASE what.kind = "glob"  -> DirectoryMatchPredicate(what.include, path)
    [] what.kind = "build" -> e.type # "link" /\ e.name \notin what.exclude
    [] what.kind = "flat"  -> FALSE
FilePredicate(what, e, path) ==
  IF what.kind = "glob" THEN FileMatchPredicate(what.include, what.exclude, path)
  ELSE e.name \in what.include

-----------------------------------------------------------------------------
(* The meaning of a pattern: what is between slashes matches what is       *)
(* between slashes, "**" any number of such segments.                      *)
RECURSIVE Segments(_)
Segments(p) ==
  IF Slashes(p) = {} THEN <<p>>
  ELSE Append(Segments(SubSeq(p, 1, LastSlash(p) - 1)), From(p, LastSlash(p) + 1))
RECURSIVE SegmentsMatch(_, _)
SegmentsMatch(p, s) ==
  IF p = <<>> THEN s = <<>>
  ELSE IF Head(p) = <<"*", "*">> THEN \E i \in 1..(Len(s) + 1) : SegmentsMatch(Tail(p), From(s, i))
  ELSE s # <<>> /\ FullMatch([i \in DOMAIN Head(p) |-> IF Head(p)[i] = "*" THEN "[^/]*" ELSE Head(p)[i]], Head(s))
                /\ SegmentsMatch(Tail(p), Tail(s))
Means(p, s) == SegmentsMatch(Segments(p), Segments(s))

MeansFile(path) == /\ \E p \in search.include : Means(p, path)
                /\ ~MakeFilenameMatcher(search.exclude, path)

(* The files below a directory, to a depth, that the patterns mean.        *)
RECURSIVE FilesBelow(_, _, _)
FilesBelow(node, path, depth) ==
  IF node \in Unreadable \/ depth = 0 THEN {}
  ELSE UNION {LET p == Below(path, e.name) IN
              CASE IsDirectory(e) -> FilesBelow(e.node, p, depth - 1)
                [] ~IsDirectory(e) /\ MeansFile(p) -> {p}
                [] OTHER -> {}
              : e \in {e \in entries : e.dir = node}}
Meant == FilesBelow(Root, <<>>, 4)

(* What a pattern means is found, unless the pattern ends in "**" or a     *)
(* directory has a second name: no directory on the way is left out by the *)
(* predicate made from the pattern for the directories.  (The "**" at an   *)
(* end is one star for files; and the first name readdir() returns for a   *)
(* directory decides whether it is entered.)                               *)
TrailingStars == \E p \in search.include : LET s == Segments(p) IN s[Len(s)] = <<"*", "*">>
MatchesAreFound ==
  (Done /\ search.kind = "glob" /\ OneNameEach /\ ~TrailingStars) => Meant \subseteq Found
=============================================================================
