------------------------------ MODULE MCFiles -------------------------------
(***************************************************************************)
(* Searching the file system; a behaviour is a walk through a directory    *)
(* tree or the search for the BUILD files of a bundle of patterns.  The    *)
(* walks are in small trees with every pattern of up to five characters;   *)
(* some of the trees have links, to "dir" and into a subtree, or           *)
(* directories without inodes.  BUILD files are in six directories, one of *)
(* an external project and one that is not to be searched.                 *)
(***************************************************************************)
EXTENDS GlobMatch, BuildFiles

CONSTANT TwoInOne   \* the directory that may have both files, in any state

VARIABLE part   \* what the behaviour is about

-----------------------------------------------------------------------------
(* Trees to walk through. *)

Entry(dir, name, type, node) == [dir |-> dir, name |-> name, type |-> type, node |-> node]
File(dir, name) == Entry(dir, name, "file", "f")

a == <<"a">>
b == <<"b">>
ba == <<"b", "a">>

Tree == {File("top", a), File("top", ba), Entry("top", b, "dir", "one"),
         File("one", a), Entry("one", b, "dir", "two"), File("two", a), File("two", ba)}
Deep == {Entry("top", a, "dir", "one"), Entry("one", ba, "dir", "also bare"), File("also bare", a),
         Entry("one", b, "dir", "two"), File("two", a),
         Entry("two", b, "dir", "bare"), File("bare", a)}
Linked == {Entry("top", a, "dir", "one"), Entry("top", b, "link", "top"),
          File("one", a), Entry("one", b, "dir", "two"), File("two", a),
          Entry("two", b, "link", "one"), Entry("top", ba, "link", "two")}
Bare == {Entry("top", a, "dir", "bare"), Entry("top", b, "link", "bare"), File("bare", a),
         File("top", ba), Entry("bare", b, "dir", "locked"), File("locked", a),
         Entry("bare", ba, "dir", "also bare"), File("also bare", b)}
EveryTree == {Tree, Deep, Linked, Bare}

TheCharacters == {"a", "b", "/"}
TheDirectories == {"top", "one", "two", "bare", "also bare", "locked"}

SearchPatterns == UNION {[1..n -> {"a", "b", "*", "/"}] : n \in 1..5}
Sensible(p) == /\ p[1] # "/" /\ p[Len(p)] # "/"
               /\ \A i \in 2..Len(p) : p[i] = "/" => p[i - 1] # "/"
Search(kind, include, exclude) == [kind |-> kind, include |-> include, exclude |-> exclude]

EverySearch == {Search("glob", {p}, {}) : p \in {p \in SearchPatterns : Sensible(p)}}
               \cup {Search("glob", {a, <<"*", "/", "a">>}, {p}) : p \in {a, ba, <<"*", "/", "*">>}}
               \cup {Search("build", {a, ba}, {}), Search("build", {a, ba}, {b}), Search("flat", {a, ba}, {})}

-----------------------------------------------------------------------------
(* BUILD files: the external project x is in bazel-out/x.                  *)

ab == <<"a", "/", "b">>
tmp == <<"a", "/", "_tmp">>
x == <<"bazel-out", "/", "x">>
xa == <<"bazel-out", "/", "x", "/", "a">>

TheParts == BuildNames \cup {".", "/", "a", "b", "_tmp", "bazel-out", "x"}

(* What BUILD and BUILD.bazel of a directory are. *)
Kinds == {"file", "directory", "denied", "none"}
PackageDirs == {<<>>, a, ab, tmp, x, xa}
OneFile(dir) == IF dir = ab THEN <<"none", "file">> ELSE <<"file", "none">>
Chosen == {[d \in PackageDirs |-> IF d = TwoInOne THEN two
                                  ELSE IF d \in with_file THEN OneFile(d) ELSE <<"none", "none">>] :
             two \in Kinds \X Kinds, with_file \in {{tmp} \cup dirs : dirs \in SUBSET (PackageDirs \ {tmp, TwoInOne})}}
Inside(dir, name) == IF dir = <<>> THEN <<name>> ELSE dir \o <<"/", name>>
TheNames == <<Build, BuildBazel>>
Existing(c) ==
  LET there == {d \in PackageDirs \X {1, 2} : c[d[1]][d[2]] # "none"}
  IN [path \in {Inside(d[1], TheNames[d[2]]) : d \in there} |->
        LET d == CHOOSE d \in there : path = Inside(d[1], TheNames[d[2]]) IN c[d[1]][d[2]]]

Pattern(p, path, is_recursive) == [project |-> p, path |-> path, is_recursive |-> is_recursive]
ThePatterns ==
  {Pattern("", <<>>, TRUE), Pattern("", a, FALSE), Pattern("", a, TRUE), Pattern("", ab, FALSE),
   Pattern("@x", <<>>, TRUE), Pattern("@x", a, FALSE), Pattern("@y", <<>>, TRUE)}
TheRequests ==
  {[project |-> "", path |-> d] : d \in {<<>>, a, ab}}
  \cup {[project |-> "@x", path |-> d] : d \in {<<>>, a}} \cup {[project |-> "@y", path |-> a]}

EveryDirectoryTree == {Existing(c) : c \in Chosen}
EveryBundle == UNION {[1..n -> ThePatterns] : n \in 0..2}
TheWorkspace == [p \in {"@x"} |-> x]
TheLinks == {<<"bazel-out">>}

-----------------------------------------------------------------------------
NoWalk ==
  /\ entries = {} /\ search = Search("flat", {}, {})
  /\ directory_worklist = <<>> /\ current_dir = <<>> /\ unread = {} /\ seen_inode = {}
  /\ result_paths = <<>> /\ opened = <<>>
NoPackages ==
  /\ files = <<>> /\ patterns = <<>> /\ project = "" /\ build_files = {} /\ unique_files = {}
  /\ package_to_parsed = {} /\ unreadable = {} /\ seen_before = {} /\ error_packages = {} /\ crashed = FALSE

FilesInit == \/ part = "walk" /\ WalkInit /\ NoPackages
             \/ part = "packages" /\ FillInit /\ NoWalk

Walk == part = "walk" /\ WalkNext /\ UNCHANGED <<part, fillVars>>
FindPackages == part = "packages" /\ FillNext /\ UNCHANGED <<part, walkVars>>

FilesNext == Walk \/ FindPackages
FilesSpec == FilesInit /\ [][FilesNext]_<<part, walkVars, fillVars>> /\ WF_walkVars(Walk)
=============================================================================
