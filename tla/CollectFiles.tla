---------------------------- MODULE CollectFiles ----------------------------
(***************************************************************************)
(* Walking a directory tree (CollectFilesRecursive in bant/util/           *)
(* file-utils.cc), as glob() does and as the search for BUILD files does.  *)
(*                                                                         *)
(* A file system is a set of entries [dir, name, type, node]: "name" in    *)
(* the directory "dir" is the directory, file or other node "node", or,    *)
(* for a link, leads to it.  A directory is a node that has a name in      *)
(* Directories.  readdir() returns the entries of a directory in any       *)
(* order, and a directory may turn out not to be readable.                 *)
(***************************************************************************)
EXTENDS Naturals, Sequences, FiniteSets

CONSTANTS
  Characters,   \* what paths are made of
  FileSystems,  \* sets of entries
  Directories,  \* the nodes that are directories
  Unnumbered,   \* those on a file system without proper inode numbers
  Unreadable,   \* those opendir() fails for
  Root,         \* the node of "dir"
  Searches,     \* what is looked for, any values
  want_dir_p(_, _, _), want_file_p(_, _, _)   \* search, entry and path: the predicates

VARIABLES
  entries,             \* the file system
  search,              \* what is looked for
  directory_worklist,  \* records [path, node]
  current_dir,         \* the directory that is read, <<>> in between
  unread,              \* its entries that readdir() has not returned
  seen_inode,
  result_paths,
  opened               \* ghost: the directories opened so far, in order

(* A name is one part of a path and is once in its directory.              *)
IsFileSystem(fs) ==
  /\ IsFiniteSet(fs)
  /\ \A e \in fs : /\ e.name \in Seq(Characters) /\ e.name # <<>>
                    /\ \A i \in DOMAIN e.name : e.name[i] # "/"
  /\ \A e, f \in fs : (e.dir = f.dir /\ e.name = f.name) => e = f
ASSUME FilesAssumption ==
  /\ "/" \in Characters /\ \A fs \in FileSystems : IsFileSystem(fs)
  /\ IsFiniteSet(Directories) /\ Root \in Directories /\ "0" \notin Directories

walkVars == <<entries, search, directory_worklist, current_dir, unread, seen_inode, result_paths, opened>>

(* A path is below "dir", without it. *)
Below(path, name) == IF path = <<>> THEN name ELSE path \o <<"/">> \o name

IsDirectory(e) == e.node \in Directories  \* links followed
Inode(node) == IF node \in Unnumbered THEN "0" ELSE node
\* Mutant: the number of a directory is always believed.
LooksLikeValidInodeAlways(inode) == TRUE
LooksLikeValidInode(inode) == inode # "0"

WalkInit ==
  /\ entries \in FileSystems
  /\ search \in Searches
  /\ directory_worklist = <<[path |-> <<>>, node |-> Root]>>
  /\ current_dir = <<>>
  /\ unread = {}
  /\ seen_inode = {}
  /\ result_paths = <<>>
  /\ opened = <<>>

\* Mutant: a directory that can not be opened stays in the list.
OpenDirStuck ==
  /\ current_dir = <<>> /\ directory_worklist # <<>>
  /\ Head(directory_worklist).node \notin Unreadable
  /\ directory_worklist' = Tail(directory_worklist)
  /\ current_dir' = <<Head(directory_worklist)>>
  /\ unread' = {e \in entries : e.dir = Head(directory_worklist).node}
  /\ opened' = Append(opened, Head(directory_worklist))
  /\ UNCHANGED <<entries, search, seen_inode, result_paths>>
OpenDir ==
  /\ current_dir = <<>> /\ directory_worklist # <<>>
  /\ directory_worklist' = Tail(directory_worklist)
  /\ LET d == Head(directory_worklist) IN
       IF d.node \in Unreadable THEN UNCHANGED <<current_dir, unread, opened>>
       ELSE /\ current_dir' = <<d>>
            /\ unread' = {e \in entries : e.dir = d.node}
            /\ opened' = Append(opened, d)
  /\ UNCHANGED <<entries, search, seen_inode, result_paths>>

Directory(e, path) ==
  IF LooksLikeValidInode(Inode(e.node)) /\ Inode(e.node) \in seen_inode
  THEN UNCHANGED <<seen_inode, directory_worklist>>
  ELSE /\ seen_inode' = seen_inode \cup (IF LooksLikeValidInode(Inode(e.node)) THEN {Inode(e.node)} ELSE {})
       /\ directory_worklist' = IF want_dir_p(search, e, path)
                                THEN Append(directory_worklist, [path |-> path, node |-> e.node])
                                ELSE directory_worklist

ReadDir(e) ==
  /\ current_dir # <<>> /\ e \in unread
  /\ unread' = unread \ {e}
  /\ LET path == Below(current_dir[1].path, e.name) IN
       IF IsDirectory(e) THEN Directory(e, path) /\ UNCHANGED result_paths
       ELSE /\ result_paths' = IF want_file_p(search, e, path) THEN Append(result_paths, path) ELSE result_paths
            /\ UNCHANGED <<seen_inode, directory_worklist>>
  /\ UNCHANGED <<entries, search, current_dir, opened>>

CloseDir ==
  /\ current_dir # <<>> /\ unread = {}
  /\ current_dir' = <<>>
  /\ UNCHANGED <<entries, search, directory_worklist, unread, seen_inode, result_paths, opened>>

WalkNext == OpenDir \/ (\E e \in unread : ReadDir(e)) \/ CloseDir
WalkSpec == WalkInit /\ [][WalkNext]_walkVars /\ WF_walkVars(WalkNext)
-----------------------------------------------------------------------------
Done == directory_worklist = <<>> /\ current_dir = <<>>

(* The walk comes to its end whatever links there are, the one to the      *)
(* directory it began with included, which no entry has put into           *)
(* seen_inode ("make sure we don't run in circles").                       *)
WalkEnds == <>Done

Times(node) == Cardinality({i \in DOMAIN opened : opened[i].node = node})
Names(node) == {e \in entries : e.node = node}
NamesRead(node) == {x \in Names(node) \X DOMAIN opened : x[1].dir = opened[x[2]].node}

(* A directory is read once however many ways lead to it, and "dir" once   *)
(* more if a link leads back to it ("make sure we don't run in circles");  *)
(* without inode numbers, as often as a name of it is read ("loop-         *)
(* detection is essentially disabled for these filesystems").              *)
DirectoriesAreReadOnce ==
  \A n \in Directories :
    Times(n) <= (IF n = Root THEN 1 ELSE 0)
                + (IF n \in Unnumbered THEN Cardinality(NamesRead(n)) ELSE 1)

(* What a search should come to: the directories that are at most n steps  *)
(* away, over wanted ones only, and the wanted files in them.              *)
Wanted(d, e) == d.node \notin Unreadable /\ e.dir = d.node
WantedDir(d, e) == Wanted(d, e) /\ IsDirectory(e) /\ want_dir_p(search, e, Below(d.path, e.name))
WantedFile(d, e) == Wanted(d, e) /\ ~IsDirectory(e) /\ want_file_p(search, e, Below(d.path, e.name))
Enter(d, e) == [path |-> Below(d.path, e.name), node |-> e.node]
Further(dirs) == dirs \cup {Enter(x[1], x[2]) : x \in {x \in dirs \X entries : WantedDir(x[1], x[2])}}
RootDir == [path |-> <<>>, node |-> Root]
Within(n) ==
  LET within[k \in 0..n] == IF k = 0 THEN {RootDir} ELSE Further(within[k - 1])
  IN  within[n]
AsSearched ==
  {Below(x[1].path, x[2].name) :
     x \in {x \in Within(Cardinality(Directories)) \X entries : WantedFile(x[1], x[2])}}

Found == {result_paths[i] : i \in DOMAIN result_paths}
OneNameEach == Names(Root) = {} /\ \A n \in Directories : Cardinality(Names(n)) <= 1

(* Where no directory has a second name, what is wanted is found, exactly  *)
(* once, in whatever order readdir() returns the entries.                  *)
SearchIsExact ==
  (Done /\ OneNameEach) =>
    /\ Found = AsSearched
    /\ Cardinality(Found) = Len(result_paths)

(* A walk finds what it looks for, all of it and once, and reads no        *)
(* directory again (CollectFilesRecursive).                                *)
WalkIsExact == DirectoriesAreReadOnce /\ SearchIsExact
=============================================================================
