----------------------------- MODULE FileProofs -----------------------------
(***************************************************************************)
(* What is known of the file system.  The walk through a tree of           *)
(* directories is exact, for file systems of any size and whatever is      *)
(* looked for; the packages that are read are those that the patterns and  *)
(* the dependencies mean; the prewarm cache is right for any number of     *)
(* threads, paths, runs and accesses, under every schedule and at every    *)
(* end of the process.                                                     *)
(***************************************************************************)
EXTENDS CollectFiles, BuildFiles, PrewarmCache, SequenceTheorems, FiniteSetTheorems, Induction, TLAPS

-----------------------------------------------------------------------------
(* The walk: the types, and what its steps change.                         *)
Dir == [path : Seq(Characters), node : Directories]

\* The directory that is read is the one that was opened last.
IsLastOpened ==
  /\ current_dir = <<>> => unread = {}
  /\ current_dir # <<>> =>
       /\ Len(current_dir) = 1 /\ opened # <<>>
       /\ current_dir[1] = opened[Len(opened)]
       /\ \A e \in unread : e.dir = current_dir[1].node

WalkTypeInv ==
  /\ entries \in FileSystems
  /\ directory_worklist \in Seq(Dir)
  /\ current_dir \in Seq(Dir)
  /\ opened \in Seq(Dir)
  /\ unread \subseteq entries
  /\ seen_inode \subseteq Directories
  /\ result_paths \in Seq(Seq(Characters))
  /\ IsLastOpened

LEMMA AppendType ==
  ASSUME NEW S, NEW s \in Seq(S), NEW x \in S
  PROVE  Append(s, x) \in Seq(S)
OBVIOUS

LEMMA BelowType ==
  ASSUME NEW path \in Seq(Characters), NEW name \in Seq(Characters)
  PROVE  Below(path, name) \in Seq(Characters)
BY FilesAssumption DEF Below

LEMMA NamesAre ==
  ASSUME entries \in FileSystems
  PROVE  /\ IsFiniteSet(entries)
         /\ \A e \in entries : e.name \in Seq(Characters) /\ e.name # <<>>
BY FilesAssumption DEF IsFileSystem

LEMMA InitWalkTypeInv == WalkInit => WalkTypeInv
BY FilesAssumption DEF WalkInit, WalkTypeInv, IsLastOpened, Dir

\* What readdir() returning an entry changes.
LEMMA ReadDirKeeps ==
  ASSUME WalkTypeInv, NEW e \in unread, ReadDir(e)
  PROVE  /\ e \in entries /\ current_dir # <<>> /\ current_dir[1] \in Dir /\ current_dir[1] = opened[Len(opened)]
         /\ e.dir = current_dir[1].node
         /\ Below(current_dir[1].path, e.name) \in Seq(Characters)
         /\ UNCHANGED <<entries, search, current_dir, opened>> /\ unread' = unread \ {e}
<1>1. e \in entries /\ current_dir # <<>> /\ current_dir[1] \in Dir
  BY DEF ReadDir, WalkTypeInv, IsLastOpened
<1>2. current_dir[1] = opened[Len(opened)] /\ e.dir = current_dir[1].node
  BY <1>1 DEF WalkTypeInv, IsLastOpened
<1>3. Below(current_dir[1].path, e.name) \in Seq(Characters)
  BY <1>1, NamesAre, BelowType DEF WalkTypeInv, Dir
<1>4. UNCHANGED <<entries, search, current_dir, opened>> /\ unread' = unread \ {e}
  BY DEF ReadDir
<1> QED BY <1>1, <1>2, <1>3, <1>4

LEMMA ReadDirectory ==
  ASSUME NEW e \in unread, ReadDir(e), IsDirectory(e)
  PROVE  /\ result_paths' = result_paths
         /\ \/ /\ LooksLikeValidInode(Inode(e.node)) /\ Inode(e.node) \in seen_inode
               /\ UNCHANGED <<seen_inode, directory_worklist>>
            \/ /\ ~(LooksLikeValidInode(Inode(e.node)) /\ Inode(e.node) \in seen_inode)
               /\ seen_inode' = seen_inode \cup (IF LooksLikeValidInode(Inode(e.node)) THEN {Inode(e.node)} ELSE {})
               /\ directory_worklist' =
                    IF want_dir_p(search, e, Below(current_dir[1].path, e.name))
                    THEN Append(directory_worklist, Enter(current_dir[1], e))
                    ELSE directory_worklist
BY DEF ReadDir, Directory, Enter

LEMMA ReadFile ==
  ASSUME NEW e \in unread, ReadDir(e), ~IsDirectory(e)
  PROVE  /\ UNCHANGED <<seen_inode, directory_worklist>>
         /\ result_paths' = IF want_file_p(search, e, Below(current_dir[1].path, e.name))
                            THEN Append(result_paths, Below(current_dir[1].path, e.name))
                            ELSE result_paths
BY DEF ReadDir

LEMMA NextWalkTypeInv == WalkTypeInv /\ [WalkNext]_walkVars => WalkTypeInv'
<1> SUFFICES ASSUME WalkTypeInv, [WalkNext]_walkVars PROVE WalkTypeInv'
  OBVIOUS
<1>1. CASE OpenDir
  <2>1. Head(directory_worklist) \in Dir /\ directory_worklist' \in Seq(Dir)
    BY <1>1 DEF OpenDir, WalkTypeInv
  <2>2. CASE Head(directory_worklist).node \in Unreadable
    BY <1>1, <2>1, <2>2 DEF OpenDir, WalkTypeInv, IsLastOpened
  <2>3. CASE Head(directory_worklist).node \notin Unreadable
    <3>1. /\ current_dir' = <<Head(directory_worklist)>>
          /\ unread' = {e \in entries : e.dir = Head(directory_worklist).node}
          /\ opened' = Append(opened, Head(directory_worklist))
          /\ entries' = entries /\ seen_inode' = seen_inode /\ result_paths' = result_paths
      BY <1>1, <2>3 DEF OpenDir
    <3>2. opened' \in Seq(Dir) /\ opened' # <<>> /\ opened'[Len(opened')] = Head(directory_worklist)
      BY <2>1, <3>1 DEF WalkTypeInv
    <3>3. IsLastOpened'
      BY <3>1, <3>2 DEF IsLastOpened
    <3>4. current_dir' \in Seq(Dir)
      BY <2>1, <3>1
    <3> QED BY <2>1, <3>1, <3>2, <3>3, <3>4 DEF WalkTypeInv
  <2> QED BY <2>2, <2>3
<1>2. ASSUME NEW e \in unread, ReadDir(e) PROVE WalkTypeInv'
  <2>1. IsLastOpened'
    <3>1. UNCHANGED <<current_dir, opened>> /\ unread' = unread \ {e}
      BY <1>2, ReadDirKeeps
    <3> QED BY <3>1 DEF WalkTypeInv, IsLastOpened
  <2>2. directory_worklist' \in Seq(Dir) /\ seen_inode' \subseteq Directories /\ result_paths' \in Seq(Seq(Characters))
    <3>1. CASE IsDirectory(e)
      <4>1. Enter(current_dir[1], e) \in Dir
        BY <1>2, <3>1, ReadDirKeeps DEF Enter, Dir, IsDirectory
      <4>2. directory_worklist' = directory_worklist \/ directory_worklist' = Append(directory_worklist, Enter(current_dir[1], e))
        BY <1>2, <3>1, ReadDirectory
      <4>3. result_paths' = result_paths /\ seen_inode' \subseteq seen_inode \cup {e.node}
        BY <1>2, <3>1, ReadDirectory DEF Inode, LooksLikeValidInode
      <4>4. directory_worklist' \in Seq(Dir)
        BY <4>1, <4>2, AppendType DEF WalkTypeInv
      <4> QED BY <3>1, <4>3, <4>4 DEF WalkTypeInv, IsDirectory
    <3>2. CASE ~IsDirectory(e)
      <4> DEFINE path == Below(current_dir[1].path, e.name)
      <4>1. path \in Seq(Characters)
        BY <1>2, ReadDirKeeps
      <4>2. UNCHANGED <<seen_inode, directory_worklist>> /\ result_paths' \in {result_paths, Append(result_paths, path)}
        BY <1>2, <3>2, ReadFile
      <4> HIDE DEF path
      <4>3. Append(result_paths, path) \in Seq(Seq(Characters))
        BY <4>1, AppendType DEF WalkTypeInv
      <4> QED BY <4>2, <4>3 DEF WalkTypeInv
    <3> QED BY <3>1, <3>2
  <2>3. entries' = entries /\ unread' = unread \ {e} /\ current_dir' = current_dir /\ opened' = opened
    BY <1>2, ReadDirKeeps
  <2> QED BY <2>1, <2>2, <2>3 DEF WalkTypeInv
<1>3. CASE CloseDir
  BY <1>3 DEF CloseDir, WalkTypeInv, IsLastOpened
<1>4. CASE UNCHANGED walkVars
  BY <1>4 DEF walkVars, WalkTypeInv, IsLastOpened
<1> QED BY <1>1, <1>2, <1>3, <1>4 DEF WalkNext

(* The work list, the directory that is read and the paths found are of    *)
(* their types, and the directory that is read is the one opened last      *)
(* (CollectFilesRecursive).                                                *)
THEOREM WalkTyped == WalkSpec => []WalkTypeInv
BY InitWalkTypeInv, NextWalkTypeInv, PTL DEF WalkSpec

-----------------------------------------------------------------------------
(* How often a directory is in a list. *)
Positions(dirs, node) == {i \in DOMAIN dirs : dirs[i].node = node}
Count(dirs, node) == Cardinality(Positions(dirs, node))

LEMMA CountType ==
  ASSUME NEW dirs \in Seq(Dir), NEW node
  PROVE  IsFiniteSet(Positions(dirs, node)) /\ Count(dirs, node) \in Nat
<1>1. Positions(dirs, node) \in SUBSET (1..Len(dirs)) /\ Len(dirs) \in Int
  BY DEF Positions
<1>2. IsFiniteSet(1..Len(dirs))
  BY <1>1, FS_Interval
<1> QED BY <1>1, <1>2, FS_Subset, FS_CardinalityType DEF Count

LEMMA CountAppend ==
  ASSUME NEW dirs \in Seq(Dir), NEW d \in Dir, NEW node
  PROVE  Count(Append(dirs, d), node) = Count(dirs, node) + (IF d.node = node THEN 1 ELSE 0)
<1>1. Len(dirs) \in Nat /\ DOMAIN dirs = 1..Len(dirs)
  OBVIOUS
<1>2. Len(dirs) + 1 \notin Positions(dirs, node)
  BY <1>1 DEF Positions
<1>3. CASE d.node = node
  <2>1. Positions(Append(dirs, d), node) = Positions(dirs, node) \cup {Len(dirs) + 1}
    BY <1>1, <1>3 DEF Positions
  <2>2. IsFiniteSet(Positions(dirs, node))
    BY CountType
  <2>3. Cardinality(Positions(dirs, node) \cup {Len(dirs) + 1}) = Cardinality(Positions(dirs, node)) + 1
    BY <1>2, <2>2, FS_AddElement
  <2> QED BY <1>3, <2>1, <2>3 DEF Count
<1>4. CASE d.node # node
  <2>1. Positions(Append(dirs, d), node) = Positions(dirs, node)
    BY <1>1, <1>4 DEF Positions
  <2> QED BY <1>4, <2>1, CountType DEF Count
<1> QED BY <1>3, <1>4

LEMMA CountTail ==
  ASSUME NEW dirs \in Seq(Dir), dirs # <<>>, NEW node
  PROVE  Count(Tail(dirs), node) + (IF Head(dirs).node = node THEN 1 ELSE 0) <= Count(dirs, node)
<1> DEFINE S == Positions(Tail(dirs), node)
           T == Positions(dirs, node) \ {1}
           f == [i \in S |-> i + 1]
<1>1. Len(dirs) \in Nat /\ Len(dirs) >= 1 /\ Tail(dirs) \in Seq(Dir) /\ Len(Tail(dirs)) = Len(dirs) - 1
  OBVIOUS
<1>2. \A i \in S : i \in Nat /\ i >= 1 /\ i + 1 \in T
  BY <1>1 DEF Positions
<1>3. f \in Injection(S, T)
  <2>1. \A i, k \in S : f[i] = f[k] => i = k
    BY <1>2
  <2>2. f \in [S -> T]
    BY <1>2
  <2> HIDE DEF f
  <2> QED BY <2>1, <2>2 DEF Injection, IsInjective
<1>4. IsFiniteSet(T)
      /\ Cardinality(T) = IF 1 \in Positions(dirs, node) THEN Count(dirs, node) - 1 ELSE Count(dirs, node)
  BY CountType, FS_RemoveElement DEF Count
<1>5. Cardinality(S) <= Cardinality(T)
  <2> HIDE DEF f, S, T
  <2> QED BY <1>3, <1>4, FS_Injection
<1>6. 1 \in Positions(dirs, node) <=> Head(dirs).node = node
  BY <1>1 DEF Positions
<1>7. Cardinality(S) = Count(Tail(dirs), node) /\ Count(Tail(dirs), node) \in Nat /\ Count(dirs, node) \in Nat
  BY <1>1, CountType DEF Count
<1> QED BY <1>4, <1>5, <1>6, <1>7

\* The ways to a directory that readdir() has returned so far.
NamesReturned(node) == {x \in NamesRead(node) : x[2] < Len(opened) \/ x[1] \notin unread}
Reasons(node) ==
  (IF node = Root THEN 1 ELSE 0)
  + (IF node \in Unnumbered THEN Cardinality(NamesReturned(node))
     ELSE IF node \in seen_inode THEN 1 ELSE 0)

(* A directory was read, or is going to be, for a reason each time.        *)
OnceInv ==
  \A n \in Directories : Count(opened, n) + Count(directory_worklist, n) <= Reasons(n)

LEMMA NamesReadFinite ==
  ASSUME WalkTypeInv, NEW n
  PROVE  IsFiniteSet(NamesRead(n)) /\ IsFiniteSet(NamesReturned(n))
<1>1. IsFiniteSet(entries) /\ IsFiniteSet(1..Len(opened)) /\ DOMAIN opened = 1..Len(opened)
  BY NamesAre, FS_Interval DEF WalkTypeInv
<1>2. Names(n) \in SUBSET entries
  BY DEF Names
<1>3. IsFiniteSet(Names(n) \X DOMAIN opened)
  BY <1>1, <1>2, FS_Subset, FS_Product
<1>4. NamesRead(n) \in SUBSET (Names(n) \X DOMAIN opened) /\ NamesReturned(n) \in SUBSET NamesRead(n)
  BY DEF NamesRead, NamesReturned
<1> QED BY <1>3, <1>4, FS_Subset

LEMMA OpenReturnsNothing ==
  ASSUME WalkTypeInv, OpenDir, NEW n
  PROVE  NamesReturned(n)' = NamesReturned(n)
<1>1. unread = {} /\ entries' = entries /\ directory_worklist # <<>>
  BY DEF OpenDir, WalkTypeInv, IsLastOpened
<1> DEFINE d == Head(directory_worklist)
<1>2. d \in Dir /\ opened \in Seq(Dir) /\ Len(opened) \in Nat
  BY <1>1 DEF WalkTypeInv
<1>3. CASE d.node \in Unreadable
  <2>1. unread' = unread /\ opened' = opened
    BY <1>3 DEF OpenDir
  <2> QED BY <1>1, <2>1 DEF NamesReturned, NamesRead, Names
<1>4. CASE d.node \notin Unreadable
  <2>1. unread' = {e \in entries : e.dir = d.node} /\ opened' = Append(opened, d)
    BY <1>4 DEF OpenDir
  <2> HIDE DEF d
  <2>2. /\ Len(opened') = Len(opened) + 1 /\ DOMAIN opened' = 1..(Len(opened) + 1)
        /\ opened'[Len(opened) + 1] = d /\ \A i \in 1..Len(opened) : opened'[i] = opened[i]
    BY <1>2, <2>1
  <2>3. NamesReturned(n) = {x \in Names(n) \X (1..Len(opened)) : x[1].dir = opened[x[2]].node}
    BY <1>1, <1>2 DEF NamesReturned, NamesRead
  <2>4. Names(n)' = Names(n) /\ Names(n) \subseteq entries
    BY <1>1 DEF Names
  <2>5. ASSUME NEW x \in NamesReturned(n)' PROVE x \in NamesReturned(n)
    <3>1. /\ x \in Names(n) \X (1..(Len(opened) + 1)) /\ x[1].dir = opened'[x[2]].node
          /\ x[2] < Len(opened) + 1 \/ x[1] \notin unread'
      BY <2>2, <2>4, <2>5 DEF NamesReturned, NamesRead
    <3>2. x[2] # Len(opened) + 1
      BY <1>2, <2>1, <2>2, <2>4, <3>1
    <3>3. x[2] \in 1..Len(opened)
      BY <1>2, <3>1, <3>2
    <3> QED BY <2>2, <2>3, <3>1, <3>3
  <2>6. ASSUME NEW x \in NamesReturned(n) PROVE x \in NamesReturned(n)'
    <3>1. x \in Names(n) \X (1..Len(opened)) /\ x[1].dir = opened[x[2]].node
      BY <2>3, <2>6
    <3>2. x[2] \in 1..(Len(opened) + 1) /\ x[2] < Len(opened) + 1 /\ x[1].dir = opened'[x[2]].node
      BY <1>2, <2>2, <3>1
    <3>3. x \in Names(n) \X (1..(Len(opened) + 1))
      BY <3>1, <3>2
    <3> QED BY <2>2, <2>4, <3>2, <3>3 DEF NamesReturned, NamesRead
  <2> QED BY <2>5, <2>6
<1> QED BY <1>3, <1>4

LEMMA ReadReturnsName ==
  ASSUME WalkTypeInv, NEW e \in unread, ReadDir(e), NEW n
  PROVE  /\ e.node # n => NamesReturned(n)' = NamesReturned(n)
         /\ e.node = n => /\ NamesReturned(n)' = NamesReturned(n) \cup {<<e, Len(opened)>>}
                          /\ <<e, Len(opened)>> \notin NamesReturned(n)
<1>1. /\ entries' = entries /\ opened' = opened /\ unread' = unread \ {e}
      /\ e \in entries /\ e.dir = opened[Len(opened)].node
      /\ \A f \in unread : f.dir = opened[Len(opened)].node
  BY ReadDirKeeps DEF WalkTypeInv, IsLastOpened
<1>2. opened # <<>> /\ opened \in Seq(Dir)
  BY ReadDirKeeps DEF WalkTypeInv, IsLastOpened
<1>3. Len(opened) \in Nat /\ Len(opened) \in DOMAIN opened /\ DOMAIN opened = 1..Len(opened)
  BY <1>2
<1>4. NamesRead(n)' = NamesRead(n)
  BY <1>1 DEF NamesRead, Names
<1>5. NamesReturned(n)' = {x \in NamesRead(n) : x[2] < Len(opened) \/ x[1] \notin unread \ {e}}
  BY <1>1, <1>4 DEF NamesReturned
<1>6. CASE e.node # n
  <2>1. \A x \in NamesRead(n) : x[1] # e
    BY <1>6 DEF NamesRead, Names
  <2> QED BY <1>5, <1>6, <2>1 DEF NamesReturned
<1>7. CASE e.node = n
  <2>1. <<e, Len(opened)>> \in NamesRead(n)
    BY <1>1, <1>3, <1>7 DEF NamesRead, Names
  <2>2. \A x \in NamesRead(n) : x[2] \in 1..Len(opened) /\ x = <<x[1], x[2]>>
    BY <1>3 DEF NamesRead
  <2>3. \A x \in NamesRead(n) : x[1] = e /\ ~(x[2] < Len(opened)) => x = <<e, Len(opened)>>
    BY <1>3, <2>2
  <2> QED BY <1>3, <1>5, <1>7, <2>1, <2>3 DEF NamesReturned
<1> QED BY <1>6, <1>7

LEMMA InitOnceInv == WalkInit => OnceInv
<1> SUFFICES ASSUME WalkInit, NEW n \in Directories
             PROVE  Count(opened, n) + Count(directory_worklist, n) <= Reasons(n)
  BY DEF OnceInv
<1> DEFINE d == [path |-> <<>>, node |-> Root]
<1>1. d \in Dir
  BY FilesAssumption DEF Dir
<1>2. opened = <<>> /\ directory_worklist = Append(<<>>, d) /\ seen_inode = {}
  BY <1>1 DEF WalkInit
<1>3. Count(<<>>, n) = 0
  <2>1. Positions(<<>>, n) = {}
    BY DEF Positions
  <2> QED BY <2>1, FS_EmptySet DEF Count
<1>4. Count(Append(<<>>, d), n) = IF n = Root THEN 1 ELSE 0
  <2>1. <<>> \in Seq(Dir)
    OBVIOUS
  <2>2. d.node = Root
    OBVIOUS
  <2> HIDE DEF d
  <2>3. Count(Append(<<>>, d), n) = Count(<<>>, n) + (IF d.node = n THEN 1 ELSE 0)
    BY <1>1, <2>1, CountAppend
  <2> QED BY <1>3, <2>2, <2>3
<1>5. Cardinality(NamesReturned(n)) = 0
  <2>1. NamesReturned(n) = {}
    BY <1>2 DEF NamesReturned, NamesRead
  <2> QED BY <2>1, FS_EmptySet
<1> HIDE DEF d
<1> QED BY <1>2, <1>3, <1>4, <1>5 DEF Reasons

LEMMA NextOnceInv == WalkTypeInv /\ OnceInv /\ [WalkNext]_walkVars => OnceInv'
<1> SUFFICES ASSUME WalkTypeInv, OnceInv, [WalkNext]_walkVars, NEW n \in Directories
             PROVE  (Count(opened, n) + Count(directory_worklist, n) <= Reasons(n))'
  BY DEF OnceInv
<1>0. /\ Count(opened, n) + Count(directory_worklist, n) <= Reasons(n)
      /\ Count(opened, n) \in Nat /\ Count(directory_worklist, n) \in Nat
      /\ Cardinality(NamesReturned(n)) \in Nat /\ Reasons(n) \in Nat
  <2>1. Cardinality(NamesReturned(n)) \in Nat
    BY NamesReadFinite, FS_CardinalityType
  <2> QED BY <2>1, CountType DEF WalkTypeInv, OnceInv, Reasons
<1>1. CASE OpenDir
  <2> DEFINE d == Head(directory_worklist)
  <2>1. /\ directory_worklist # <<>> /\ directory_worklist \in Seq(Dir) /\ opened \in Seq(Dir)
        /\ directory_worklist' = Tail(directory_worklist) /\ seen_inode' = seen_inode
        /\ opened' = opened \/ opened' = Append(opened, d)
    BY <1>1 DEF OpenDir, WalkTypeInv
  <2>2. d \in Dir /\ Tail(directory_worklist) \in Seq(Dir)
    BY <2>1
  <2>3. Count(Tail(directory_worklist), n) + (IF d.node = n THEN 1 ELSE 0) <= Count(directory_worklist, n)
    BY <2>1, CountTail
  <2>4. Count(Append(opened, d), n) = Count(opened, n) + (IF d.node = n THEN 1 ELSE 0)
    BY <2>1, <2>2, CountAppend
  <2>5. Count(Tail(directory_worklist), n) \in Nat
    BY <2>2, CountType
  <2>6. Reasons(n)' = Reasons(n)
    BY <1>1, <2>1, OpenReturnsNothing DEF Reasons
  <2>7. (Count(opened, n) + Count(directory_worklist, n))' = Count(opened', n) + Count(Tail(directory_worklist), n)
    BY <2>1
  <2>8. Count(opened', n) <= Count(opened, n) + (IF d.node = n THEN 1 ELSE 0) /\ Count(opened', n) \in Nat
    <3>1. CASE opened' = opened
      BY <1>0, <3>1
    <3>2. CASE opened' = Append(opened, d)
      BY <1>0, <2>4, <3>2
    <3> QED BY <2>1, <3>1, <3>2
  <2>9. Count(opened', n) + Count(Tail(directory_worklist), n) <= Count(opened, n) + Count(directory_worklist, n)
    BY <1>0, <2>3, <2>5, <2>8
  <2> QED BY <1>0, <2>5, <2>6, <2>7, <2>8, <2>9
<1>2. ASSUME NEW e \in unread, ReadDir(e) PROVE (Count(opened, n) + Count(directory_worklist, n) <= Reasons(n))'
  <2>1. opened' = opened
    BY <1>2, ReadDirKeeps
  <2>2. CASE e.node = n
    <3>1. IsDirectory(e) /\ Inode(n) = (IF n \in Unnumbered THEN "0" ELSE n) /\ n # "0"
      BY <2>2, FilesAssumption DEF IsDirectory, Inode
    <3>2. Enter(current_dir[1], e) \in Dir /\ Enter(current_dir[1], e).node = n
      BY <1>2, <2>2, ReadDirKeeps DEF Enter, Dir
    <3>3. Cardinality(NamesReturned(n)') = Cardinality(NamesReturned(n)) + 1
      <4>1. /\ NamesReturned(n)' = NamesReturned(n) \cup {<<e, Len(opened)>>}
            /\ <<e, Len(opened)>> \notin NamesReturned(n)
        BY <1>2, <2>2, ReadReturnsName
      <4>2. IsFiniteSet(NamesReturned(n))
        BY NamesReadFinite
      <4> QED BY <4>1, <4>2, FS_AddElement
    <3>4. CASE UNCHANGED <<seen_inode, directory_worklist>>
      <4>1. Reasons(n)' >= Reasons(n)
        BY <1>0, <3>3, <3>4 DEF Reasons
      <4>2. Reasons(n)' \in Nat
        BY <1>0, <3>3, <3>4 DEF Reasons
      <4> QED BY <1>0, <2>1, <3>4, <4>1, <4>2
    <3>5. CASE /\ ~(LooksLikeValidInode(Inode(e.node)) /\ Inode(e.node) \in seen_inode)
               /\ seen_inode' = seen_inode \cup (IF LooksLikeValidInode(Inode(e.node)) THEN {Inode(e.node)} ELSE {})
      <4>1. Reasons(n)' = Reasons(n) + 1
        BY <1>0, <2>2, <3>1, <3>3, <3>5 DEF Reasons, LooksLikeValidInode
      <4>2. directory_worklist' = directory_worklist \/ directory_worklist' = Append(directory_worklist, Enter(current_dir[1], e))
        BY <1>2, <3>1, ReadDirectory
      <4>3. Count(Append(directory_worklist, Enter(current_dir[1], e)), n) = Count(directory_worklist, n) + 1
        BY <3>2, CountAppend DEF WalkTypeInv
      <4>4. Count(directory_worklist', n) <= Count(directory_worklist, n) + 1 /\ Count(directory_worklist', n) \in Nat
        <5>1. CASE directory_worklist' = directory_worklist
          BY <1>0, <5>1
        <5>2. CASE directory_worklist' = Append(directory_worklist, Enter(current_dir[1], e))
          BY <1>0, <4>3, <5>2
        <5> QED BY <4>2, <5>1, <5>2
      <4> QED BY <1>0, <2>1, <4>1, <4>4
    <3> QED BY <1>2, <3>1, <3>4, <3>5, ReadDirectory
  <2>3. CASE e.node # n
    <3>1. NamesReturned(n)' = NamesReturned(n)
      BY <1>2, <2>3, ReadReturnsName
    <3>2. CASE IsDirectory(e)
      <4>1. seen_inode' \subseteq seen_inode \cup {e.node} /\ seen_inode \subseteq seen_inode'
        BY <1>2, <3>2, ReadDirectory DEF Inode, LooksLikeValidInode
      <4>2. Reasons(n)' = Reasons(n)
        BY <2>3, <3>1, <4>1 DEF Reasons
      <4>3. directory_worklist' = directory_worklist \/ directory_worklist' = Append(directory_worklist, Enter(current_dir[1], e))
        BY <1>2, <3>2, ReadDirectory
      <4>4. Enter(current_dir[1], e) \in Dir /\ Enter(current_dir[1], e).node = e.node
        BY <1>2, <3>2, ReadDirKeeps DEF Enter, Dir, IsDirectory
      <4>5. Count(Append(directory_worklist, Enter(current_dir[1], e)), n) = Count(directory_worklist, n) + 0
        BY <2>3, <4>4, CountAppend DEF WalkTypeInv
      <4>6. Count(directory_worklist', n) = Count(directory_worklist, n)
        <5>1. CASE directory_worklist' = directory_worklist
          BY <1>0, <5>1
        <5>2. CASE directory_worklist' = Append(directory_worklist, Enter(current_dir[1], e))
          BY <1>0, <4>5, <5>2
        <5> QED BY <4>3, <5>1, <5>2
      <4> QED BY <1>0, <2>1, <4>2, <4>6
    <3>3. CASE ~IsDirectory(e)
      <4>1. seen_inode' = seen_inode /\ directory_worklist' = directory_worklist
        BY <1>2, <3>3, ReadFile
      <4> QED BY <1>0, <2>1, <3>1, <4>1 DEF Reasons
    <3> QED BY <3>2, <3>3
  <2> QED BY <2>2, <2>3
<1>3. CASE CloseDir \/ UNCHANGED walkVars
  <2>1. UNCHANGED <<entries, opened, unread, seen_inode, directory_worklist>>
    BY <1>3 DEF CloseDir, walkVars
  <2>2. NamesReturned(n)' = NamesReturned(n)
    BY <2>1 DEF NamesReturned, NamesRead, Names
  <2> QED BY <1>0, <2>1, <2>2 DEF Reasons
<1> QED BY <1>1, <1>2, <1>3 DEF WalkNext

LEMMA OnceIsReadOnce == WalkTypeInv /\ OnceInv => DirectoriesAreReadOnce
<1> SUFFICES ASSUME WalkTypeInv, OnceInv, NEW n \in Directories
             PROVE  Times(n) <= (IF n = Root THEN 1 ELSE 0)
                                + (IF n \in Unnumbered THEN Cardinality(NamesRead(n)) ELSE 1)
  BY DEF DirectoriesAreReadOnce
<1>1. Times(n) = Count(opened, n)
  BY DEF Times, Count, Positions
<1>2. NamesReturned(n) \in SUBSET NamesRead(n)
  BY DEF NamesReturned
<1>3. /\ Cardinality(NamesReturned(n)) <= Cardinality(NamesRead(n))
      /\ Cardinality(NamesReturned(n)) \in Nat /\ Cardinality(NamesRead(n)) \in Nat
  BY <1>2, NamesReadFinite, FS_Subset, FS_CardinalityType
<1>4. Count(opened, n) \in Nat /\ Count(directory_worklist, n) \in Nat
  BY CountType DEF WalkTypeInv
<1> QED BY <1>1, <1>3, <1>4 DEF OnceInv, Reasons

(* No directory is read more often than there is a reason to, whatever     *)
(* links lead to it and whether it has an inode number or not              *)
(* (CollectFilesRecursive, seen_inode).                                    *)
THEOREM ReadOnce == WalkSpec => [](WalkTypeInv /\ OnceInv /\ DirectoriesAreReadOnce)
BY WalkTyped, InitOnceInv, NextOnceInv, OnceIsReadOnce, PTL DEF WalkSpec

-----------------------------------------------------------------------------
(* Paths below a directory tell the directory and the name.                *)

IsName(name) == name \in Seq(Characters) /\ name # <<>> /\ \A i \in DOMAIN name : name[i] # "/"

LEMMA BelowIs ==
  ASSUME NEW p \in Seq(Characters), p # <<>>, NEW a \in Seq(Characters)
  PROVE  /\ Len(Below(p, a)) = Len(p) + 1 + Len(a)
         /\ \A i \in 1..Len(p) : Below(p, a)[i] = p[i]
         /\ Below(p, a)[Len(p) + 1] = "/"
         /\ \A i \in 1..Len(a) : Below(p, a)[Len(p) + 1 + i] = a[i]
<1> DEFINE q == p \o <<"/">>
<1>1. q \in Seq(Characters) /\ Len(q) = Len(p) + 1 /\ q[Len(p) + 1] = "/" /\ \A i \in 1..Len(p) : q[i] = p[i]
  BY FilesAssumption
<1>2. Below(p, a) = q \o a
  BY DEF Below
<1> HIDE DEF q
<1>3. Len(q \o a) = Len(p) + 1 + Len(a) /\ Len(p) \in Nat /\ Len(a) \in Nat
  BY <1>1
<1>4. \A i \in 1..Len(q) : (q \o a)[i] = q[i]
  BY <1>1
<1>5. \A i \in 1..Len(a) : (q \o a)[Len(q) + i] = a[i]
  BY <1>1
<1> QED BY <1>1, <1>2, <1>3, <1>4, <1>5

LEMMA BelowNotLonger ==
  ASSUME NEW p \in Seq(Characters), NEW q \in Seq(Characters), NEW a, NEW b, IsName(a), IsName(b),
         Below(p, a) = Below(q, b)
  PROVE  Len(q) <= Len(p)
<1> SUFFICES ASSUME Len(p) < Len(q) PROVE FALSE
  OBVIOUS
<1>1. q # <<>> /\ Len(p) \in Nat /\ Len(q) \in Nat /\ Len(a) \in Nat /\ Len(b) \in Nat
      /\ a \in Seq(Characters) /\ b \in Seq(Characters)
  BY DEF IsName
<1>2. Below(q, b)[Len(q) + 1] = "/" /\ Len(Below(q, b)) = Len(q) + 1 + Len(b)
  BY <1>1, BelowIs
<1>3. CASE p = <<>>
  <2>1. Below(p, a) = a
    BY <1>3 DEF Below
  <2>2. Len(q) + 1 \in 1..Len(a)
    BY <1>1, <1>2, <2>1
  <2> QED BY <1>1, <1>2, <2>1, <2>2 DEF IsName
<1>4. CASE p # <<>>
  <2>1. Len(Below(p, a)) = Len(p) + 1 + Len(a) /\ \A i \in 1..Len(a) : Below(p, a)[Len(p) + 1 + i] = a[i]
    BY <1>1, <1>4, BelowIs
  <2>2. Len(q) - Len(p) \in 1..Len(a)
    BY <1>1, <1>2, <2>1
  <2>3. Below(p, a)[Len(p) + 1 + (Len(q) - Len(p))] = a[Len(q) - Len(p)]
    BY <2>1, <2>2
  <2>4. Len(p) + 1 + (Len(q) - Len(p)) = Len(q) + 1
    BY <1>1
  <2> QED BY <1>1, <1>2, <2>2, <2>3, <2>4 DEF IsName
<1> QED BY <1>3, <1>4

LEMMA BelowTells ==
  ASSUME NEW p \in Seq(Characters), NEW q \in Seq(Characters), NEW a, NEW b, IsName(a), IsName(b),
         Below(p, a) = Below(q, b)
  PROVE  p = q /\ a = b
<1>1. Len(p) \in Nat /\ Len(q) \in Nat /\ Len(a) \in Nat /\ Len(b) \in Nat
      /\ a \in Seq(Characters) /\ b \in Seq(Characters)
  BY DEF IsName
<1>2. Len(p) = Len(q)
  BY <1>1, BelowNotLonger
<1>3. CASE p = <<>>
  <2>1. q = <<>>
    BY <1>2, <1>3
  <2> QED BY <1>3, <2>1 DEF Below
<1>4. CASE p # <<>>
  <2>1. q # <<>>
    BY <1>1, <1>2, <1>4
  <2>2. /\ Len(Below(p, a)) = Len(p) + 1 + Len(a)
        /\ \A i \in 1..Len(p) : Below(p, a)[i] = p[i]
        /\ \A i \in 1..Len(a) : Below(p, a)[Len(p) + 1 + i] = a[i]
    BY <1>1, <1>4, BelowIs
  <2>3. /\ Len(Below(q, b)) = Len(q) + 1 + Len(b)
        /\ \A i \in 1..Len(q) : Below(q, b)[i] = q[i]
        /\ \A i \in 1..Len(b) : Below(q, b)[Len(q) + 1 + i] = b[i]
    BY <1>1, <2>1, BelowIs
  <2>4. Len(a) = Len(b)
    BY <1>1, <1>2, <2>2, <2>3
  <2>5. \A i \in 1..Len(p) : p[i] = q[i]
    BY <1>2, <2>2, <2>3
  <2>6. \A i \in 1..Len(a) : a[i] = b[i]
    BY <1>2, <2>2, <2>3, <2>4
  <2> QED BY <1>1, <1>2, <2>4, <2>5, <2>6
<1> QED BY <1>3, <1>4

LEMMA BelowNotEmpty ==
  ASSUME NEW p \in Seq(Characters), NEW a, IsName(a)
  PROVE  Below(p, a) # <<>>
<1>1. a \in Seq(Characters) /\ Len(a) \in Nat /\ Len(p) \in Nat
  BY DEF IsName
<1>2. CASE p = <<>>
  BY <1>2 DEF Below, IsName
<1>3. CASE p # <<>>
  BY <1>1, <1>3, BelowIs
<1> QED BY <1>2, <1>3

-----------------------------------------------------------------------------
(* The tree of the directories found.                                      *)
Elements(s) == {s[i] : i \in DOMAIN s}
NodesDiffer(dirs) == \A i, j \in DOMAIN dirs : dirs[i].node = dirs[j].node => i = j
Listed == Elements(opened) \cup Elements(directory_worklist)

\* readdir() has returned e, of the opened directory c.
Returned(c, e) == c \in Elements(opened) /\ e \in entries /\ e.dir = c.node /\ e \notin unread

EachOnce ==
  /\ NodesDiffer(opened) /\ NodesDiffer(directory_worklist)
  /\ \A c \in Elements(opened), d \in Elements(directory_worklist) : c.node # d.node
Readable == \A c \in Elements(opened) : c.node \notin Unreadable
Reached ==
  \A d \in Listed : d = RootDir \/ \E c, e : Returned(c, e) /\ d = Enter(c, e)
PathsTell == \A c, d \in Listed : c.path = d.path => c = d
SeenIsReturned == \A n \in seen_inode : \E c, e : Returned(c, e) /\ e.node = n
RootIsListed == RootDir \in Listed \/ Root \in Unreadable
WantedAreKept ==
  \A c, e : Returned(c, e) =>
    /\ WantedDir(c, e) => Enter(c, e) \in Listed \/ e.node \in Unreadable
    /\ WantedFile(c, e) => Below(c.path, e.name) \in Elements(result_paths)
ResultsAreWanted ==
  \A path \in Elements(result_paths) :
    \E c, e : Returned(c, e) /\ WantedFile(c, e) /\ path = Below(c.path, e.name)
ResultsDiffer == \A i, j \in DOMAIN result_paths : result_paths[i] = result_paths[j] => i = j
IsNear ==
  /\ \A i \in DOMAIN opened : opened[i] \in Within(i - 1)
  /\ \A d \in Elements(directory_worklist) : d \in Within(Len(opened))

TreeInv ==
  /\ EachOnce /\ Readable /\ Reached /\ PathsTell /\ SeenIsReturned /\ RootIsListed
  /\ WantedAreKept /\ ResultsAreWanted /\ ResultsDiffer /\ IsNear

LEMMA OnlyName ==
  ASSUME WalkTypeInv, OneNameEach
  PROVE  /\ \A e, f \in entries : e.node \in Directories /\ e.node = f.node => e = f
         /\ \A e \in entries : e.node # Root
<1>1. IsFiniteSet(entries)
  BY NamesAre DEF WalkTypeInv
<1>2. ASSUME NEW e \in entries, NEW f \in entries, e.node \in Directories, e.node = f.node, e # f PROVE FALSE
  <2>1. {e} \cup {f} \in SUBSET Names(e.node) /\ Names(e.node) \in SUBSET entries
    BY <1>2 DEF Names
  <2>2. IsFiniteSet(Names(e.node))
    BY <1>1, <2>1, FS_Subset
  <2>3. Cardinality({e} \cup {f}) = 2
    <3>1. IsFiniteSet({e}) /\ Cardinality({e}) = 1 /\ f \notin {e}
      BY <1>2, FS_Singleton
    <3> QED BY <3>1, FS_AddElement
  <2>4. Cardinality({e} \cup {f}) <= Cardinality(Names(e.node))
    BY <2>1, <2>2, FS_Subset
  <2>5. Cardinality(Names(e.node)) <= 1 /\ Cardinality(Names(e.node)) \in Nat
    BY <1>2, <2>2, FS_CardinalityType DEF OneNameEach
  <2> QED BY <2>3, <2>4, <2>5
<1>3. \A e \in entries : e.node # Root
  BY DEF OneNameEach, Names
<1> QED BY <1>2, <1>3

LEMMA EntriesAre ==
  ASSUME WalkTypeInv
  PROVE  /\ \A e \in entries : IsName(e.name)
         /\ \A e, f \in entries : e.dir = f.dir /\ e.name = f.name => e = f
<1>1. IsFileSystem(entries)
  BY FilesAssumption DEF WalkTypeInv
<1> QED BY <1>1 DEF IsFileSystem, IsName

LEMMA ElementsAppend ==
  ASSUME NEW S, NEW s \in Seq(S), NEW x
  PROVE  Elements(Append(s, x)) = Elements(s) \cup {x}
BY DEF Elements

LEMMA ElementsTail ==
  ASSUME NEW S, NEW s \in Seq(S), s # <<>>
  PROVE  Elements(s) = {Head(s)} \cup Elements(Tail(s))
<1>1. Len(s) \in Nat /\ Len(s) >= 1 /\ DOMAIN s = 1..Len(s) /\ DOMAIN Tail(s) = 1..(Len(s) - 1)
      /\ Head(s) = s[1] /\ \A i \in 1..(Len(s) - 1) : Tail(s)[i] = s[i + 1]
  OBVIOUS
<1>2. ASSUME NEW i \in DOMAIN s PROVE s[i] \in {Head(s)} \cup Elements(Tail(s))
  <2>1. CASE i = 1
    BY <1>1, <2>1
  <2>2. CASE i # 1
    <3>1. i - 1 \in 1..(Len(s) - 1) /\ (i - 1) + 1 = i
      BY <1>1, <2>2
    <3>2. s[i] = Tail(s)[i - 1]
      BY <1>1, <3>1
    <3> QED BY <1>1, <3>1, <3>2 DEF Elements
  <2> QED BY <2>1, <2>2
<1>3. Head(s) \in Elements(s)
  BY <1>1 DEF Elements
<1>4. \A i \in DOMAIN Tail(s) : Tail(s)[i] \in Elements(s)
  BY <1>1 DEF Elements
<1> QED BY <1>2, <1>3, <1>4 DEF Elements

LEMMA DifferAppend ==
  ASSUME NEW s \in Seq(Dir), NodesDiffer(s), NEW d, \A c \in Elements(s) : c.node # d.node
  PROVE  NodesDiffer(Append(s, d))
<1>1. Len(s) \in Nat /\ DOMAIN s = 1..Len(s) /\ DOMAIN Append(s, d) = 1..(Len(s) + 1)
      /\ Append(s, d)[Len(s) + 1] = d /\ \A i \in 1..Len(s) : Append(s, d)[i] = s[i]
  OBVIOUS
<1>2. \A i \in 1..Len(s) : s[i].node # d.node
  BY <1>1 DEF Elements
<1>3. \A i \in 1..(Len(s) + 1) : i = Len(s) + 1 \/ i \in 1..Len(s)
  BY <1>1
<1> QED BY <1>1, <1>2, <1>3 DEF NodesDiffer

LEMMA DifferTail ==
  ASSUME NEW s \in Seq(Dir), s # <<>>, NodesDiffer(s)
  PROVE  NodesDiffer(Tail(s)) /\ \A d \in Elements(Tail(s)) : d.node # Head(s).node
<1>1. Len(s) \in Nat /\ Len(s) >= 1 /\ DOMAIN s = 1..Len(s) /\ DOMAIN Tail(s) = 1..(Len(s) - 1)
      /\ Head(s) = s[1] /\ \A i \in 1..(Len(s) - 1) : Tail(s)[i] = s[i + 1]
  OBVIOUS
<1>2. \A i \in 1..(Len(s) - 1) : i + 1 \in DOMAIN s /\ i + 1 # 1
  BY <1>1
<1>3. NodesDiffer(Tail(s))
  BY <1>1, <1>2 DEF NodesDiffer
<1>4. \A i \in 1..(Len(s) - 1) : Tail(s)[i].node # Head(s).node
  BY <1>1, <1>2 DEF NodesDiffer
<1> QED BY <1>1, <1>3, <1>4 DEF Elements

-----------------------------------------------------------------------------
(* The directories that are at most so many steps away.                    *)
IsWithins(b, n) == b = [k \in 0..n |-> IF k = 0 THEN {RootDir} ELSE Further(b[k - 1])]

LEMMA WithinsExist == \A n \in Nat : \E b : IsWithins(b, n)
<1> DEFINE S == {n \in Nat : \E b : IsWithins(b, n)}
<1>1. 0 \in S
  <2> DEFINE b == [k \in 0..0 |-> {RootDir}]
  <2>1. IsWithins(b, 0)
    BY DEF IsWithins
  <2> QED BY <2>1
<1>2. ASSUME NEW n \in Nat, n \in S PROVE n + 1 \in S
  <2>1. PICK b : IsWithins(b, n)
    BY <1>2
  <2> DEFINE c == [k \in 0..(n + 1) |-> IF k = n + 1 THEN Further(b[n]) ELSE b[k]]
  <2>2. ASSUME NEW k \in 0..(n + 1)
        PROVE  c[k] = IF k = 0 THEN {RootDir} ELSE Further(c[k - 1])
    <3>1. CASE k = n + 1
      <4>1. k # 0 /\ k - 1 = n /\ n \in 0..(n + 1) /\ n # n + 1
        BY <3>1
      <4>2. c[n] = b[n]
        BY <4>1
      <4> QED BY <3>1, <4>1, <4>2
    <3>2. CASE k = 0
      BY <3>2, <2>1 DEF IsWithins
    <3>3. CASE k \in 1..n
      <4>1. k - 1 \in 0..(n + 1) /\ k - 1 # n + 1 /\ k \in 0..n /\ k # n + 1 /\ k # 0
        BY <3>3
      <4>2. c[k - 1] = b[k - 1] /\ c[k] = b[k]
        BY <4>1
      <4>3. b[k] = Further(b[k - 1])
        BY <4>1, <2>1 DEF IsWithins
      <4> QED BY <4>1, <4>2, <4>3
    <3> QED BY <3>1, <3>2, <3>3
  <2> HIDE DEF c
  <2>3. c = [k \in 0..(n + 1) |-> c[k]]
    BY DEF c
  <2>4. IsWithins(c, n + 1)
    BY <2>2, <2>3 DEF IsWithins
  <2> QED BY <2>4
<1>3. Nat \subseteq S
  BY <1>1, <1>2, AllNaturals
<1> QED BY <1>3

LEMMA WithinsAt ==
  ASSUME NEW n \in Nat, NEW b, IsWithins(b, n)
  PROVE  b[0] = {RootDir} /\ \A k \in 1..n : b[k] = Further(b[k - 1])
<1>1. \A k \in 0..n : b[k] = IF k = 0 THEN {RootDir} ELSE Further(b[k - 1])
  BY Zenon DEF IsWithins
<1>2. 0 \in 0..n /\ \A k \in 1..n : k \in 0..n /\ k # 0
  OBVIOUS
<1> QED BY <1>1, <1>2, Zenon

LEMMA WithinsAgree ==
  ASSUME NEW m \in Nat, NEW n \in Nat, m <= n, NEW b, IsWithins(b, m), NEW c, IsWithins(c, n)
  PROVE  \A k \in 0..m : b[k] = c[k]
<1> DEFINE S == {k \in Nat : k \in 0..m => b[k] = c[k]}
<1>1. 0 \in S
  BY WithinsAt
<1>2. ASSUME NEW k \in Nat, k \in S PROVE k + 1 \in S
  <2> SUFFICES ASSUME k + 1 \in 0..m PROVE b[k + 1] = c[k + 1]
    OBVIOUS
  <2>1. k \in 0..m /\ k + 1 # 0 /\ (k + 1) - 1 = k /\ k + 1 \in 0..n
    OBVIOUS
  <2>2. b[k] = c[k]
    BY <1>2, <2>1
  <2>3. k + 1 \in 1..m /\ k + 1 \in 1..n
    BY <2>1
  <2>4. b[k + 1] = Further(b[(k + 1) - 1]) /\ c[k + 1] = Further(c[(k + 1) - 1])
    BY <2>3, WithinsAt
  <2> QED BY <2>1, <2>2, <2>4
<1>3. Nat \subseteq S
  BY <1>1, <1>2, AllNaturals
<1> QED BY <1>3

LEMMA WithinIs ==
  ASSUME NEW n \in Nat, NEW b, IsWithins(b, n)
  PROVE  Within(n) = b[n]
<1> DEFINE c == CHOOSE f : IsWithins(f, n)
<1>1. IsWithins(c, n)
  BY WithinsExist
<1>2. Within(n) = c[n]
  BY DEF Within, IsWithins
<1> HIDE DEF c
<1>3. c[n] = b[n]
  BY <1>1, WithinsAgree
<1> QED BY <1>2, <1>3

LEMMA WithinZero == Within(0) = {RootDir}
<1>1. PICK b : IsWithins(b, 0)
  BY WithinsExist
<1> QED BY <1>1, WithinIs, WithinsAt

LEMMA WithinNext ==
  ASSUME NEW n \in Nat
  PROVE  Within(n + 1) = Further(Within(n))
<1>1. PICK b : IsWithins(b, n)
  BY WithinsExist
<1>2. PICK c : IsWithins(c, n + 1)
  BY WithinsExist
<1>3. Within(n) = b[n] /\ Within(n + 1) = c[n + 1]
  BY <1>1, <1>2, WithinIs
<1>4. b[n] = c[n]
  BY <1>1, <1>2, WithinsAgree
<1>5. c[n + 1] = Further(c[n])
  <2>1. n + 1 \in 1..(n + 1) /\ (n + 1) - 1 = n
    OBVIOUS
  <2>2. c[n + 1] = Further(c[(n + 1) - 1])
    BY <1>2, <2>1, WithinsAt
  <2> QED BY <2>1, <2>2
<1> QED BY <1>3, <1>4, <1>5

LEMMA WithinGrows ==
  ASSUME NEW m \in Nat, NEW n \in Nat, m <= n
  PROVE  Within(m) \subseteq Within(n)
<1> DEFINE S == {k \in Nat : Within(m) \subseteq Within(m + k)}
<1>1. 0 \in S
  OBVIOUS
<1>2. ASSUME NEW k \in Nat, k \in S PROVE k + 1 \in S
  <2>1. Within((m + k) + 1) = Further(Within(m + k))
    BY WithinNext
  <2>2. m + (k + 1) = (m + k) + 1
    OBVIOUS
  <2> QED BY <1>2, <2>1, <2>2 DEF Further
<1>3. Nat \subseteq S
  <2> HIDE DEF S
  <2> QED BY <1>1, <1>2, AllNaturals
<1>4. n - m \in Nat /\ m + (n - m) = n
  OBVIOUS
<1> QED BY <1>3, <1>4

LEMMA WithinStep ==
  ASSUME NEW n \in Nat, NEW c \in Within(n), NEW e \in entries, WantedDir(c, e)
  PROVE  Enter(c, e) \in Within(n + 1)
<1>1. <<c, e>> \in {x \in Within(n) \X entries : WantedDir(x[1], x[2])}
  OBVIOUS
<1>2. Enter(c, e) \in Further(Within(n))
  BY <1>1 DEF Further
<1> QED BY <1>2, WithinNext

-----------------------------------------------------------------------------
(* What the steps do to the tree.                                          *)

\* What is wanted does not change.
LEMMA SearchStays ==
  ASSUME [WalkNext]_walkVars
  PROVE  /\ entries' = entries /\ search' = search
         /\ \A c, e : (WantedDir(c, e)' <=> WantedDir(c, e)) /\ (WantedFile(c, e)' <=> WantedFile(c, e))
         /\ \A n : Within(n)' = Within(n)
<1>1. entries' = entries /\ search' = search
  BY DEF WalkNext, OpenDir, ReadDir, CloseDir, walkVars
<1>2. \A c, e : (WantedDir(c, e)' <=> WantedDir(c, e)) /\ (WantedFile(c, e)' <=> WantedFile(c, e))
  BY <1>1 DEF WantedDir, WantedFile, Wanted
<1>3. \A n : Within(n)' = Within(n)
  BY <1>1 DEF Within, Further, WantedDir, Wanted
<1> QED BY <1>1, <1>2, <1>3

LEMMA OpenIs ==
  ASSUME WalkTypeInv, OpenDir
  PROVE  /\ directory_worklist # <<>> /\ directory_worklist \in Seq(Dir) /\ Head(directory_worklist) \in Dir
         /\ opened \in Seq(Dir) /\ unread = {}
         /\ directory_worklist' = Tail(directory_worklist)
         /\ UNCHANGED <<entries, search, seen_inode, result_paths>>
         /\ \/ Head(directory_worklist).node \in Unreadable /\ UNCHANGED <<opened, unread>>
            \/ /\ Head(directory_worklist).node \notin Unreadable
               /\ opened' = Append(opened, Head(directory_worklist))
               /\ unread' = {e \in entries : e.dir = Head(directory_worklist).node}
<1>1. directory_worklist # <<>> /\ directory_worklist \in Seq(Dir) /\ opened \in Seq(Dir) /\ unread = {}
  BY DEF OpenDir, WalkTypeInv, IsLastOpened
<1>2. Head(directory_worklist) \in Dir
  BY <1>1
<1> QED BY <1>1, <1>2 DEF OpenDir

\* Opening a directory returns nothing yet.
LEMMA OpenReturned ==
  ASSUME WalkTypeInv, EachOnce, OpenDir
  PROVE  \A c, e : Returned(c, e)' <=> Returned(c, e)
<1> DEFINE d == Head(directory_worklist)
<1>1. unread = {} /\ entries' = entries
  BY OpenIs
<1>2. CASE UNCHANGED <<opened, unread>>
  BY <1>1, <1>2 DEF Returned
<1>3. CASE opened' = Append(opened, d) /\ unread' = {e \in entries : e.dir = d.node}
  <2>1. Elements(opened') = Elements(opened) \cup {d}
    BY <1>3, OpenIs, ElementsAppend
  <2>2. d \in Elements(directory_worklist)
    BY OpenIs, ElementsTail
  <2>3. \A c \in Elements(opened) : c.node # d.node
    BY <2>2 DEF EachOnce
  <2> HIDE DEF d
  <2>4. \A e \in entries : e \in unread' <=> e.dir = d.node
    BY <1>3
  <2> QED BY <1>1, <2>1, <2>3, <2>4 DEF Returned
<1> QED BY <1>2, <1>3, OpenIs

LEMMA OpenListed ==
  ASSUME WalkTypeInv, OpenDir
  PROVE  /\ Elements(directory_worklist) = {Head(directory_worklist)} \cup Elements(directory_worklist')
         /\ \/ /\ Head(directory_worklist).node \in Unreadable
               /\ Elements(opened') = Elements(opened)
            \/ /\ Head(directory_worklist).node \notin Unreadable
               /\ Elements(opened') = Elements(opened) \cup {Head(directory_worklist)}
<1>1. Elements(directory_worklist) = {Head(directory_worklist)} \cup Elements(directory_worklist')
  BY OpenIs, ElementsTail
<1>2. CASE opened' = opened /\ Head(directory_worklist).node \in Unreadable
  BY <1>1, <1>2
<1>3. CASE opened' = Append(opened, Head(directory_worklist)) /\ Head(directory_worklist).node \notin Unreadable
  BY <1>1, <1>3, OpenIs, ElementsAppend
<1> QED BY <1>2, <1>3, OpenIs

LEMMA CurrentIsOpened ==
  ASSUME WalkTypeInv, NEW e \in unread, ReadDir(e)
  PROVE  current_dir[1] \in Elements(opened) /\ Len(opened) \in DOMAIN opened
<1>1. opened # <<>> /\ opened \in Seq(Dir) /\ current_dir[1] = opened[Len(opened)]
  BY ReadDirKeeps DEF WalkTypeInv, IsLastOpened
<1> QED BY <1>1 DEF Elements

LEMMA ReadReturned ==
  ASSUME WalkTypeInv, EachOnce, NEW e \in unread, ReadDir(e)
  PROVE  /\ \A c, f : Returned(c, f)' <=> Returned(c, f) \/ (c = current_dir[1] /\ f = e)
         /\ \A c : ~Returned(c, e)
<1>1. /\ e \in entries /\ entries' = entries /\ opened' = opened /\ unread' = unread \ {e}
      /\ e.dir = current_dir[1].node /\ current_dir[1] \in Elements(opened)
  BY ReadDirKeeps, CurrentIsOpened
<1>2. \A c, d \in Elements(opened) : c.node = d.node => c = d
  BY DEF EachOnce, NodesDiffer, Elements
<1>3. \A c : ~Returned(c, e)
  BY DEF Returned
<1>4. \A c, f : Returned(c, f)' <=> c \in Elements(opened) /\ f \in entries /\ f.dir = c.node /\ f \notin unread \ {e}
  BY <1>1 DEF Returned
<1>5. \A c \in Elements(opened) : e.dir = c.node => c = current_dir[1]
  BY <1>1, <1>2
<1>6. \A c, f : Returned(c, f) <=> c \in Elements(opened) /\ f \in entries /\ f.dir = c.node /\ f \notin unread
  BY DEF Returned
<1> QED BY <1>1, <1>3, <1>4, <1>5, <1>6

LEMMA CloseReturned ==
  ASSUME CloseDir \/ UNCHANGED walkVars
  PROVE  /\ \A c, e : Returned(c, e)' <=> Returned(c, e)
         /\ UNCHANGED <<entries, search, directory_worklist, opened, seen_inode, result_paths>>
BY DEF CloseDir, walkVars, Returned

\* A directory that is found has not been found before.
LEMMA DirectoryIsNew ==
  ASSUME WalkTypeInv, OneNameEach, TreeInv, NEW e \in unread, ReadDir(e)
  PROVE  /\ \A d \in Listed : d.path # Below(current_dir[1].path, e.name)
         /\ IsDirectory(e) => /\ \A d \in Listed : d.node # e.node
                              /\ ~(LooksLikeValidInode(Inode(e.node)) /\ Inode(e.node) \in seen_inode)
<1>1. e \in entries /\ current_dir[1] \in Dir /\ e.dir = current_dir[1].node /\ current_dir[1] \in Elements(opened)
  BY ReadDirKeeps, CurrentIsOpened
<1>2. \A c : ~Returned(c, e)
  BY ReadReturned DEF TreeInv
<1>3. \A d \in Listed : d \in Dir
  BY DEF Listed, Elements, WalkTypeInv
<1>4. ASSUME NEW d \in Listed PROVE d.path # Below(current_dir[1].path, e.name)
  <2> SUFFICES ASSUME d.path = Below(current_dir[1].path, e.name) PROVE FALSE
    OBVIOUS
  <2>1. IsName(e.name) /\ current_dir[1].path \in Seq(Characters)
    BY <1>1, EntriesAre DEF Dir
  <2>2. CASE d = RootDir
    <3>1. Below(current_dir[1].path, e.name) # <<>>
      BY <2>1, BelowNotEmpty
    <3> QED BY <2>2, <3>1 DEF RootDir
  <2>3. CASE \E c, f : Returned(c, f) /\ d = Enter(c, f)
    <3>1. PICK c, f : Returned(c, f) /\ d = Enter(c, f)
      BY <2>3
    <3>2. c \in Elements(opened) /\ f \in entries /\ f.dir = c.node /\ d.path = Below(c.path, f.name)
      BY <3>1 DEF Returned, Enter
    <3>3. c.path \in Seq(Characters) /\ IsName(f.name)
      BY <1>3, <3>2, EntriesAre DEF Listed, Dir
    <3>4. c.path = current_dir[1].path /\ f.name = e.name
      <4>1. Below(c.path, f.name) = Below(current_dir[1].path, e.name)
        BY <3>2
      <4> QED BY <2>1, <3>3, <4>1, BelowTells
    <3>5. c = current_dir[1]
      BY <1>1, <3>2, <3>4 DEF TreeInv, PathsTell, Listed
    <3>6. f = e
      BY <1>1, <3>2, <3>4, <3>5, EntriesAre
    <3> QED BY <1>2, <3>1, <3>6
  <2> QED BY <2>2, <2>3 DEF TreeInv, Reached
<1>5. ASSUME IsDirectory(e) PROVE \A d \in Listed : d.node # e.node
  <2> SUFFICES ASSUME NEW d \in Listed, d.node = e.node PROVE FALSE
    OBVIOUS
  <2>1. d # RootDir
    BY <1>1, OnlyName DEF RootDir
  <2>2. PICK c, f : Returned(c, f) /\ d = Enter(c, f)
    BY <2>1 DEF TreeInv, Reached
  <2>3. f \in entries /\ f.node = e.node
    BY <2>2 DEF Returned, Enter
  <2>4. f = e
    BY <1>1, <1>5, <2>3, OnlyName DEF IsDirectory
  <2> QED BY <1>2, <2>2, <2>4
<1>6. ASSUME IsDirectory(e), LooksLikeValidInode(Inode(e.node)), Inode(e.node) \in seen_inode PROVE FALSE
  <2>1. Inode(e.node) = e.node
    BY <1>6 DEF Inode, LooksLikeValidInode
  <2>2. PICK c, f : Returned(c, f) /\ f.node = e.node
    BY <1>6, <2>1 DEF TreeInv, SeenIsReturned
  <2>3. f = e
    BY <1>1, <1>6, <2>2, OnlyName DEF IsDirectory, Returned
  <2> QED BY <1>2, <2>2, <2>3
<1> QED BY <1>4, <1>5, <1>6

-----------------------------------------------------------------------------
(* The steps keep the tree.                                                *)

LEMMA InitTree == WalkInit => TreeInv
<1> SUFFICES ASSUME WalkInit PROVE TreeInv
  OBVIOUS
<1>1. opened = <<>> /\ directory_worklist = <<RootDir>> /\ seen_inode = {} /\ result_paths = <<>>
  BY DEF WalkInit, RootDir
<1>2. Elements(opened) = {} /\ Elements(directory_worklist) = {RootDir}
      /\ Elements(result_paths) = {} /\ Len(opened) = 0
  BY <1>1 DEF Elements
<1>3. \A c, e : ~Returned(c, e)
  BY <1>2 DEF Returned
<1>4. EachOnce /\ Readable /\ SeenIsReturned /\ ResultsAreWanted /\ ResultsDiffer /\ WantedAreKept
  BY <1>1, <1>2, <1>3 DEF EachOnce, NodesDiffer, Readable, SeenIsReturned, ResultsAreWanted, ResultsDiffer, WantedAreKept
<1>5. Reached /\ PathsTell /\ RootIsListed
  BY <1>2 DEF Reached, PathsTell, RootIsListed, Listed
<1>6. IsNear
  <2>1. RootDir \in Within(Len(opened))
    BY <1>2, WithinZero
  <2>2. \A i \in DOMAIN opened : opened[i] \in Within(i - 1)
    BY <1>1
  <2> QED BY <1>2, <2>1, <2>2 DEF IsNear
<1> QED BY <1>4, <1>5, <1>6 DEF TreeInv

LEMMA OpenTree ==
  ASSUME WalkTypeInv, TreeInv, OpenDir
  PROVE  TreeInv'
<1> DEFINE d == Head(directory_worklist)
<1>0. [WalkNext]_walkVars
  BY DEF WalkNext
<1>1. \A c, e : Returned(c, e)' <=> Returned(c, e)
  BY OpenReturned DEF TreeInv
<1>2. Elements(directory_worklist) = {d} \cup Elements(directory_worklist')
  BY OpenListed
<1>3. seen_inode' = seen_inode /\ result_paths' = result_paths /\ d \in Dir
  BY OpenIs
<1>4. \A c, e : (WantedDir(c, e)' <=> WantedDir(c, e)) /\ (WantedFile(c, e)' <=> WantedFile(c, e))
  BY <1>0, SearchStays
<1>5. d \in Listed /\ Listed' \subseteq Listed
  BY <1>2, OpenListed DEF Listed
<1>6. \A c \in Listed : c \in Listed' \/ (c = d /\ d.node \in Unreadable)
  BY <1>2, OpenListed DEF Listed
<1>7. NodesDiffer(directory_worklist') /\ \A c \in Elements(directory_worklist') : c.node # d.node
  BY OpenIs, DifferTail DEF TreeInv, EachOnce
<1>8. \A c \in Elements(opened) : c.node # d.node /\ \A e \in Elements(directory_worklist') : c.node # e.node
  BY <1>2 DEF TreeInv, EachOnce
<1>9. EachOnce' /\ Readable' /\ IsNear'
  <2>1. \A n : Within(n)' = Within(n)
    BY <1>0, SearchStays
  <2>2. Len(opened) \in Nat
    BY OpenIs
  <2>3. \A c \in {d} \cup Elements(directory_worklist') : c \in Within(Len(opened))
    BY <1>2 DEF TreeInv, IsNear
  <2>4. CASE d.node \in Unreadable /\ opened' = opened
    BY <1>7, <1>8, <2>1, <2>3, <2>4 DEF TreeInv, EachOnce, Readable, IsNear
  <2>5. CASE d.node \notin Unreadable /\ opened' = Append(opened, d)
    <3>1. NodesDiffer(opened')
      BY <1>8, <2>5, OpenIs, DifferAppend DEF TreeInv, EachOnce
    <3>2. Elements(opened') = Elements(opened) \cup {d}
      BY <2>5, OpenIs, ElementsAppend
    <3>3. Len(opened') = Len(opened) + 1 /\ DOMAIN opened' = 1..(Len(opened) + 1) /\ DOMAIN opened = 1..Len(opened)
          /\ opened'[Len(opened) + 1] = d /\ \A i \in 1..Len(opened) : opened'[i] = opened[i]
      BY <1>3, <2>5, OpenIs
    <3> HIDE DEF d
    <3>4. EachOnce'
      BY <1>7, <1>8, <3>1, <3>2 DEF EachOnce
    <3>5. Readable'
      BY <2>5, <3>2 DEF TreeInv, Readable
    <3>6. Within(Len(opened)) \subseteq Within(Len(opened) + 1)
      BY <2>2, WithinGrows
    <3>7. \A c \in Elements(directory_worklist') : c \in Within(Len(opened'))
      BY <2>3, <3>3, <3>6
    <3>8. ASSUME NEW i \in DOMAIN opened' PROVE opened'[i] \in Within(i - 1)
      <4>1. CASE i = Len(opened) + 1
        <5>1. i - 1 = Len(opened)
          BY <2>2, <4>1
        <5> QED BY <2>3, <3>3, <4>1, <5>1
      <4>2. CASE i \in 1..Len(opened)
        BY <3>3, <4>2 DEF TreeInv, IsNear
      <4> QED BY <2>2, <3>3, <4>1, <4>2
    <3>9. IsNear'
      BY <2>1, <3>7, <3>8 DEF IsNear
    <3> QED BY <3>4, <3>5, <3>9
  <2> QED BY <2>4, <2>5, OpenIs
<1>10. Reached' /\ PathsTell'
  BY <1>1, <1>5 DEF TreeInv, Reached, PathsTell
<1>11. SeenIsReturned' /\ ResultsAreWanted' /\ ResultsDiffer'
  BY <1>1, <1>3, <1>4 DEF TreeInv, SeenIsReturned, ResultsAreWanted, ResultsDiffer
<1>12. RootIsListed'
  BY <1>6 DEF TreeInv, RootIsListed, RootDir
<1>13. WantedAreKept'
  <2>1. \A c, e : Enter(c, e).node = e.node
    BY DEF Enter
  <2> HIDE DEF d
  <2>2. ASSUME NEW c, NEW e, Returned(c, e)
        PROVE  /\ WantedDir(c, e) => Enter(c, e) \in Listed' \/ e.node \in Unreadable
               /\ WantedFile(c, e) => Below(c.path, e.name) \in Elements(result_paths)
    BY <1>6, <2>1, <2>2 DEF TreeInv, WantedAreKept
  <2> QED BY <1>1, <1>3, <1>4, <2>2 DEF WantedAreKept
<1> QED BY <1>9, <1>10, <1>11, <1>12, <1>13 DEF TreeInv

LEMMA ReadDirectoryTree ==
  ASSUME WalkTypeInv, OneNameEach, TreeInv, NEW e \in unread, ReadDir(e), IsDirectory(e)
  PROVE  TreeInv'
<1> DEFINE b == current_dir[1]
           d == Enter(b, e)
           wanted == want_dir_p(search, e, Below(b.path, e.name))
<1>0. [WalkNext]_walkVars
  BY DEF WalkNext
<1>1. \A c, f : Returned(c, f)' <=> Returned(c, f) \/ (c = b /\ f = e)
  BY ReadReturned DEF TreeInv
<1>2. /\ \A c, f : (WantedDir(c, f)' <=> WantedDir(c, f)) /\ (WantedFile(c, f)' <=> WantedFile(c, f))
      /\ \A n : Within(n)' = Within(n)
  BY <1>0, SearchStays
<1>3. /\ opened' = opened /\ result_paths' = result_paths
      /\ directory_worklist' = IF wanted THEN Append(directory_worklist, d) ELSE directory_worklist
      /\ seen_inode' \subseteq seen_inode \cup {e.node}
  BY ReadDirKeeps, ReadDirectory, DirectoryIsNew DEF Inode, LooksLikeValidInode
<1>4. /\ e \in entries /\ e.dir = b.node /\ b \in Dir /\ b \in Elements(opened) /\ d \in Dir
      /\ opened \in Seq(Dir) /\ directory_worklist \in Seq(Dir)
      /\ b = opened[Len(opened)] /\ Len(opened) \in DOMAIN opened
  BY ReadDirKeeps, CurrentIsOpened DEF Enter, Dir, IsDirectory, WalkTypeInv
<1>5. WantedDir(b, e) <=> wanted
  BY <1>4 DEF WantedDir, Wanted, TreeInv, Readable
<1>6. ~WantedFile(b, e)
  BY DEF WantedFile
<1>7. d.node = e.node /\ d.path = Below(b.path, e.name)
  BY DEF Enter
<1>8. \A c \in Listed : c.node # d.node /\ c.path # d.path
  BY <1>7, DirectoryIsNew
<1> HIDE DEF b, d, wanted
<1>9. Elements(directory_worklist') = IF wanted THEN Elements(directory_worklist) \cup {d} ELSE Elements(directory_worklist)
  BY <1>3, <1>4, ElementsAppend
<1>10. Listed' = IF wanted THEN Listed \cup {d} ELSE Listed
  BY <1>3, <1>9 DEF Listed
<1>11. EachOnce'
  <2>1. NodesDiffer(directory_worklist')
    <3>1. \A c \in Elements(directory_worklist) : c.node # d.node
      BY <1>8 DEF Listed
    <3>2. CASE wanted
      BY <1>3, <1>4, <3>1, <3>2, DifferAppend DEF TreeInv, EachOnce
    <3>3. CASE ~wanted
      BY <1>3, <3>3 DEF TreeInv, EachOnce
    <3> QED BY <3>2, <3>3
  <2>2. \A c \in Elements(opened) : c.node # d.node
    BY <1>8 DEF Listed
  <2> QED BY <1>3, <1>9, <2>1, <2>2 DEF TreeInv, EachOnce
<1>12. Readable' /\ RootIsListed'
  BY <1>3, <1>10 DEF TreeInv, Readable, RootIsListed, RootDir
<1>13. Reached'
  <2>1. d = Enter(b, e)
    BY DEF d
  <2> QED BY <1>1, <1>10, <2>1 DEF TreeInv, Reached
<1>14. PathsTell'
  BY <1>8, <1>10 DEF TreeInv, PathsTell
<1>15. SeenIsReturned'
  BY <1>1, <1>3 DEF TreeInv, SeenIsReturned
<1>16. WantedAreKept'
  <2>1. ASSUME NEW c, NEW f, Returned(c, f) \/ (c = b /\ f = e)
        PROVE  /\ WantedDir(c, f) => Enter(c, f) \in Listed' \/ f.node \in Unreadable
               /\ WantedFile(c, f) => Below(c.path, f.name) \in Elements(result_paths)
    <3>1. CASE Returned(c, f)
      BY <1>10, <3>1 DEF TreeInv, WantedAreKept
    <3>2. CASE c = b /\ f = e
      BY <1>5, <1>6, <1>10, <3>2 DEF d
    <3> QED BY <2>1, <3>1, <3>2
  <2> QED BY <1>1, <1>2, <1>3, <2>1 DEF WantedAreKept
<1>17. ResultsAreWanted' /\ ResultsDiffer'
  BY <1>1, <1>2, <1>3 DEF TreeInv, ResultsAreWanted, ResultsDiffer
<1>18. IsNear'
  <2>1. ASSUME wanted PROVE d \in Within(Len(opened))
    <3>1. Len(opened) \in Nat /\ Len(opened) - 1 \in Nat /\ (Len(opened) - 1) + 1 = Len(opened)
      BY <1>4
    <3>2. b \in Within(Len(opened) - 1)
      BY <1>4 DEF TreeInv, IsNear
    <3>3. Enter(b, e) \in Within((Len(opened) - 1) + 1)
      BY <1>4, <1>5, <2>1, <3>1, <3>2, WithinStep
    <3> QED BY <3>1, <3>3 DEF d
  <2> QED BY <1>2, <1>3, <1>9, <2>1 DEF TreeInv, IsNear
<1> QED BY <1>11, <1>12, <1>13, <1>14, <1>15, <1>16, <1>17, <1>18 DEF TreeInv

LEMMA ReadFileTree ==
  ASSUME WalkTypeInv, OneNameEach, TreeInv, NEW e \in unread, ReadDir(e), ~IsDirectory(e)
  PROVE  TreeInv'
<1> DEFINE b == current_dir[1]
           path == Below(b.path, e.name)
           wanted == want_file_p(search, e, path)
<1>0. [WalkNext]_walkVars
  BY DEF WalkNext
<1>1. \A c, f : Returned(c, f)' <=> Returned(c, f) \/ (c = b /\ f = e)
  BY ReadReturned DEF TreeInv
<1>2. /\ \A c, f : (WantedDir(c, f)' <=> WantedDir(c, f)) /\ (WantedFile(c, f)' <=> WantedFile(c, f))
      /\ \A n : Within(n)' = Within(n)
  BY <1>0, SearchStays
<1>3. /\ UNCHANGED <<opened, directory_worklist, seen_inode>>
      /\ result_paths' = IF wanted THEN Append(result_paths, path) ELSE result_paths
  BY ReadDirKeeps, ReadFile
<1>4. /\ e \in entries /\ b \in Elements(opened) /\ e.dir = b.node /\ b \in Dir
      /\ result_paths \in Seq(Seq(Characters))
  BY ReadDirKeeps, CurrentIsOpened DEF WalkTypeInv
<1>5. WantedFile(b, e) <=> wanted
  BY <1>4 DEF WantedFile, Wanted, TreeInv, Readable
<1>6. ~WantedDir(b, e)
  BY DEF WantedDir
<1>7. path \notin Elements(result_paths)
  <2> SUFFICES ASSUME path \in Elements(result_paths) PROVE FALSE
    OBVIOUS
  <2>1. PICK c, f : Returned(c, f) /\ WantedFile(c, f) /\ path = Below(c.path, f.name)
    BY DEF TreeInv, ResultsAreWanted
  <2>2. c \in Elements(opened) /\ f \in entries /\ f.dir = c.node /\ Elements(opened) \subseteq Dir
    BY <2>1 DEF Returned, Elements, WalkTypeInv
  <2>3. IsName(e.name) /\ IsName(f.name) /\ b.path \in Seq(Characters) /\ c.path \in Seq(Characters)
    BY <1>4, <2>2, EntriesAre DEF Dir
  <2>4. Below(c.path, f.name) = Below(b.path, e.name)
    BY <2>1
  <2>5. c.path = b.path /\ f.name = e.name
    BY <2>3, <2>4, BelowTells
  <2>6. c = b
    BY <1>4, <2>2, <2>5 DEF TreeInv, PathsTell, Listed
  <2>7. f = e
    BY <1>4, <2>2, <2>5, <2>6, EntriesAre
  <2> QED BY <2>1, <2>7, ReadReturned DEF TreeInv
<1> HIDE DEF b, wanted, path
<1>8. Elements(result_paths') = IF wanted THEN Elements(result_paths) \cup {path} ELSE Elements(result_paths)
  BY <1>3, <1>4, ElementsAppend
<1>9. path = Below(b.path, e.name)
  BY DEF path
<1>10. EachOnce' /\ Readable' /\ PathsTell' /\ RootIsListed' /\ IsNear'
  BY <1>2, <1>3 DEF TreeInv, EachOnce, Readable, PathsTell, RootIsListed, IsNear, Listed
<1>11. Reached' /\ SeenIsReturned'
  BY <1>1, <1>3 DEF TreeInv, Reached, SeenIsReturned, Listed
<1>12. ResultsAreWanted'
  BY <1>1, <1>2, <1>5, <1>8, <1>9 DEF TreeInv, ResultsAreWanted
<1>13. WantedAreKept'
  <2>1. ASSUME NEW c, NEW f, Returned(c, f) \/ (c = b /\ f = e)
        PROVE  /\ WantedDir(c, f) => Enter(c, f) \in Listed \/ f.node \in Unreadable
               /\ WantedFile(c, f) => Below(c.path, f.name) \in Elements(result_paths')
    <3>1. CASE Returned(c, f)
      BY <1>8, <3>1 DEF TreeInv, WantedAreKept
    <3>2. CASE c = b /\ f = e
      BY <1>5, <1>6, <1>8, <1>9, <3>2
    <3> QED BY <2>1, <3>1, <3>2
  <2> QED BY <1>1, <1>2, <1>3, <2>1 DEF WantedAreKept, Listed
<1>14. ResultsDiffer'
  <2>1. CASE ~wanted
    BY <1>3, <2>1 DEF TreeInv, ResultsDiffer
  <2>2. CASE wanted
    <3>1. /\ Len(result_paths) \in Nat /\ DOMAIN result_paths = 1..Len(result_paths)
          /\ DOMAIN result_paths' = 1..(Len(result_paths) + 1)
          /\ result_paths'[Len(result_paths) + 1] = path
          /\ \A i \in 1..Len(result_paths) : result_paths'[i] = result_paths[i]
      BY <1>3, <1>4, <2>2
    <3>2. \A i \in 1..Len(result_paths) : result_paths[i] # path
      BY <1>7, <3>1 DEF Elements
    <3>3. \A i \in 1..(Len(result_paths) + 1) : i = Len(result_paths) + 1 \/ i \in 1..Len(result_paths)
      BY <3>1
    <3> QED BY <3>1, <3>2, <3>3 DEF TreeInv, ResultsDiffer
  <2> QED BY <2>1, <2>2
<1> QED BY <1>10, <1>11, <1>12, <1>13, <1>14 DEF TreeInv

LEMMA CloseTree ==
  ASSUME TreeInv, CloseDir \/ UNCHANGED walkVars
  PROVE  TreeInv'
<1>0. [WalkNext]_walkVars
  BY DEF WalkNext
<1>1. /\ \A c, e : Returned(c, e)' <=> Returned(c, e)
      /\ UNCHANGED <<directory_worklist, opened, seen_inode, result_paths>>
  BY CloseReturned
<1>2. /\ \A c, f : (WantedDir(c, f)' <=> WantedDir(c, f)) /\ (WantedFile(c, f)' <=> WantedFile(c, f))
      /\ \A n : Within(n)' = Within(n)
  BY <1>0, SearchStays
<1>3. EachOnce' /\ Readable' /\ PathsTell' /\ RootIsListed' /\ IsNear' /\ ResultsDiffer'
  BY <1>1, <1>2 DEF TreeInv, EachOnce, Readable, PathsTell, RootIsListed, IsNear, Listed, ResultsDiffer
<1>4. Reached' /\ SeenIsReturned'
  BY <1>1 DEF TreeInv, Reached, SeenIsReturned, Listed
<1>5. ResultsAreWanted' /\ WantedAreKept'
  BY <1>1, <1>2 DEF TreeInv, ResultsAreWanted, WantedAreKept, Listed
<1> QED BY <1>3, <1>4, <1>5 DEF TreeInv

OneTree == OneNameEach => TreeInv

LEMMA NextOneTree == WalkTypeInv /\ OneTree /\ [WalkNext]_walkVars => OneTree'
<1> SUFFICES ASSUME WalkTypeInv, OneTree, [WalkNext]_walkVars, OneNameEach' PROVE TreeInv'
  BY DEF OneTree
<1>1. OneNameEach
  BY SearchStays DEF OneNameEach, Names
<1>2. TreeInv
  BY <1>1 DEF OneTree
<1> QED BY <1>1, <1>2, OpenTree, ReadDirectoryTree, ReadFileTree, CloseTree DEF WalkNext

-----------------------------------------------------------------------------
(* At the end.                                                             *)

LEMMA OpenedIsBounded ==
  ASSUME WalkTypeInv, TreeInv
  PROVE  Len(opened) <= Cardinality(Directories) /\ Cardinality(Directories) \in Nat
<1> DEFINE f == [i \in 1..Len(opened) |-> opened[i].node]
<1>1. opened \in Seq(Dir) /\ Len(opened) \in Nat /\ DOMAIN opened = 1..Len(opened)
  BY DEF WalkTypeInv
<1>2. f \in Injection(1..Len(opened), Directories)
  <2>0. \A i \in 1..Len(opened) : opened[i] \in Dir
    BY <1>1
  <2>1. \A i \in 1..Len(opened) : opened[i].node \in Directories
    BY <2>0 DEF Dir
  <2>2. f \in [1..Len(opened) -> Directories]
    BY <2>1
  <2>3. \A i, j \in 1..Len(opened) : f[i] = f[j] => i = j
    BY <1>1 DEF TreeInv, EachOnce, NodesDiffer
  <2> HIDE DEF f
  <2> QED BY <2>2, <2>3 DEF Injection, IsInjective
<1> HIDE DEF f
<1>3. Cardinality(1..Len(opened)) <= Cardinality(Directories)
  BY <1>2, FilesAssumption, FS_Injection
<1> QED BY <1>1, <1>3, FilesAssumption, FS_Interval, FS_CardinalityType

LEMMA DoneReturned ==
  ASSUME WalkTypeInv, Done
  PROVE  /\ \A c, e : Returned(c, e) <=> c \in Elements(opened) /\ e \in entries /\ e.dir = c.node
         /\ Listed = Elements(opened)
<1>1. unread = {} /\ Elements(directory_worklist) = {}
  BY DEF Done, WalkTypeInv, IsLastOpened, Elements
<1> QED BY <1>1 DEF Returned, Listed

LEMMA DoneOpened ==
  ASSUME WalkTypeInv, TreeInv, Done
  PROVE  \A n \in Nat : \A d \in Within(n) : d \in Elements(opened) \/ d.node \in Unreadable
<1> DEFINE S == {n \in Nat : \A d \in Within(n) : d \in Elements(opened) \/ d.node \in Unreadable}
<1>1. 0 \in S
  BY WithinZero, DoneReturned DEF TreeInv, RootIsListed, RootDir
<1>2. ASSUME NEW n \in Nat, n \in S PROVE n + 1 \in S
  <2> SUFFICES ASSUME NEW d \in Further(Within(n)) PROVE d \in Elements(opened) \/ d.node \in Unreadable
    BY WithinNext
  <2>1. CASE d \in Within(n)
    BY <1>2, <2>1
  <2>2. CASE d \notin Within(n)
    <3>1. PICK x \in {x \in Within(n) \X entries : WantedDir(x[1], x[2])} : d = Enter(x[1], x[2])
      BY <2>2 DEF Further
    <3>2. x[1] \in Within(n) /\ x[2] \in entries /\ x[1].node \notin Unreadable /\ x[2].dir = x[1].node /\ d.node = x[2].node
      BY <3>1 DEF WantedDir, Wanted, Enter
    <3>3. x[1] \in Elements(opened)
      BY <1>2, <3>2
    <3>4. Returned(x[1], x[2])
      BY <3>2, <3>3, DoneReturned
    <3> QED BY <3>1, <3>2, <3>4, DoneReturned DEF TreeInv, WantedAreKept
  <2> QED BY <2>1, <2>2
<1>3. Nat \subseteq S
  <2> HIDE DEF S
  <2> QED BY <1>1, <1>2, AllNaturals
<1> QED BY <1>3

LEMMA OneTreeIsExact == WalkTypeInv /\ OneTree => SearchIsExact
<1> SUFFICES ASSUME WalkTypeInv, OneTree, Done, OneNameEach
             PROVE  Found = AsSearched /\ Cardinality(Found) = Len(result_paths)
  BY DEF SearchIsExact
<1> DEFINE n == Cardinality(Directories)
<1>1. TreeInv /\ n \in Nat /\ Len(opened) <= n
  BY OpenedIsBounded DEF OneTree
<1>2. Found = Elements(result_paths)
  BY DEF Found, Elements
<1> HIDE DEF n
<1>3. ASSUME NEW path \in Found PROVE path \in AsSearched
  <2>1. PICK c, e : Returned(c, e) /\ WantedFile(c, e) /\ path = Below(c.path, e.name)
    BY <1>1, <1>2, <1>3 DEF TreeInv, ResultsAreWanted
  <2>2. PICK i \in DOMAIN opened : c = opened[i]
    BY <2>1 DEF Returned, Elements
  <2>3. i \in Nat /\ i >= 1 /\ i <= Len(opened) /\ Len(opened) \in Nat
    BY DEF WalkTypeInv
  <2>4. c \in Within(i - 1)
    BY <1>1, <2>2 DEF TreeInv, IsNear
  <2>5. i - 1 \in Nat /\ i - 1 <= n
    BY <1>1, <2>3
  <2>6. c \in Within(n) /\ e \in entries
    BY <1>1, <2>1, <2>4, <2>5, WithinGrows DEF Returned
  <2>7. <<c, e>> \in {x \in Within(n) \X entries : WantedFile(x[1], x[2])}
    BY <2>1, <2>6
  <2> QED BY <2>1, <2>7 DEF AsSearched, n
<1>4. ASSUME NEW path \in AsSearched PROVE path \in Found
  <2>1. PICK x \in {x \in Within(n) \X entries : WantedFile(x[1], x[2])} : path = Below(x[1].path, x[2].name)
    BY <1>4 DEF AsSearched, n
  <2>2. x[1] \in Within(n) /\ x[2] \in entries /\ WantedFile(x[1], x[2]) /\ x[1].node \notin Unreadable /\ x[2].dir = x[1].node
    BY <2>1 DEF WantedFile, Wanted
  <2>3. x[1] \in Elements(opened)
    BY <1>1, <2>2, DoneOpened
  <2>4. Returned(x[1], x[2])
    BY <2>2, <2>3, DoneReturned
  <2> QED BY <1>1, <1>2, <2>1, <2>2, <2>4 DEF TreeInv, WantedAreKept
<1>5. Cardinality(Found) = Len(result_paths)
  <2>1. result_paths \in Seq(Seq(Characters)) /\ Len(result_paths) \in Nat /\ DOMAIN result_paths = 1..Len(result_paths)
    BY DEF WalkTypeInv
  <2> DEFINE f == [i \in 1..Len(result_paths) |-> result_paths[i]]
  <2>2. f \in [1..Len(result_paths) -> Found] /\ \A p \in Found : \E i \in 1..Len(result_paths) : f[i] = p
    BY <2>1 DEF Found
  <2>3. \A i, j \in 1..Len(result_paths) : f[i] = f[j] => i = j
    BY <1>1, <2>1 DEF TreeInv, ResultsDiffer
  <2> HIDE DEF f
  <2>4. f \in Bijection(1..Len(result_paths), Found)
    BY <2>2, <2>3 DEF Bijection, Injection, IsInjective, Surjection
  <2>5. IsFiniteSet(1..Len(result_paths)) /\ Cardinality(1..Len(result_paths)) = Len(result_paths)
    <3> DEFINE l == Len(result_paths)
    <3>1. l \in Int /\ l >= 0 /\ 1 \in Int
      BY <2>1
    <3> HIDE DEF l
    <3>2. IsFiniteSet(1..l) /\ Cardinality(1..l) = IF 1 > l THEN 0 ELSE l - 1 + 1
      BY <3>1, FS_Interval
    <3>3. Cardinality(1..l) = l
      BY <3>1, <3>2
    <3> QED BY <3>2, <3>3 DEF l
  <2> QED BY <2>4, <2>5, FS_Bijection DEF ExistsBijection
<1> QED BY <1>3, <1>4, <1>5

(* The walk reads no directory again and, where none has a second name,    *)
(* returns exactly the wanted files that wanted directories lead to, each  *)
(* once, whatever the order of readdir() (CollectFilesRecursive).          *)
THEOREM WalkExact == WalkSpec => []WalkIsExact
<1>1. WalkInit => OneTree
  BY InitTree DEF OneTree
<1>2. WalkTypeInv /\ OneTree /\ DirectoriesAreReadOnce => WalkIsExact
  BY OneTreeIsExact DEF WalkIsExact
<1> QED BY <1>1, <1>2, ReadOnce, NextOneTree, PTL DEF WalkSpec

-----------------------------------------------------------------------------
(* The prewarm cache.                                                      *)
LEMMA BeginningIsLines ==
  ASSUME NEW s \in Seq(Line), NEW k \in 1..Len(s)
  PROVE  SubSeq(s, 1, k - 1) \in Seq(Line)
<1>1. Len(s) \in Nat
  OBVIOUS
<1>2. k \in Nat /\ k <= Len(s)
  BY <1>1
<1>3. ASSUME NEW i \in 1..(k - 1) PROVE s[i] \in Line
  BY <1>1, <1>2
<1> QED BY <1>1, <1>2, <1>3, SubSeqProperties

(* What a torn file holds is a sequence of lines like the log's.           *)
LEMMA CutOffIsLines ==
  ASSUME NEW s \in Seq(Line), NEW f \in CutOff(s)
  PROVE  f \in Seq(Line)
<1>1. CASE \E k \in 0..Len(s) : f = SubSeq(s, 1, k)
  BY <1>1
<1>2. ASSUME NEW k \in DOMAIN s, NEW t \in {"", "F", "D"},
             f = Append(SubSeq(s, 1, k - 1), [type |-> t, path |-> Torn])
      PROVE  f \in Seq(Line)
  <2>1. [type |-> t, path |-> Torn] \in Line
    BY DEF Line, Type
  <2>2. SubSeq(s, 1, k - 1) \in Seq(Line)
    BY LenProperties, BeginningIsLines
  <2> QED BY <1>2, <2>1, <2>2, AppendProperties
<1>3. \/ \E k \in 0..Len(s) : f = SubSeq(s, 1, k)
      \/ \E k \in DOMAIN s : \E t \in {"", "F", "D"} :
           f = Append(SubSeq(s, 1, k - 1), [type |-> t, path |-> Torn])
  BY DEF CutOff
<1> QED BY <1>1, <1>2, <1>3

(* The file has not been looked at as long as the process only starts.     *)
Typed == TypeOK /\ (main = "start" => next_line = 1)

(* Every step keeps the types of the pool and of the main thread.          *)
LEMMA TypeInductive ==
  ASSUME Typed, [Next]_vars
  PROVE  Typed'
<1> USE DEF Typed, TypeOK, PoolTypeOK, Dead
<1>1. CASE Disabled
  BY <1>1 DEF Disabled, poolVars
<1>2. CASE OpenCacheFile
  <2>1. lines' \in Seq(Line) /\ next_line' = 1
    BY <1>2 DEF OpenCacheFile
  <2>2. next_line' \in 1..(Len(lines') + 1)
    BY <2>1
  <2> QED BY <1>2, <2>1, <2>2 DEF OpenCacheFile, CreatePool, poolVars
<1>3. CASE ReadLine
  <2>1. next_line \in Item /\ next_line' \in 1..(Len(lines) + 1)
    BY <1>3 DEF ReadLine, Item
  <2>2. work_queue' \in Seq(Item)
    <3>1. Append(work_queue, next_line) \in Seq(Item)
      BY <2>1, AppendProperties
    <3> QED BY <1>3, <3>1 DEF ReadLine, Push, poolVars
  <2> QED BY <1>3, <2>1, <2>2 DEF ReadLine, Push, poolVars
<1>4. CASE PushCancel
  BY <1>4 DEF PushCancel, Push, Item
<1>5. CASE NotifyPushed
  BY <1>5 DEF NotifyPushed, NotifyOne, Waiting
<1>6. CASE OpenWriter
  <2>1. cache_file' \in Seq(Line) \cup {NoFile}
    BY <1>6, EmptySeq DEF OpenWriter
  <2> QED BY <1>6, <2>1 DEF OpenWriter, poolVars
<1>7. CASE DestroyPool
  BY <1>7 DEF DestroyPool, DestroySetExiting, DestroyNotifyAll, DestroyFree, Awake
<1>8. CASE CloseWriter
  BY <1>8 DEF CloseWriter, poolVars
<1>9. ASSUME NEW t \in Type, NEW p \in Path, Access(t, p) PROVE Typed'
  <2>1. Logged(t, p) \in Line
    BY DEF Logged, Line
  <2>2. accesses' \in 0..MaxAccesses
    BY <1>9, BoundsAssumption DEF Access
  <2>3. log' \in Seq(Line) /\ already_seen' \in SUBSET Path
    <3>1. Append(log, Logged(t, p)) \in Seq(Line)
      BY <2>1, AppendProperties
    <3> QED BY <1>9, <3>1 DEF Access
  <2> QED BY <1>9, <2>2, <2>3 DEF Access, poolVars
<1>10. CASE Leave
  BY <1>10 DEF Leave, poolVars
<1>11. ASSUME NEW r \in Runner, RunnerStep(r) PROVE Typed'
  <2>1. CASE Wait(r) BY <1>11, <2>1 DEF RunnerStep, Wait, mainVars
  <2>2. CASE Exit(r) BY <1>11, <2>2 DEF RunnerStep, Exit, mainVars
  <2>3. CASE Take(r)
    <3>1. work_queue # <<>>
      BY <2>3 DEF Take, MayWait
    <3>2. Head(work_queue) \in Item /\ Tail(work_queue) \in Seq(Item)
      BY <3>1
    <3> QED BY <1>11, <2>3, <3>2 DEF RunnerStep, Take, TakeFront, mainVars
  <2>4. CASE RunItem(r)
    BY <1>11, <2>4 DEF RunnerStep, RunItem, SetExiting, Finish, mainVars
  <2>5. CASE NotifyAll(r)
    BY <1>11, <2>5 DEF RunnerStep, NotifyAll, Awake, mainVars
  <2> QED BY <1>11, <2>1, <2>2, <2>3, <2>4, <2>5 DEF RunnerStep
<1>12. ASSUME NEW r \in Runner, Wakeup(r) PROVE Typed'
  BY <1>12 DEF Wakeup, SpuriousWakeup, mainVars
<1>13. ASSUME NEW how \in {"killed", "crashed"}, Die(how) PROVE Typed'
  <2>1. cache_file' \in Seq(Line) \cup {NoFile}
    BY <1>13, CutOffIsLines DEF Die
  <2>2. work_queue' \in Seq(Item) /\ taken' \in Seq(Item)
    BY <1>13 DEF Die
  <2> QED BY <1>13, <2>1, <2>2 DEF Die
<1>14. CASE Restart
  <2>1. run' \in 1..MaxRuns /\ accesses' \in 0..MaxAccesses
    BY <1>14, BoundsAssumption DEF Restart
  <2>2. lines' = <<>> /\ next_line' = 1 /\ log' = <<>> /\ work_queue' = <<>> /\ taken' = <<>>
    BY <1>14 DEF Restart
  <2>3. next_line' \in 1..(Len(lines') + 1)
    BY <2>2
  <2>4. lines' \in Seq(Line) /\ log' \in Seq(Line) /\ work_queue' \in Seq(Item) /\ taken' \in Seq(Item)
    BY <2>2
  <2> QED BY <1>14, <2>1, <2>2, <2>3, <2>4 DEF Restart
<1>15. CASE UNCHANGED vars
  BY <1>15 DEF vars, mainVars, poolVars
<1> QED
  BY <1>1, <1>2, <1>3, <1>4, <1>5, <1>6, <1>7, <1>8, <1>9, <1>10, <1>11, <1>12, <1>13, <1>14, <1>15
  DEF Next, MainStep, Kill, NullPointer, Finished

LEMMA TypeInit == Init => Typed
<1> SUFFICES ASSUME Init PROVE Typed
  OBVIOUS
<1>1. run \in 1..MaxRuns /\ accesses \in 0..MaxAccesses
  BY BoundsAssumption DEF Init
<1>2. next_line \in 1..(Len(lines) + 1)
  BY DEF Init
<1>3. lines \in Seq(Line) /\ log \in Seq(Line) /\ work_queue \in Seq(Item) /\ taken \in Seq(Item)
  BY DEF Init, NoPool
<1> QED BY <1>1, <1>2, <1>3 DEF Init, NoPool, Typed, TypeOK, PoolTypeOK

(* Every variable has its type.                                            *)
THEOREM PrewarmCacheTyped == Spec => []TypeOK
<1>1. Typed => TypeOK
  BY DEF Typed
<1> QED BY <1>1, TypeInit, TypeInductive, PTL DEF Spec

-----------------------------------------------------------------------------
(* Once the pool is freed no thread leaves "exited": nobody wakes one that *)
(* is not waiting.                                                         *)
LEMMA FreeInductive ==
  ASSUME Typed, NoUseAfterFree, [Next]_vars
  PROVE  NoUseAfterFree'
<1> USE DEF Typed, TypeOK, PoolTypeOK, NoUseAfterFree
<1>1. CASE Disabled \/ OpenWriter \/ CloseWriter \/ Leave
  BY <1>1 DEF Disabled, OpenWriter, CloseWriter, Leave, poolVars
<1>2. CASE OpenCacheFile
  BY <1>2 DEF OpenCacheFile, CreatePool, poolVars
<1>3. CASE ReadLine \/ PushCancel
  BY <1>3 DEF ReadLine, PushCancel, Push, poolVars
<1>4. CASE NotifyPushed
  BY <1>4 DEF NotifyPushed, NotifyOne, Waiting
<1>5. CASE DestroyPool
  BY <1>5 DEF DestroyPool, DestroySetExiting, DestroyNotifyAll, DestroyFree, Awake,
              WokenByCancel, Waiting, Joined
<1>6. ASSUME NEW t \in Type, NEW p \in Path, Access(t, p) PROVE NoUseAfterFree'
  BY <1>6 DEF Access, poolVars
<1>7. ASSUME NEW r \in Runner, RunnerStep(r) PROVE NoUseAfterFree'
  <2>1. CASE Wait(r) \/ Exit(r) \/ Take(r)
    BY <1>7, <2>1 DEF RunnerStep, Wait, Exit, Take, mainVars
  <2>2. CASE RunItem(r)
    BY <1>7, <2>2 DEF RunnerStep, RunItem, SetExiting, Finish, mainVars
  <2>3. CASE NotifyAll(r)
    BY <1>7, <2>3 DEF RunnerStep, NotifyAll, Awake, WokenByCancel, Waiting, mainVars
  <2> QED BY <1>7, <2>1, <2>2, <2>3 DEF RunnerStep
<1>8. ASSUME NEW r \in Runner, Wakeup(r) PROVE NoUseAfterFree'
  BY <1>8 DEF Wakeup, SpuriousWakeup, mainVars
<1>9. ASSUME NEW how, Die(how) PROVE NoUseAfterFree'
  BY <1>9 DEF Die
<1>10. CASE Restart
  BY <1>10 DEF Restart
<1>11. CASE UNCHANGED vars
  BY <1>11 DEF vars, poolVars
<1> QED
  BY <1>1, <1>2, <1>3, <1>4, <1>5, <1>6, <1>7, <1>8, <1>9, <1>10, <1>11
  DEF Next, MainStep, Kill, NullPointer, Finished

(* The pool is only freed when every thread has left its loop, and none of *)
(* them comes back: ~ThreadPool() leaves no thread with a dead lock_.      *)
THEOREM PoolOutlivesItsThreads == Spec => []NoUseAfterFree
<1>1. Init => NoUseAfterFree
  BY DEF Init, NoPool, NoUseAfterFree
<1> QED BY <1>1, TypeInit, TypeInductive, FreeInductive, PTL DEF Spec

-----------------------------------------------------------------------------
(* The item that cancels the pool is pushed once, behind all others: when  *)
(* it was taken, the queue is empty and stays so.                          *)
Reading == main \in {"start", "read", "notify"}
CancelIsLast ==
  /\ \A i \in DOMAIN work_queue : work_queue[i] = Cancel => i = Len(work_queue) /\ ~Reading
  /\ \A r \in Runner : item[r] = Cancel => work_queue = <<>> /\ ~Reading
  /\ ShutdownIsLast

LEMMA CancelInductive ==
  ASSUME Typed, CancelIsLast, [Next]_vars
  PROVE  CancelIsLast'
<1> USE DEF Typed, TypeOK, PoolTypeOK, CancelIsLast, ShutdownIsLast, Reading, Dead
<1>1. CASE Disabled \/ OpenWriter \/ CloseWriter \/ Leave
  BY <1>1 DEF Disabled, OpenWriter, CloseWriter, Leave, poolVars
<1>2. CASE OpenCacheFile
  BY <1>2 DEF OpenCacheFile, CreatePool, poolVars
<1>3. CASE ReadLine
  <2>1. CASE Useful(lines[next_line])
    <3>1. next_line \in Nat /\ next_line \in Item /\ next_line # Cancel
      BY <1>3, CancelAssumption DEF ReadLine, Item
    <3>2. work_queue' = Append(work_queue, next_line)
      BY <1>3, <2>1 DEF ReadLine, Push
    <3>3. \A i \in DOMAIN work_queue' : work_queue'[i] # Cancel
      <4>1. ASSUME NEW i \in DOMAIN work_queue' PROVE work_queue'[i] # Cancel
        <5>1. i \in 1..(Len(work_queue) + 1) /\ Len(work_queue) \in Nat
          BY <3>1, <3>2
        <5>2. i = Len(work_queue) + 1 => work_queue'[i] = next_line
          BY <3>1, <3>2
        <5>3. i # Len(work_queue) + 1 => i \in DOMAIN work_queue /\ work_queue'[i] = work_queue[i]
          BY <3>1, <3>2, <5>1
        <5> QED BY <1>3, <3>1, <5>2, <5>3 DEF ReadLine
      <4> QED BY <4>1
    <3> QED BY <1>3, <2>1, <3>3 DEF ReadLine, Push
  <2>2. CASE ~Useful(lines[next_line])
    BY <1>3, <2>2 DEF ReadLine, poolVars
  <2> QED BY <2>1, <2>2
<1>4. CASE PushCancel
  <2>1. Cancel \in Item
    BY DEF Item
  <2>2. work_queue' = Append(work_queue, Cancel)
    BY <1>4 DEF PushCancel, Push
  <2>3. \A i \in DOMAIN work_queue' : work_queue'[i] = Cancel => i = Len(work_queue')
    <3>1. ASSUME NEW i \in DOMAIN work_queue', i # Len(work_queue') PROVE work_queue'[i] # Cancel
      <4>1. i \in DOMAIN work_queue /\ work_queue'[i] = work_queue[i]
        BY <2>1, <2>2, <3>1
      <4> QED BY <1>4, <4>1 DEF PushCancel
    <3> QED BY <3>1
  <2> QED BY <1>4, <2>3 DEF PushCancel, Push
<1>5. CASE NotifyPushed
  BY <1>5 DEF NotifyPushed, NotifyOne
<1>6. CASE DestroyPool
  BY <1>6 DEF DestroyPool, DestroySetExiting, DestroyNotifyAll, DestroyFree
<1>7. ASSUME NEW t \in Type, NEW p \in Path, Access(t, p) PROVE CancelIsLast'
  BY <1>7 DEF Access, poolVars
<1>8. ASSUME NEW r \in Runner, RunnerStep(r) PROVE CancelIsLast'
  <2>1. CASE Wait(r) \/ Exit(r)
    BY <1>8, <2>1 DEF RunnerStep, Wait, Exit, mainVars
  <2>2. CASE Take(r)
    <3>1. work_queue # <<>> /\ ~exiting
      BY <2>2 DEF Take, MayWait
    <3>2. /\ item' = [item EXCEPT ![r] = Head(work_queue)]
          /\ work_queue' = Tail(work_queue)
          /\ UNCHANGED <<exiting, main>>
      BY <1>8, <2>2 DEF RunnerStep, Take, TakeFront, mainVars
    <3>3. /\ Len(work_queue') = Len(work_queue) - 1
          /\ Len(work_queue) \in Nat
          /\ \A i \in DOMAIN work_queue' : i + 1 \in DOMAIN work_queue /\ work_queue'[i] = work_queue[i + 1]
      BY <3>1, <3>2
    <3>4. \A i \in DOMAIN work_queue' : work_queue'[i] = Cancel => i = Len(work_queue') /\ ~Reading'
      BY <3>2, <3>3
    <3>5. Head(work_queue) = Cancel => work_queue' = <<>> /\ ~Reading
      <4>1. Head(work_queue) = work_queue[1] /\ 1 \in DOMAIN work_queue
        BY <3>1
      <4>2. Len(work_queue) = 1 => work_queue' = <<>>
        BY <3>2, <3>3
      <4> QED BY <4>1, <4>2
    <3>6. \A q \in Runner \ {r} : item'[q] = Cancel => work_queue = <<>>
      BY <3>2
    <3>7. \A q \in Runner : item'[q] = Cancel => work_queue' = <<>> /\ ~Reading'
      BY <3>1, <3>2, <3>5, <3>6
    <3> QED BY <3>1, <3>2, <3>4, <3>7
  <2>3. CASE RunItem(r)
    <3>1. CASE item[r] = Cancel
      BY <1>8, <2>3, <3>1 DEF RunnerStep, RunItem, SetExiting, mainVars
    <3>2. CASE item[r] # Cancel
      BY <1>8, <2>3, <3>2, CancelAssumption DEF RunnerStep, RunItem, Finish, mainVars
    <3> QED BY <3>1, <3>2
  <2>4. CASE NotifyAll(r)
    BY <1>8, <2>4, CancelAssumption DEF RunnerStep, NotifyAll, mainVars
  <2> QED BY <1>8, <2>1, <2>2, <2>3, <2>4 DEF RunnerStep
<1>9. ASSUME NEW r \in Runner, Wakeup(r) PROVE CancelIsLast'
  BY <1>9 DEF Wakeup, SpuriousWakeup, mainVars
<1>10. ASSUME NEW how, Die(how) PROVE CancelIsLast'
  BY <1>10, CancelAssumption DEF Die
<1>11. CASE Restart
  BY <1>11, CancelAssumption DEF Restart
<1>12. CASE UNCHANGED vars
  BY <1>12 DEF vars, mainVars, poolVars
<1> QED
  BY <1>1, <1>2, <1>3, <1>4, <1>5, <1>6, <1>7, <1>8, <1>9, <1>10, <1>11, <1>12
  DEF Next, MainStep, Kill, NullPointer, Finished

(* A pool that cancels itself has taken everything before: only a program  *)
(* that ends early drops what is left of the replay.                       *)
THEOREM ShutdownDropsNothing == Spec => []ShutdownIsLast
<1>1. Init => CancelIsLast
  BY CancelAssumption DEF Init, NoPool, CancelIsLast, ShutdownIsLast
<1>2. CancelIsLast => ShutdownIsLast
  BY DEF CancelIsLast
<1> QED BY <1>1, <1>2, TypeInit, TypeInductive, CancelInductive, PTL DEF Spec

-----------------------------------------------------------------------------
(* What was logged is remembered, so no path comes twice; a part of it,    *)
(* with a line cut off behind, is no worse.                                *)
Distinct(s) == \A i, j \in DOMAIN s : i # j => s[i].path # s[j].path
LogRemembered ==
  /\ Distinct(log)
  /\ \A i \in DOMAIN log : log[i].path \in already_seen
  /\ NoPathLoggedTwice

LEMMA Shorter == \A n \in Nat : \A k \in 1..n : k - 1 \in 0..n
  OBVIOUS

LEMMA BeginningIsDistinct ==
  ASSUME NEW s \in Seq(Line), Distinct(s), NEW k \in 0..Len(s)
  PROVE  /\ SubSeq(s, 1, k) \in Seq(Line)
         /\ Distinct(SubSeq(s, 1, k))
         /\ \A i \in DOMAIN SubSeq(s, 1, k) : i \in DOMAIN s /\ SubSeq(s, 1, k)[i] = s[i]
<1> DEFINE b == SubSeq(s, 1, k)
<1>1. Len(s) \in Nat /\ DOMAIN s = 1..Len(s)
  OBVIOUS
<1>2. k \in Nat /\ k <= Len(s)
  BY <1>1
<1>3. \A i \in 1..k : s[i] \in Line
  BY <1>1, <1>2
<1>4. Len(b) = k /\ b \in Seq(Line) /\ \A i \in 1..k : b[i] = s[i]
  BY <1>2, <1>3, SubSeqProperties
<1>5. DOMAIN b = 1..k
  BY <1>4
<1>6. \A i \in DOMAIN b : i \in DOMAIN s /\ b[i] = s[i]
  BY <1>1, <1>2, <1>4, <1>5
<1> HIDE DEF b
<1>7. Distinct(b)
  BY <1>6 DEF Distinct
<1> QED BY <1>4, <1>6, <1>7 DEF b

LEMMA AppendIsDistinct ==
  ASSUME NEW s \in Seq(Line), Distinct(s), NEW last \in Line,
         \A i \in DOMAIN s : s[i].path # last.path
  PROVE  Distinct(Append(s, last))
<1> DEFINE a == Append(s, last)
<1>1. /\ DOMAIN s = 1..Len(s) /\ Len(s) \in Nat
      /\ DOMAIN a = 1..(Len(s) + 1)
      /\ a[Len(s) + 1] = last
      /\ \A i \in DOMAIN s : a[i] = s[i]
  BY AppendProperties
<1> HIDE DEF a
<1>2. \A i \in DOMAIN a : i = Len(s) + 1 \/ i \in DOMAIN s
  BY <1>1
<1>3. ASSUME NEW i \in DOMAIN a, NEW j \in DOMAIN a, i # j PROVE a[i].path # a[j].path
  <2>1. CASE i \in DOMAIN s /\ j \in DOMAIN s
    BY <1>1, <1>3, <2>1 DEF Distinct
  <2>2. CASE i \notin DOMAIN s /\ j \in DOMAIN s
    BY <1>1, <1>2, <2>2
  <2>3. CASE i \in DOMAIN s /\ j \notin DOMAIN s
    BY <1>1, <1>2, <2>3
  <2>4. CASE i \notin DOMAIN s /\ j \notin DOMAIN s
    BY <1>2, <1>3, <2>4
  <2> QED BY <2>1, <2>2, <2>3, <2>4
<1>4. Distinct(a)
  BY <1>3 DEF Distinct
<1> QED BY <1>4 DEF a

LEMMA CutOffIsDistinct ==
  ASSUME NEW s \in Seq(Line), Distinct(s), \A i \in DOMAIN s : s[i].path # Torn, NEW f \in CutOff(s)
  PROVE  Distinct(f)
<1>1. ASSUME NEW k \in 0..Len(s), f = SubSeq(s, 1, k) PROVE Distinct(f)
  BY <1>1, BeginningIsDistinct
<1>2. ASSUME NEW k \in DOMAIN s, NEW t \in {"", "F", "D"},
             f = Append(SubSeq(s, 1, k - 1), [type |-> t, path |-> Torn])
      PROVE  Distinct(f)
  <2> DEFINE last == [type |-> t, path |-> Torn]
  <2>1. last \in Line /\ last.path = Torn
    BY DEF Line, Type
  <2>2. k - 1 \in 0..Len(s)
    BY LenProperties, Shorter
  <2> HIDE DEF last
  <2>3. \A i \in DOMAIN SubSeq(s, 1, k - 1) : SubSeq(s, 1, k - 1)[i].path # last.path
    BY <2>1, <2>2, BeginningIsDistinct
  <2>4. Distinct(Append(SubSeq(s, 1, k - 1), last))
    BY <2>1, <2>2, <2>3, BeginningIsDistinct, AppendIsDistinct
  <2> QED BY <1>2, <2>4 DEF last
<1>3. \/ \E k \in 0..Len(s) : f = SubSeq(s, 1, k)
      \/ \E k \in DOMAIN s : \E t \in {"", "F", "D"} :
           f = Append(SubSeq(s, 1, k - 1), [type |-> t, path |-> Torn])
  BY DEF CutOff
<1> QED BY <1>1, <1>2, <1>3

LEMMA LogInductive ==
  ASSUME Typed, LogRemembered, [Next]_vars
  PROVE  LogRemembered'
<1> USE DEF Typed, TypeOK, PoolTypeOK, LogRemembered
<1>1. ASSUME UNCHANGED <<cache_file, log, already_seen>> PROVE LogRemembered'
  BY <1>1 DEF NoPathLoggedTwice, Distinct
<1>2. CASE OpenWriter
  <2>1. cache_file' = cache_file \/ cache_file' = <<>>
    BY <1>2 DEF OpenWriter
  <2> QED BY <1>2, <2>1 DEF OpenWriter, NoPathLoggedTwice, Distinct
<1>3. CASE CloseWriter
  <2>1. cache_file' = cache_file \/ cache_file' = log
    BY <1>3 DEF CloseWriter
  <2> QED BY <1>3, <2>1 DEF CloseWriter, NoPathLoggedTwice, Distinct
<1>4. ASSUME NEW t \in Type, NEW p \in Path, Access(t, p) PROVE LogRemembered'
  <2>1. CASE UNCHANGED <<log, already_seen>>
    BY <1>1, <1>4, <2>1 DEF Access
  <2>2. CASE p \notin already_seen /\ log' = Append(log, Logged(t, p)) /\ already_seen' = already_seen \cup {p}
    <3>1. Logged(t, p) \in Line /\ Logged(t, p).path = p
      BY DEF Logged, Line
    <3>2. \A i \in DOMAIN log : log[i].path # Logged(t, p).path
      BY <2>2, <3>1
    <3>3. Distinct(log')
      BY <2>2, <3>1, <3>2, AppendIsDistinct
    <3>4. \A i \in DOMAIN log' : log'[i].path \in already_seen'
      <4>1. /\ DOMAIN log' = 1..(Len(log) + 1)
            /\ DOMAIN log = 1..Len(log)
            /\ Len(log) \in Nat
            /\ log'[Len(log) + 1] = Logged(t, p)
            /\ \A i \in DOMAIN log : log'[i] = log[i]
        BY <2>2, <3>1, AppendProperties
      <4>2. \A i \in DOMAIN log' : i = Len(log) + 1 \/ i \in DOMAIN log
        BY <4>1
      <4> QED BY <2>2, <3>1, <4>1, <4>2
    <3>5. cache_file' = cache_file
      BY <1>4 DEF Access
    <3> QED BY <3>3, <3>4, <3>5 DEF NoPathLoggedTwice, Distinct
  <2> QED BY <1>4, <2>1, <2>2 DEF Access, SeenBefore
<1>5. ASSUME NEW how, Die(how) PROVE LogRemembered'
  <2>1. UNCHANGED <<log, already_seen>>
    BY <1>5 DEF Die
  <2>2. CASE cache_file' = cache_file
    BY <1>1, <2>1, <2>2
  <2>3. CASE cache_file' \in CutOff(log)
    <3>1. \A i \in DOMAIN log : log[i].path # Torn
      BY TornAssumption
    <3>2. Distinct(cache_file')
      BY <2>3, <3>1, CutOffIsDistinct
    <3> QED BY <2>1, <3>2 DEF NoPathLoggedTwice, Distinct
  <2> QED BY <1>5, <2>2, <2>3 DEF Die
<1>6. CASE Restart
  BY <1>6 DEF Restart, NoPathLoggedTwice, Distinct
<1>7. CASE Disabled \/ OpenCacheFile \/ ReadLine \/ PushCancel \/ NotifyPushed \/ Leave \/ DestroyPool
  BY <1>1, <1>7 DEF Disabled, OpenCacheFile, ReadLine, PushCancel, NotifyPushed, Leave, DestroyPool
<1>8. CASE \E r \in Runner : RunnerStep(r) \/ Wakeup(r)
  BY <1>1, <1>8 DEF RunnerStep, Wakeup, mainVars
<1>9. CASE UNCHANGED vars
  BY <1>1, <1>9 DEF vars, mainVars
<1> QED
  BY <1>2, <1>3, <1>4, <1>5, <1>6, <1>7, <1>8, <1>9 DEF Next, MainStep, Kill, NullPointer, Finished

(* However a process ends, and however many have run, a path is in the     *)
(* cache file once: a replay never asks for a path twice.                  *)
THEOREM CacheFileHasNoRepetition == Spec => []NoPathLoggedTwice
<1>1. Init => LogRemembered
  BY DEF Init, LogRemembered, Distinct, NoPathLoggedTwice
<1>2. LogRemembered => NoPathLoggedTwice
  BY DEF LogRemembered
<1> QED BY <1>1, <1>2, TypeInit, TypeInductive, LogInductive, PTL DEF Spec

-----------------------------------------------------------------------------
(* Taking an item moves the border between what was taken and what is      *)
(* queued; pushing one extends both together.                              *)
InOrder(items) == \A i, j \in DOMAIN items : i < j => Before(items[i], items[j])
ElementsOf(items) == {items[i] : i \in DOMAIN items}

LEMMA PushedBehind ==
  ASSUME NEW q \in Seq(Item), NEW t \in Seq(Item), NEW x \in Item
  PROVE  t \o Append(q, x) = Append(t \o q, x)
<1>1. <<x>> \in Seq(Item) /\ t \o q \in Seq(Item)
  BY ConcatProperties
<1>2. Append(q, x) = q \o <<x>> /\ Append(t \o q, x) = (t \o q) \o <<x>>
  BY <1>1, AppendIsConcat
<1> QED BY <1>1, <1>2, ConcatAssociative

LEMMA TakenFromFront ==
  ASSUME NEW q \in Seq(Item), NEW t \in Seq(Item), q # <<>>
  PROVE  Append(t, Head(q)) \o Tail(q) = t \o q
<1>1. Head(q) \in Item /\ Tail(q) \in Seq(Item)
  BY HeadTailProperties
<1>2. <<Head(q)>> \in Seq(Item) /\ <<Head(q)>> \o Tail(q) = q
  BY <1>1
<1>3. Append(t, Head(q)) = t \o <<Head(q)>>
  BY <1>1, AppendIsConcat
<1> QED BY <1>1, <1>2, <1>3, ConcatAssociative

LEMMA AppendKeepsOrder ==
  ASSUME NEW s \in Seq(Item), NEW x \in Item, InOrder(s), \A e \in ElementsOf(s) : Before(e, x)
  PROVE  InOrder(Append(s, x)) /\ ElementsOf(Append(s, x)) = ElementsOf(s) \cup {x}
<1> DEFINE a == Append(s, x)
<1>1. /\ DOMAIN s = 1..Len(s) /\ Len(s) \in Nat
      /\ DOMAIN a = 1..(Len(s) + 1)
      /\ a[Len(s) + 1] = x
      /\ \A i \in DOMAIN s : a[i] = s[i]
  BY AppendProperties
<1> HIDE DEF a
<1>2. \A i \in DOMAIN a : i = Len(s) + 1 \/ i \in DOMAIN s
  BY <1>1
<1>3. Len(s) + 1 \in DOMAIN a /\ \A i \in DOMAIN s : i \in DOMAIN a
  BY <1>1
<1>4. ElementsOf(a) = ElementsOf(s) \cup {x}
  BY <1>1, <1>2, <1>3 DEF ElementsOf
<1>5. ASSUME NEW i \in DOMAIN a, NEW j \in DOMAIN a, i < j PROVE Before(a[i], a[j])
  <2>1. i \in DOMAIN s
    BY <1>1, <1>5
  <2>2. CASE j \in DOMAIN s
    BY <1>1, <1>5, <2>1, <2>2 DEF InOrder
  <2>3. CASE j = Len(s) + 1
    BY <1>1, <2>1, <2>3 DEF ElementsOf
  <2> QED BY <1>2, <2>2, <2>3
<1>6. InOrder(a)
  BY <1>5 DEF InOrder
<1> QED BY <1>4, <1>6 DEF a

Items == taken \o work_queue
Replay ==
  /\ pool # "none" => InOrder(Items) /\ ElementsOf(Items) = Pushed
  /\ main = "start" => pool = "none" /\ taken = <<>> /\ work_queue = <<>>
  /\ main \in {"cancel", "notify_exit", "join"} => pool # "none"

LEMMA ReplayInductive ==
  ASSUME Typed, Replay, [Next]_vars
  PROVE  Replay'
<1> USE DEF Typed, TypeOK, PoolTypeOK
<1>1. ASSUME UNCHANGED <<pool, Items, Pushed>>, main' # "start",
             main' \in {"cancel", "notify_exit", "join"} => pool # "none"
      PROVE  Replay'
  BY <1>1 DEF Replay, InOrder, ElementsOf
<1>0. ASSUME UNCHANGED <<pool, taken, work_queue, lines, next_line, main>> PROVE Replay'
  <2>1. UNCHANGED <<Items, Pushed>>
    BY <1>0 DEF Items, Pushed
  <2> QED BY <1>0, <2>1 DEF Replay, InOrder, ElementsOf
<1>2. CASE Disabled
  BY <1>2 DEF Disabled, Replay, poolVars
<1>3. CASE OpenCacheFile
  <2>1. pool = "none" /\ taken = <<>> /\ work_queue = <<>>
    BY <1>3 DEF OpenCacheFile, Replay
  <2>2. CASE main' = "open"
    BY <1>3, <2>1, <2>2 DEF OpenCacheFile, Replay, poolVars
  <2>3. CASE main' = "read"
    <3>1. taken' = <<>> /\ work_queue' = <<>> /\ next_line' = 1
      BY <1>3, <2>1, <2>3 DEF OpenCacheFile, CreatePool, Replay
    <3>2. Items' = <<>>
      BY <3>1 DEF Items
    <3>3. Pushed' = {}
      BY <2>3, <3>1 DEF Pushed
    <3>4. InOrder(Items') /\ ElementsOf(Items') = {}
      BY <3>2 DEF InOrder, ElementsOf
    <3> QED BY <2>3, <3>3, <3>4 DEF Replay, InOrder, ElementsOf
  <2> QED BY <1>3, <2>2, <2>3 DEF OpenCacheFile
<1>4. CASE ReadLine
  <2>1. CASE Useful(lines[next_line])
    <3>1. main = "read" /\ main' = "notify" /\ pool' = pool /\ taken' = taken
          /\ work_queue' = Append(work_queue, next_line) /\ lines' = lines /\ next_line' = next_line + 1
      BY <1>4, <2>1 DEF ReadLine, Push
    <3>2. next_line \in Nat /\ next_line \in Item /\ next_line >= 1
      BY DEF Item
    <3>3. Items' = Append(Items, next_line)
      BY <3>1, <3>2, PushedBehind DEF Items
    <3>4. Pushed' = Pushed \cup {next_line}
      BY <2>1, <3>1, <3>2 DEF Pushed
    <3>5. Items \in Seq(Item)
      BY ConcatProperties DEF Items
    <3>6. \A e \in Pushed : Before(e, next_line)
      BY <3>1, <3>2, CancelAssumption DEF Pushed, Before
    <3>7. pool # "none" => InOrder(Items') /\ ElementsOf(Items') = Pushed'
      BY <3>2, <3>3, <3>4, <3>5, <3>6, AppendKeepsOrder DEF Replay
    <3> QED BY <3>1, <3>7 DEF Replay, InOrder, ElementsOf
  <2>2. CASE ~Useful(lines[next_line])
    <3>1. next_line \in Nat /\ next_line >= 1
      OBVIOUS
    <3>2. Pushed' = Pushed
      BY <1>4, <2>2, <3>1 DEF ReadLine, Pushed
    <3> QED BY <1>1, <1>4, <2>2, <3>2 DEF ReadLine, Items, poolVars
  <2> QED BY <2>1, <2>2
<1>5. CASE PushCancel
  <2>1. main = "read" /\ main' = "notify_last" /\ pool' = pool /\ taken' = taken
        /\ work_queue' = Append(work_queue, Cancel) /\ lines' = lines /\ next_line' = next_line
    BY <1>5 DEF PushCancel, Push
  <2>2. Cancel \in Item
    BY DEF Item
  <2>3. Items' = Append(Items, Cancel)
    BY <2>1, <2>2, PushedBehind DEF Items
  <2>4. Pushed' = Pushed \cup {Cancel}
    BY <2>1 DEF Pushed
  <2>5. Items \in Seq(Item)
    BY ConcatProperties DEF Items
  <2>6. \A e \in Pushed : Before(e, Cancel)
    BY <2>1, CancelAssumption DEF Pushed, Before
  <2>7. pool # "none" => InOrder(Items') /\ ElementsOf(Items') = Pushed'
    BY <2>2, <2>3, <2>4, <2>5, <2>6, AppendKeepsOrder DEF Replay
  <2> QED BY <2>1, <2>7 DEF Replay, InOrder, ElementsOf
<1>6. CASE NotifyPushed
  BY <1>1, <1>6 DEF NotifyPushed, NotifyOne, Items, Pushed, Replay
<1>7. CASE OpenWriter \/ CloseWriter \/ Leave
  BY <1>1, <1>7 DEF OpenWriter, CloseWriter, Leave, Items, Pushed, poolVars
<1>8. CASE DestroyPool
  <2>1. UNCHANGED <<work_queue, taken, lines, next_line>>
    BY <1>8 DEF DestroyPool, DestroySetExiting, DestroyNotifyAll, DestroyFree
  <2>2. UNCHANGED <<Items, Pushed>> /\ main' # "start"
    BY <1>8, <2>1 DEF DestroyPool, Items, Pushed
  <2>3. pool' # "none" => pool # "none"
    BY <1>8 DEF DestroyPool, Replay
  <2>4. main' \in {"notify_exit", "join"} => pool' # "none"
    BY <1>8 DEF DestroyPool, DestroySetExiting, DestroyNotifyAll, Replay
  <2>5. main' # "cancel"
    BY <1>8 DEF DestroyPool
  <2> QED BY <2>2, <2>3, <2>4, <2>5 DEF Replay, InOrder, ElementsOf
<1>9. ASSUME NEW t \in Type, NEW p \in Path, Access(t, p) PROVE Replay'
  BY <1>1, <1>9 DEF Access, Items, Pushed, poolVars
<1>10. ASSUME NEW r \in Runner, RunnerStep(r) PROVE Replay'
  <2>1. CASE Take(r)
    <3>1. work_queue # <<>>
      BY <2>1 DEF Take, MayWait
    <3>2. Items' = Items
      BY <2>1, <3>1, TakenFromFront DEF Take, TakeFront, Items
    <3>3. Pushed' = Pushed /\ pool' = pool /\ main' = main
      BY <1>10, <2>1 DEF RunnerStep, Take, Pushed, mainVars
    <3>4. main # "start"
      BY <3>1 DEF Replay
    <3> QED BY <1>1, <3>2, <3>3, <3>4 DEF Replay
  <2>2. CASE UNCHANGED <<pool, taken, work_queue>>
    BY <1>0, <1>10, <2>2 DEF RunnerStep, mainVars
  <2> QED BY <1>10, <2>1, <2>2 DEF RunnerStep, Wait, Exit, RunItem, SetExiting, Finish, NotifyAll
<1>11. ASSUME NEW r \in Runner, Wakeup(r) PROVE Replay'
  BY <1>0, <1>11 DEF Wakeup, SpuriousWakeup, mainVars
<1>12. ASSUME NEW how \in {"killed", "crashed"}, Die(how) PROVE Replay'
  BY <1>12 DEF Die, Replay
<1>13. CASE Restart
  BY <1>13 DEF Restart, Replay
<1>14. CASE UNCHANGED vars
  BY <1>0, <1>14 DEF vars, mainVars, poolVars
<1> QED
  BY <1>2, <1>3, <1>4, <1>5, <1>6, <1>7, <1>8, <1>9, <1>10, <1>11, <1>12, <1>13, <1>14
  DEF Next, MainStep, Kill, NullPointer, Finished

(* Whatever the number of threads and however they are scheduled, what was *)
(* logged is replayed in that order, and each line once.                   *)
THEOREM ReplayKeepsTheOrder == Spec => []ReplayInOrder
<1>1. Init => Replay
  BY DEF Init, NoPool, Replay
<1>2. Replay => ReplayInOrder
  BY DEF Replay, ReplayInOrder, InOrder, ElementsOf, Items
<1> QED BY <1>1, <1>2, TypeInit, TypeInductive, ReplayInductive, PTL DEF Spec

-----------------------------------------------------------------------------
(* The BUILD files: paths, element by element.                             *)

LEMMA PartsAre ==
  /\ "/" \in PathParts /\ "." \in PathParts /\ Build \in PathParts /\ BuildBazel \in PathParts
  /\ Build # "/" /\ BuildBazel # "/" /\ Slash \in Seq(PathParts)
<1>1. "/" \in PathParts /\ "." \in PathParts /\ Build \in PathParts /\ BuildBazel \in PathParts
  BY BuildFilesAssumption, Zenon DEF BuildNames
<1>2. Build # "/"
  BY Zenon DEF Build
<1>3. BuildBazel # "/"
  BY Zenon DEF BuildBazel
<1>. QED  BY <1>1, <1>2, <1>3 DEF Slash

(* Two parts of a path, one after the other. *)
LEMMA TwoParts ==
  ASSUME NEW S, NEW a \in S, NEW b \in S
  PROVE  <<>> \o <<a>> \o <<b>> = <<a, b>>
<1>. DEFINE s == <<a>>  t == <<b>>  u == <<a, b>>  v == s \o t
<1>1. s \in Seq(S) /\ t \in Seq(S) /\ u \in Seq(S)
  OBVIOUS
<1>2. Len(s) = 1 /\ s[1] = a /\ Len(t) = 1 /\ t[1] = b /\ Len(u) = 2 /\ u[1] = a /\ u[2] = b
  OBVIOUS
<1>3. <<>> \o s = s
  BY <1>1
<1>. HIDE DEF s, t, u
<1>4. v \in Seq(S) /\ Len(v) = 2 /\ v[1] = s[1] /\ v[2] = t[1]
  <2>1. /\ v \in Seq(S) /\ Len(v) = Len(s) + Len(t)
        /\ \A i \in 1..Len(s) + Len(t) : v[i] = IF i <= Len(s) THEN s[i] ELSE t[i - Len(s)]
    BY <1>1, ConcatProperties
  <2>. QED  BY <1>2, <2>1
<1>. HIDE DEF v
<1>5. \A i \in 1..Len(v) : v[i] = u[i]
  <2>. SUFFICES ASSUME NEW i \in 1..2 PROVE v[i] = u[i]
    BY <1>4
  <2>. QED  BY <1>2, <1>4
<1>6. v = u
  BY <1>1, <1>2, <1>4, <1>5, SeqEqual
<1>. QED  BY <1>3, <1>6 DEF s, t, u, v

LEMMA SlashAdded ==
  ASSUME NEW s \in Seq(PathParts)
  PROVE  /\ s \o Slash \in Seq(PathParts) /\ Len(s \o Slash) = Len(s) + 1
         /\ \A i \in 1..Len(s) : (s \o Slash)[i] = s[i]
         /\ (s \o Slash)[Len(s) + 1] = "/"
BY PartsAre DEF Slash

LEMMA BeginsWithIs ==
  ASSUME NEW s \in Seq(PathParts), NEW t \in Seq(PathParts)
  PROVE  BeginsWith(s, t) <=> Len(t) <= Len(s) /\ \A i \in 1..Len(t) : s[i] = t[i]
<1>1. CASE Len(t) <= Len(s)
  <2>1. SubSeq(s, 1, Len(t)) \in Seq(PathParts) /\ Len(SubSeq(s, 1, Len(t))) = Len(t)
        /\ \A i \in 1..Len(t) : SubSeq(s, 1, Len(t))[i] = s[i]
    BY <1>1
  <2>2. (\A i \in 1..Len(t) : s[i] = t[i]) => SubSeq(s, 1, Len(t)) = t
    BY <2>1, SeqEqual
  <2>. QED  BY <1>1, <2>1, <2>2 DEF BeginsWith
<1>. QED  BY <1>1 DEF BeginsWith

LEMMA IsInsideIs ==
  ASSUME NEW f \in Seq(PathParts), NEW d \in Seq(PathParts)
  PROVE  IsInside(f, d) <=> /\ Len(d) < Len(f) /\ f[Len(d) + 1] = "/"
                            /\ \A i \in 1..Len(d) : f[i] = d[i]
<1>1. IsInside(f, d) <=> Len(d \o Slash) <= Len(f) /\ \A i \in 1..Len(d \o Slash) : f[i] = (d \o Slash)[i]
  BY SlashAdded, BeginsWithIs DEF IsInside
<1>. QED  BY <1>1, SlashAdded

LEMMA InIs ==
  ASSUME NEW dir \in Seq(PathParts), NEW name \in PathParts
  PROVE  /\ In(dir, name) \in Seq(PathParts)
         /\ Len(In(dir, name)) = IF dir = <<>> THEN 1 ELSE Len(dir) + 2
         /\ dir # <<>> => In(dir, name)[Len(dir) + 1] = "/"
         /\ \A i \in 1..Len(dir) : In(dir, name)[i] = dir[i]
         /\ In(dir, name)[Len(In(dir, name))] = name
<1>1. CASE dir = <<>>
  BY <1>1 DEF In
<1>2. CASE dir # <<>>
  <2>1. In(dir, name) = (dir \o Slash) \o <<name>>
    BY <1>2 DEF In, Slash
  <2>. QED  BY <1>2, <2>1, SlashAdded
<1>. QED  BY <1>1, <1>2

LEMMA InSame ==
  ASSUME NEW c \in Seq(PathParts), NEW d \in Seq(PathParts), NEW m \in PathParts, NEW n \in PathParts,
         In(c, m) = In(d, n)
  PROVE  c = d
<1>1. /\ Len(In(c, m)) = IF c = <<>> THEN 1 ELSE Len(c) + 2
      /\ \A i \in 1..Len(c) : In(c, m)[i] = c[i]
  BY InIs
<1>2. /\ Len(In(c, m)) = IF d = <<>> THEN 1 ELSE Len(d) + 2
      /\ \A i \in 1..Len(d) : In(c, m)[i] = d[i]
  <2>1. /\ Len(In(d, n)) = IF d = <<>> THEN 1 ELSE Len(d) + 2
        /\ \A i \in 1..Len(d) : In(d, n)[i] = d[i]
    BY InIs
  <2>. QED  BY <2>1
<1>3. Len(c) = Len(d)
  <2>1. Len(c) \in Nat /\ Len(d) \in Nat /\ (c = <<>> <=> Len(c) = 0) /\ (d = <<>> <=> Len(d) = 0)
    BY EmptySeq, LenProperties
  <2>2. Len(In(c, m)) = IF Len(c) = 0 THEN 1 ELSE Len(c) + 2
    BY <1>1, <2>1
  <2>3. Len(In(c, m)) = IF Len(d) = 0 THEN 1 ELSE Len(d) + 2
    BY <1>2, <2>1
  <2>4. CASE Len(c) = 0
    <3>1. Len(In(c, m)) = 1
      BY <2>2, <2>4
    <3>2. Len(d) # 0 => Len(In(c, m)) = Len(d) + 2
      BY <2>3
    <3>. QED  BY <2>1, <2>4, <3>1, <3>2
  <2>5. CASE Len(c) # 0
    <3>1. Len(In(c, m)) = Len(c) + 2
      BY <2>2, <2>5
    <3>2. Len(In(c, m)) = 1 \/ Len(In(c, m)) = Len(d) + 2
      BY <2>3
    <3>. QED  BY <2>1, <2>5, <3>1, <3>2
  <2>. QED  BY <2>4, <2>5
<1>4. \A i \in 1..Len(c) : c[i] = d[i]
  BY <1>1, <1>2, <1>3
<1>. QED  BY <1>3, <1>4, SeqEqual

LEMMA InSiblings ==
  ASSUME NEW d \in Seq(PathParts), NEW m \in PathParts, NEW n \in PathParts
  PROVE  AreSiblings(In(d, m), In(d, n))
<1>1. /\ Len(In(d, m)) = IF d = <<>> THEN 1 ELSE Len(d) + 2
      /\ d # <<>> => In(d, m)[Len(d) + 1] = "/"
      /\ \A i \in 1..Len(d) : In(d, m)[i] = d[i]
  BY InIs
<1>2. /\ Len(In(d, n)) = IF d = <<>> THEN 1 ELSE Len(d) + 2
      /\ d # <<>> => In(d, n)[Len(d) + 1] = "/"
      /\ \A i \in 1..Len(d) : In(d, n)[i] = d[i]
  BY InIs
<1>3. Len(In(d, m)) = Len(In(d, n))
  BY <1>1, <1>2
<1>4. ASSUME NEW i \in 1..(Len(In(d, m)) - 1)  PROVE In(d, m)[i] = In(d, n)[i]
  <2>1. d # <<>> /\ (i = Len(d) + 1 \/ i \in 1..Len(d))
    BY <1>1
  <2>. QED  BY <1>1, <1>2, <2>1
<1>. QED  BY <1>3, <1>4 DEF AreSiblings

\* What is written below a path is the path.
LEMMA InInside ==
  ASSUME NEW d \in Seq(PathParts), NEW n \in PathParts, NEW w \in Seq(PathParts),
         d = w \/ IsInside(d, w), w # <<>>
  PROVE  IsInside(In(d, n), w)
<1>1. d # <<>>
  BY IsInsideIs
<1>2. In(d, n) \in Seq(PathParts) /\ Len(In(d, n)) = Len(d) + 2 /\ In(d, n)[Len(d) + 1] = "/"
      /\ \A i \in 1..Len(d) : In(d, n)[i] = d[i]
  BY <1>1, InIs
<1>3. CASE d = w
  BY <1>2, <1>3, IsInsideIs
<1>4. CASE IsInside(d, w)
  <2>1. Len(w) < Len(d) /\ d[Len(w) + 1] = "/" /\ \A i \in 1..Len(w) : d[i] = w[i]
    BY <1>4, IsInsideIs
  <2>2. \A i \in 1..Len(w) : i \in 1..Len(d)
    BY <2>1
  <2>3. Len(w) + 1 \in 1..Len(d)
    BY <2>1
  <2>4. Len(w) < Len(In(d, n)) /\ In(d, n)[Len(w) + 1] = "/" /\ \A i \in 1..Len(w) : In(d, n)[i] = w[i]
    BY <1>2, <2>1, <2>2, <2>3
  <2>. QED  BY <1>2, <2>4, IsInsideIs
<1>. QED  BY <1>3, <1>4

LEMMA InsideBoth ==
  ASSUME NEW f \in Seq(PathParts), NEW v \in Seq(PathParts), NEW w \in Seq(PathParts),
         IsInside(f, v), IsInside(f, w), Len(v) <= Len(w)
  PROVE  IsInside(w \o Slash, v)
<1>1. /\ w \o Slash \in Seq(PathParts) /\ Len(w \o Slash) = Len(w) + 1
      /\ \A i \in 1..Len(w) : (w \o Slash)[i] = w[i]
      /\ (w \o Slash)[Len(w) + 1] = "/"
  BY SlashAdded
<1>2. f[Len(w) + 1] = "/" /\ \A i \in 1..Len(w) : f[i] = w[i]
  BY IsInsideIs
<1>3. f[Len(v) + 1] = "/" /\ \A i \in 1..Len(v) : f[i] = v[i]
  BY IsInsideIs
<1>4. \A i \in 1..(Len(v) + 1) : i \in 1..Len(w) \/ i = Len(w) + 1
  OBVIOUS
<1>5. \A i \in 1..(Len(v) + 1) : (w \o Slash)[i] = f[i]
  BY <1>1, <1>2, <1>4
<1>6. Len(v) < Len(w \o Slash) /\ (w \o Slash)[Len(v) + 1] = "/" /\ \A i \in 1..Len(v) : (w \o Slash)[i] = v[i]
  BY <1>1, <1>3, <1>5
<1>. QED  BY <1>1, <1>6, IsInsideIs

LEMMA SubSeqIs ==
  ASSUME NEW s \in Seq(PathParts), NEW m \in Int, NEW n \in Int, 1 <= m, n <= Len(s)
  PROVE  /\ SubSeq(s, m, n) \in Seq(PathParts)
         /\ Len(SubSeq(s, m, n)) = IF m <= n THEN n - m + 1 ELSE 0
         /\ \A i \in 1..(n - m + 1) : SubSeq(s, m, n)[i] = s[m + i - 1]
<1>1. CASE m <= n
  BY <1>1
<1>2. CASE m > n
  <2>1. SubSeq(s, m, n) = <<>>
    BY <1>2, SubSeqEmpty
  <2>. QED  BY <1>2, <2>1
<1>. QED  BY <1>1, <1>2

LEMMA BeginningIs ==
  ASSUME NEW s \in Seq(PathParts), NEW n \in Int, 0 <= n, n <= Len(s)
  PROVE  /\ SubSeq(s, 1, n) \in Seq(PathParts) /\ Len(SubSeq(s, 1, n)) = n
         /\ \A i \in 1..n : SubSeq(s, 1, n)[i] = s[i]
<1>1. CASE n = 0
  BY <1>1, SubSeqEmpty, EmptySeq
<1>2. CASE n # 0
  BY <1>2
<1>. QED  BY <1>1, <1>2

LEMMA CutAnywhere ==
  ASSUME NEW f \in Seq(PathParts), NEW n \in Int, 0 <= n, n <= Len(f)
  PROVE  SubSeq(f, 1, n) \o SubSeq(f, n + 1, Len(f)) = f
<1>. DEFINE a == SubSeq(f, 1, n)
            b == SubSeq(f, n + 1, Len(f))
<1>1. a \in Seq(PathParts) /\ Len(a) = n /\ \A i \in 1..n : a[i] = f[i]
  BY BeginningIs
<1>2. b \in Seq(PathParts) /\ Len(b) = Len(f) - n /\ \A i \in 1..(Len(f) - n) : b[i] = f[n + i]
  <2>1. Len(f) \in Nat
    OBVIOUS
  <2>2. /\ b \in Seq(PathParts) /\ Len(b) = IF n + 1 <= Len(f) THEN Len(f) - (n + 1) + 1 ELSE 0
        /\ \A i \in 1..(Len(f) - (n + 1) + 1) : b[i] = f[n + 1 + i - 1]
    BY <2>1, SubSeqIs
  <2>3. Len(f) - (n + 1) + 1 = Len(f) - n
    BY <2>1
  <2>. HIDE DEF b
  <2>4. Len(b) = Len(f) - n
    BY <2>1, <2>2
  <2>5. ASSUME NEW i \in 1..(Len(f) - n)  PROVE b[i] = f[n + i]
    <3>1. b[i] = f[n + 1 + i - 1]
      BY <2>2, <2>3
    <3>2. n + 1 + i - 1 = n + i
      OBVIOUS
    <3>. QED  BY <3>1, <3>2
  <2>. QED  BY <2>2, <2>4, <2>5
<1>. HIDE DEF a, b
<1>3. /\ a \o b \in Seq(PathParts) /\ Len(a \o b) = Len(a) + Len(b)
      /\ \A i \in 1..(Len(a) + Len(b)) : (a \o b)[i] = IF i <= Len(a) THEN a[i] ELSE b[i - Len(a)]
  BY <1>1, <1>2, ConcatProperties
<1>4. Len(a \o b) = Len(f)
  BY <1>1, <1>2, <1>3
<1>5. ASSUME NEW i \in 1..Len(f)  PROVE (a \o b)[i] = f[i]
  <2>1. i \in 1..(Len(a) + Len(b))
    BY <1>1, <1>2
  <2>2. CASE i <= n
    BY <1>1, <1>3, <2>1, <2>2
  <2>3. CASE ~(i <= n)
    <3>1. i - n \in 1..(Len(f) - n) /\ n + (i - n) = i
      BY <2>3
    <3>2. (a \o b)[i] = b[i - n] /\ b[i - n] = f[n + (i - n)]
      BY <1>1, <1>2, <1>3, <2>1, <2>3, <3>1
    <3>. QED  BY <3>1, <3>2
  <2>. QED  BY <2>2, <2>3
<1>. QED  BY <1>3, <1>4, <1>5, SeqEqual DEF a, b

\* What is inside of something inside is inside.
LEMMA InsideOf ==
  ASSUME NEW f \in Seq(PathParts), NEW w \in Seq(PathParts), NEW v \in Seq(PathParts),
         IsInside(f, w), IsInside(w \o Slash, v)
  PROVE  IsInside(f, v)
<1>1. /\ w \o Slash \in Seq(PathParts) /\ Len(w \o Slash) = Len(w) + 1
      /\ \A i \in 1..Len(w) : (w \o Slash)[i] = w[i]
      /\ (w \o Slash)[Len(w) + 1] = "/"
  BY SlashAdded
<1>2. Len(w) < Len(f) /\ f[Len(w) + 1] = "/" /\ \A i \in 1..Len(w) : f[i] = w[i]
  BY IsInsideIs
<1>. DEFINE u == w \o Slash
<1>3. /\ Len(v) < Len(u) /\ u[Len(v) + 1] = "/" /\ \A i \in 1..Len(v) : u[i] = v[i]
  BY <1>1, IsInsideIs
<1>. HIDE DEF u
<1>4. \A i \in 1..(Len(w) + 1) : i \in 1..Len(w) \/ i = Len(w) + 1
  OBVIOUS
<1>5. \A i \in 1..(Len(w) + 1) : u[i] = f[i]
  BY <1>1, <1>2, <1>4 DEF u
<1>6. Len(v) \in Nat /\ Len(w) \in Nat /\ Len(f) \in Nat /\ Len(u) = Len(w) + 1
  BY <1>1 DEF u
<1>7. Len(v) + 1 \in 1..(Len(w) + 1) /\ \A i \in 1..Len(v) : i \in 1..(Len(w) + 1)
  BY <1>3, <1>6
<1>8. Len(v) < Len(f) /\ f[Len(v) + 1] = "/" /\ \A i \in 1..Len(v) : f[i] = v[i]
  BY <1>2, <1>3, <1>5, <1>6, <1>7
<1>. QED  BY <1>8, IsInsideIs

LEMMA SlashInFront ==
  ASSUME NEW s \in Seq(PathParts)
  PROVE  Slash \o s \in Seq(PathParts) /\ Slash \o s # <<>> /\ Tail(Slash \o s) = s
BY PartsAre DEF Slash

LEMMA SameBehind ==
  ASSUME NEW w \in Seq(PathParts), NEW x \in Seq(PathParts), NEW y \in Seq(PathParts), w \o x = w \o y
  PROVE  x = y
<1>1. /\ w \o x \in Seq(PathParts) /\ Len(w \o x) = Len(w) + Len(x)
      /\ \A i \in 1..(Len(w) + Len(x)) : (w \o x)[i] = IF i <= Len(w) THEN w[i] ELSE x[i - Len(w)]
  BY ConcatProperties
<1>2. /\ w \o x \in Seq(PathParts) /\ Len(w \o x) = Len(w) + Len(y)
      /\ \A i \in 1..(Len(w) + Len(y)) : (w \o x)[i] = IF i <= Len(w) THEN w[i] ELSE y[i - Len(w)]
  BY ConcatProperties
<1>3. Len(w) \in Nat /\ Len(x) \in Nat /\ Len(y) \in Nat /\ Len(x) = Len(y)
  BY <1>1, <1>2
<1>4. ASSUME NEW i \in 1..Len(x)  PROVE x[i] = y[i]
  <2>1. /\ Len(w) + i \in 1..(Len(w) + Len(x)) /\ Len(w) + i \in 1..(Len(w) + Len(y))
        /\ ~(Len(w) + i <= Len(w)) /\ (Len(w) + i) - Len(w) = i
    BY <1>3
  <2>2. (w \o x)[Len(w) + i] = x[i]
    BY <1>1, <2>1
  <2>3. (w \o x)[Len(w) + i] = y[i]
    BY <1>2, <2>1
  <2>. QED  BY <2>2, <2>3
<1>. QED  BY <1>3, <1>4, SeqEqual

LEMMA DirectoryIs ==
  ASSUME NEW g \in Seq(PathParts), Len(g) >= 2, g[Len(g) - 1] = "/", g[Len(g)] # "/"
  PROVE  DirectoryOf(g) = SubSeq(g, 1, Len(g) - 2)
<1>1. Len(g) - 1 \in SlashPositions(g) /\ \A j \in SlashPositions(g) : j <= Len(g) - 1
  BY DEF SlashPositions
<1>2. SlashPositions(g) \subseteq Int
  BY DEF SlashPositions
<1>3. LastOf(SlashPositions(g)) = Len(g) - 1
  <2>1. /\ LastOf(SlashPositions(g)) \in SlashPositions(g)
        /\ \A j \in SlashPositions(g) : j <= LastOf(SlashPositions(g))
    BY <1>1 DEF LastOf
  <2>. QED  BY <1>1, <1>2, <2>1
<1>. QED  BY <1>1, <1>3 DEF DirectoryOf

LEMMA TrimmedIs ==
  ASSUME NEW s \in Seq(PathParts), NEW chars
  PROVE  /\ (\A i \in 1..Len(s) : s[i] \in chars) => Trimmed(s, chars) = <<>>
         /\ \A k \in 1..Len(s) :
              s[k] \notin chars /\ (\A i \in 1..(k - 1) : s[i] \in chars) => Trimmed(s, chars) = SubSeq(s, k, Len(s))
<1>. DEFINE kept == {i \in DOMAIN s : s[i] \notin chars}
            first == CHOOSE i \in kept : \A j \in kept : i <= j
<1>1. (\A i \in 1..Len(s) : s[i] \in chars) => Trimmed(s, chars) = <<>>
  BY DEF Trimmed
<1>2. ASSUME NEW k \in 1..Len(s), s[k] \notin chars, \A i \in 1..(k - 1) : s[i] \in chars
      PROVE  Trimmed(s, chars) = SubSeq(s, k, Len(s))
  <2>1. k \in kept /\ kept \subseteq Int /\ \A j \in kept : k <= j
    BY <1>2
  <2>2. first \in kept /\ \A j \in kept : first <= j
    BY <2>1
  <2>3. first = k
    <3>. HIDE DEF kept, first
    <3>. QED  BY <2>1, <2>2
  <2>. QED  BY <2>1, <2>3 DEF Trimmed
<1>. QED  BY <1>1, <1>2

LEMMA ResolvedIs ==
  ASSUME NEW f \in Seq(PathParts), f # <<>>, f[1] # "."
  PROVE  /\ Resolved(f) = f
         /\ <<".">> \o Slash \o f \in Seq(PathParts) /\ Resolved(<<".">> \o Slash \o f) = f
<1>0. <<".">> \in Seq(PathParts)
  BY PartsAre
<1>1. Resolved(f) = f
  BY <1>0, IsInsideIs DEF Resolved
<1>. DEFINE g == <<".">> \o Slash \o f
<1>2. g \in Seq(PathParts) /\ Len(g) = Len(f) + 2 /\ g[1] = "." /\ g[2] = "/" /\ \A i \in 1..Len(f) : g[i + 2] = f[i]
  BY <1>0, PartsAre DEF Slash
<1>3. IsInside(g, <<".">>)
  <2>. DEFINE dot == <<".">>
  <2>1. Len(dot) = 1 /\ dot[1] = "."
    OBVIOUS
  <2>. HIDE DEF g, dot
  <2>2. IsInside(g, dot)
    <3>1. Len(dot) < Len(g) /\ g[Len(dot) + 1] = "/" /\ \A i \in 1..Len(dot) : g[i] = dot[i]
      BY <1>2, <2>1
    <3>. QED  BY <1>0, <1>2, <3>1, IsInsideIs DEF dot
  <2>. QED  BY <2>2 DEF dot
<1>4. Without(g, <<".">>) = f
  <2>1. Without(g, <<".">>) = SubSeq(g, 3, Len(g))
    BY DEF Without
  <2>2. SubSeq(g, 3, Len(g)) \in Seq(PathParts) /\ Len(SubSeq(g, 3, Len(g))) = Len(f)
        /\ \A i \in 1..Len(f) : SubSeq(g, 3, Len(g))[i] = f[i]
    <3>. HIDE DEF g
    <3>. QED  BY <1>2, SubSeqIs
  <2>. QED  BY <2>1, <2>2, SeqEqual
<1>. QED  BY <1>1, <1>2, <1>3, <1>4 DEF Resolved

LEMMA FilesAre ==
  ASSUME NEW tree \in DirectoryTrees, NEW f \in DOMAIN tree
  PROVE  /\ f \in Seq(PathParts) /\ f # <<>> /\ f[1] # "." /\ f[1] # "/"
         /\ f[Len(f)] \in PathParts /\ f[Len(f)] \in BuildNames /\ f[Len(f)] # "/"
         /\ Len(f) = 1 \/ (Len(f) >= 3 /\ f[Len(f) - 1] = "/")
         /\ SubSeq(f, 1, Len(f) - 2) \in Seq(PathParts)
         /\ f = In(SubSeq(f, 1, Len(f) - 2), f[Len(f)])
         /\ \A p \in DOMAIN Workspace : IsInside(f, Workspace[p]) => IsRelative(Without(f, Workspace[p]))
<1>1. IsBuildFile(f)
  BY BuildFilesAssumption
<1>2. f \in Seq(PathParts) /\ f # <<>> /\ f[1] # "." /\ f[1] # "/"
  BY <1>1 DEF IsBuildFile, IsRelative
<1>3. PICK name \in BuildNames : f = <<name>> \/ \E n \in 1..Len(f) : f = In(SubSeq(f, 1, n), name)
  BY <1>1 DEF IsBuildFile
<1>4. name \in PathParts /\ name # "/"
  BY PartsAre DEF BuildNames
<1>5. \A p \in DOMAIN Workspace : IsInside(f, Workspace[p]) => IsRelative(Without(f, Workspace[p]))
  BY <1>1 DEF IsBuildFile
<1>6. CASE f = <<name>>
  <2>1. SubSeq(f, 1, Len(f) - 2) = <<>> /\ Len(f) = 1 /\ f[Len(f)] = name
    BY <1>6, SubSeqEmpty
  <2>. QED  BY <1>2, <1>4, <1>5, <1>6, <2>1 DEF In
<1>7. ASSUME NEW n \in 1..Len(f), f = In(SubSeq(f, 1, n), name)
      PROVE  /\ Len(f) >= 3 /\ f[Len(f) - 1] = "/" /\ f[Len(f)] = name
             /\ SubSeq(f, 1, Len(f) - 2) \in Seq(PathParts)
             /\ f = In(SubSeq(f, 1, Len(f) - 2), f[Len(f)])
  <2>1. SubSeq(f, 1, n) \in Seq(PathParts) /\ Len(SubSeq(f, 1, n)) = n /\ SubSeq(f, 1, n) # <<>>
    BY <1>2, SubSeqIs, EmptySeq
  <2>2. /\ Len(In(SubSeq(f, 1, n), name)) = Len(SubSeq(f, 1, n)) + 2
        /\ In(SubSeq(f, 1, n), name)[Len(SubSeq(f, 1, n)) + 1] = "/"
        /\ In(SubSeq(f, 1, n), name)[Len(In(SubSeq(f, 1, n), name))] = name
    BY <1>4, <2>1, InIs
  <2>3. Len(f) = n + 2 /\ f[n + 1] = "/" /\ f[Len(f)] = name
    BY <1>7, <2>1, <2>2
  <2>4. Len(f) - 2 = n /\ Len(f) - 1 = n + 1
    BY <2>3
  <2>. QED  BY <1>7, <2>1, <2>3, <2>4
<1>. QED  BY <1>2, <1>3, <1>4, <1>5, <1>6, <1>7

\* The package of a file of the main project, and of another one.
DirOfFile(f) == SubSeq(f, 1, Len(f) - 2)

LEMMA MainPackageOf ==
  ASSUME NEW tree \in DirectoryTrees, NEW f \in DOMAIN tree
  PROVE  /\ Len(f) # 1 => TargetPathFromBuildFile(f) = DirOfFile(f)
         /\ TargetPathFromBuildFile(<<".">> \o Slash \o f) = DirOfFile(f)
<1>1. /\ f \in Seq(PathParts) /\ f # <<>> /\ f[1] # "." /\ f[1] # "/" /\ f[Len(f)] # "/"
      /\ Len(f) = 1 \/ (Len(f) >= 3 /\ f[Len(f) - 1] = "/")
  BY FilesAre
<1>2. ASSUME Len(f) # 1  PROVE TargetPathFromBuildFile(f) = DirOfFile(f)
  <2>1. Len(f) >= 3 /\ DirectoryOf(f) = DirOfFile(f)
    BY <1>1, <1>2, DirectoryIs DEF DirOfFile
  <2>2. /\ DirOfFile(f) \in Seq(PathParts) /\ Len(DirOfFile(f)) = Len(f) - 2
        /\ \A i \in 1..(Len(f) - 2) : DirOfFile(f)[i] = f[i]
    BY <1>1, <2>1, SubSeqIs DEF DirOfFile
  <2>3. 1 \in 1..Len(DirOfFile(f)) /\ DirOfFile(f)[1] \notin {".", "/"}
    BY <1>1, <2>1, <2>2
  <2>4. Trimmed(DirOfFile(f), {".", "/"}) = SubSeq(DirOfFile(f), 1, Len(DirOfFile(f)))
    BY <2>2, <2>3, TrimmedIs
  <2>5. SubSeq(DirOfFile(f), 1, Len(DirOfFile(f))) = DirOfFile(f)
    BY <2>2
  <2>. QED  BY <2>1, <2>4, <2>5 DEF TargetPathFromBuildFile
<1>. DEFINE g == <<".">> \o Slash \o f
<1>3. /\ g \in Seq(PathParts) /\ Len(g) = Len(f) + 2 /\ g[1] = "." /\ g[2] = "/"
      /\ \A i \in 1..Len(f) : g[i + 2] = f[i]
  BY <1>1, PartsAre DEF Slash
<1>4. TargetPathFromBuildFile(g) = DirOfFile(f)
  <2>. HIDE DEF g
  <2>1. g[Len(g)] # "/" /\ g[Len(g) - 1] = "/" /\ Len(g) >= 3
    <3>1. Len(f) \in 1..Len(f)
      BY <1>1, EmptySeq
    <3>2. g[Len(g)] = f[Len(f)]
      BY <1>3, <3>1
    <3>3. CASE Len(f) = 1
      BY <1>1, <1>3, <3>2, <3>3
    <3>4. CASE Len(f) # 1
      <4>1. Len(f) - 1 \in 1..Len(f) /\ g[Len(f) - 1 + 2] = f[Len(f) - 1]
        BY <1>1, <1>3, <3>4
      <4>. QED  BY <1>1, <1>3, <3>1, <3>2, <3>4, <4>1
    <3>. QED  BY <3>3, <3>4
  <2>2. DirectoryOf(g) = SubSeq(g, 1, Len(g) - 2)
    <3>1. g \in Seq(PathParts)
      BY <1>3
    <3>2. g[Len(g)] # "/" /\ g[Len(g) - 1] = "/" /\ Len(g) >= 2
      BY <2>1, <1>3
    <3>. QED  BY ONLY <3>1, <3>2, DirectoryIs
  <2>3. SubSeq(g, 1, Len(g) - 2) = SubSeq(g, 1, Len(f))
    BY <1>3
  <2>. DEFINE s == SubSeq(g, 1, Len(f))
  <2>4. s \in Seq(PathParts) /\ Len(s) = Len(f) /\ \A i \in 1..Len(f) : s[i] = g[i]
    BY <1>1, <1>3, <2>1, SubSeqIs
  <2>5. CASE Len(f) = 1
    <3>1. Trimmed(s, {".", "/"}) = <<>>
      <4>. HIDE DEF s
      <4>. QED  BY <1>3, <2>4, <2>5, TrimmedIs
    <3>2. DirOfFile(f) = <<>>
      BY <1>1, <2>5, SubSeqEmpty DEF DirOfFile
    <3>. QED  BY <2>2, <2>3, <3>1, <3>2 DEF TargetPathFromBuildFile
  <2>6. CASE Len(f) # 1
    <3>1. Len(f) >= 3 /\ s[1] = "." /\ s[2] = "/" /\ s[3] = f[1]
      <4>. HIDE DEF s
      <4>. QED  BY <1>1, <1>3, <2>4, <2>6
    <3>2. Trimmed(s, {".", "/"}) = SubSeq(s, 3, Len(s))
      <4>. HIDE DEF s
      <4>1. 3 \in 1..Len(s) /\ s[3] \notin {".", "/"} /\ \A i \in 1..(3 - 1) : s[i] \in {".", "/"}
        BY <1>1, <2>4, <3>1
      <4>. QED  BY <2>4, <4>1, TrimmedIs
    <3>3. /\ SubSeq(s, 3, Len(s)) \in Seq(PathParts) /\ Len(SubSeq(s, 3, Len(s))) = Len(f) - 2
          /\ \A i \in 1..(Len(f) - 2) : SubSeq(s, 3, Len(s))[i] = f[i]
      <4>. HIDE DEF s
      <4>1. /\ SubSeq(s, 3, Len(s)) \in Seq(PathParts) /\ Len(SubSeq(s, 3, Len(s))) = Len(f) - 2
            /\ \A i \in 1..(Len(f) - 2) : SubSeq(s, 3, Len(s))[i] = s[i + 2]
        BY <2>4, <3>1, SubSeqIs
      <4>2. ASSUME NEW i \in 1..(Len(f) - 2)  PROVE s[i + 2] = f[i]
        BY <1>3, <2>4
      <4>. QED  BY <4>1, <4>2
    <3>4. /\ DirOfFile(f) \in Seq(PathParts) /\ Len(DirOfFile(f)) = Len(f) - 2
          /\ \A i \in 1..(Len(f) - 2) : DirOfFile(f)[i] = f[i]
      BY <1>1, <3>1, SubSeqIs DEF DirOfFile
    <3>5. SubSeq(s, 3, Len(s)) = DirOfFile(f)
      BY <3>3, <3>4, SeqEqual
    <3>. QED  BY <2>2, <2>3, <3>2, <3>5 DEF TargetPathFromBuildFile
  <2>. QED  BY <2>5, <2>6
<1>. QED  BY <1>2, <1>4

LEMMA WorkspaceIs ==
  ASSUME NEW p \in DOMAIN Workspace
  PROVE  /\ p # Ours /\ Workspace[p] \in Seq(PathParts) /\ Workspace[p] # <<>> /\ Workspace[p][1] # "."
         /\ Workspace[p][Len(Workspace[p])] # "/"
BY BuildFilesAssumption DEF IsDirectoryPath, IsRelative

LEMMA OtherPackageOf ==
  ASSUME NEW tree \in DirectoryTrees, NEW f \in DOMAIN tree, NEW p \in DOMAIN Workspace, IsInside(f, Workspace[p]),
         NEW path, path = TargetPathFromBuildFile(SubSeq(f, Len(Workspace[p]) + 1, Len(f)))
  PROVE  path \in Seq(PathParts) /\ PathOf(Package(p, path)) = DirOfFile(f)
<1>. DEFINE W == Workspace[p]
            s == SubSeq(f, Len(W) + 1, Len(f))
            r == SubSeq(s, 1, Len(s) - 2)
<1>1. /\ f \in Seq(PathParts) /\ f # <<>> /\ f[Len(f)] # "/"
      /\ Len(f) = 1 \/ (Len(f) >= 3 /\ f[Len(f) - 1] = "/")
  BY FilesAre
<1>2. W \in Seq(PathParts) /\ W # <<>> /\ p # Ours
  BY WorkspaceIs
<1>. HIDE DEF W
<1>3. /\ Len(W) < Len(f) /\ f[Len(W) + 1] = "/" /\ \A i \in 1..Len(W) : f[i] = W[i]
  BY <1>1, <1>2, IsInsideIs DEF W
<1>4. Len(W) >= 1 /\ Len(W) + 2 <= Len(f)
  BY <1>1, <1>2, <1>3, EmptySeq
<1>5. s \in Seq(PathParts) /\ Len(s) = Len(f) - Len(W) /\ \A i \in 1..(Len(f) - Len(W)) : s[i] = f[Len(W) + i]
  <2>1. \A i \in 1..(Len(f) - Len(W)) : Len(W) + 1 + i - 1 = Len(W) + i
    BY <1>1, <1>2
  <2>2. Len(W) \in Nat /\ Len(f) \in Nat
    BY <1>1, <1>2
  <2>3. /\ s \in Seq(PathParts) /\ Len(s) = Len(f) - (Len(W) + 1) + 1
        /\ \A i \in 1..(Len(f) - (Len(W) + 1) + 1) : s[i] = f[Len(W) + 1 + i - 1]
    BY <1>1, <1>4, <2>2, SubSeqIs
  <2>. QED  BY <2>1, <2>2, <2>3
<1>6. DirectoryOf(s) = r
  <2>. HIDE DEF s
  <2>1. Len(s) >= 2 /\ s[Len(s)] = f[Len(f)] /\ s[Len(s) - 1] = f[Len(f) - 1]
    <3>1. Len(W) \in Nat /\ Len(f) \in Nat
      BY <1>1, <1>2
    <3>2. /\ Len(s) \in 1..(Len(f) - Len(W)) /\ Len(s) - 1 \in 1..(Len(f) - Len(W))
          /\ Len(W) + Len(s) = Len(f) /\ Len(W) + (Len(s) - 1) = Len(f) - 1
      BY <1>4, <1>5, <3>1
    <3>3. Len(s) >= 2
      BY <1>4, <1>5, <3>1
    <3>4. s[Len(s)] = f[Len(W) + Len(s)] /\ s[Len(s) - 1] = f[Len(W) + (Len(s) - 1)]
      BY <1>5, <3>2
    <3>. QED  BY <3>2, <3>3, <3>4
  <2>2. s[Len(s)] # "/" /\ s[Len(s) - 1] = "/"
    BY <1>1, <1>4, <2>1
  <2>. QED  BY <1>5, <2>1, <2>2, DirectoryIs
<1>7. /\ r \in Seq(PathParts) /\ Len(r) = Len(f) - Len(W) - 2
      /\ \A i \in 1..(Len(f) - Len(W) - 2) : r[i] = f[Len(W) + i]
  <2>. HIDE DEF s
  <2>1. /\ r \in Seq(PathParts) /\ Len(r) = Len(s) - 2
        /\ \A i \in 1..(Len(s) - 2) : r[i] = s[i]
    BY <1>4, <1>5, SubSeqIs
  <2>2. Len(s) - 2 = Len(f) - Len(W) - 2 /\ Len(f) \in Nat /\ Len(W) \in Nat
    BY <1>1, <1>2, <1>4, <1>5
  <2>3. \A i \in 1..(Len(f) - Len(W) - 2) : i \in 1..(Len(s) - 2) /\ i \in 1..(Len(f) - Len(W))
    BY <2>2
  <2>. HIDE DEF r, s
  <2>4. \A i \in 1..(Len(f) - Len(W) - 2) : r[i] = f[Len(W) + i]
    BY <1>5, <2>1, <2>3
  <2>. QED  BY <2>1, <2>2, <2>4
<1>8. /\ DirOfFile(f) \in Seq(PathParts) /\ Len(DirOfFile(f)) = Len(f) - 2
      /\ \A i \in 1..(Len(f) - 2) : DirOfFile(f)[i] = f[i]
  BY <1>1, <1>4, SubSeqIs DEF DirOfFile
<1>9. CASE Len(f) = Len(W) + 2
  <2>. HIDE DEF r, s
  <2>1. r = <<>>
    BY <1>7, <1>9, EmptySeq
  <2>2. Trimmed(r, {".", "/"}) = <<>>
    <3>1. \A i \in 1..Len(r) : r[i] \in {".", "/"}
      BY <1>7, <1>9, <2>1
    <3>. QED  BY <1>7, <3>1, TrimmedIs
  <2>3. DirOfFile(f) = W
    BY <1>2, <1>3, <1>8, <1>9, SeqEqual
  <2>4. PathOf(Package(p, <<>>)) = W
    BY <1>2 DEF PathOf, Package, W
  <2>5. TargetPathFromBuildFile(s) = <<>>
    BY <1>6, <2>2 DEF TargetPathFromBuildFile
  <2>6. path = <<>>
    BY <2>5 DEF s, W
  <2>7. path \in Seq(PathParts)
    BY <2>6, EmptySeq
  <2>. QED  BY <2>3, <2>4, <2>6, <2>7
<1>10. CASE Len(f) # Len(W) + 2
  <2>. DEFINE q == SubSeq(r, 2, Len(r))
  <2>0. Len(f) >= Len(W) + 3 /\ Len(f) \in Nat /\ Len(W) \in Nat
    BY <1>1, <1>2, <1>4, <1>10
  <2>1. f[Len(W) + 2] \notin {".", "/"}
    <3>1. IsRelative(Without(f, W))
      BY FilesAre DEF W
    <3>2. Without(f, W) = SubSeq(f, Len(W) + 2, Len(f)) /\ SubSeq(f, Len(W) + 2, Len(f))[1] = f[Len(W) + 2]
      BY <1>1, <2>0 DEF Without
    <3>. QED  BY <3>1, <3>2 DEF IsRelative
  <2>2. Len(r) >= 1 /\ r[1] = "/"
    <3>. HIDE DEF r, s
    <3>1. 1 \in 1..(Len(f) - Len(W) - 2)
      BY <2>0
    <3>. QED  BY <1>3, <1>7, <2>0, <3>1
  <2>3. Len(r) >= 2
    <3>1. Len(f) # Len(W) + 3
      <4>1. SUFFICES ASSUME Len(f) = Len(W) + 3  PROVE FALSE
        OBVIOUS
      <4>2. f[Len(W) + 2] = "/"
        BY <1>1, <2>0, <4>1
      <4>. QED  BY <2>1, <4>2
    <3>. QED  BY <1>7, <2>0, <3>1
  <2>4. Trimmed(r, {".", "/"}) = q
    <3>0. 2 \in 1..(Len(f) - Len(W) - 2) /\ r[2] = f[Len(W) + 2]
      BY <1>7, <2>0, <2>3
    <3>1. 2 \in 1..Len(r) /\ r[2] \notin {".", "/"} /\ \A i \in 1..(2 - 1) : r[i] \in {".", "/"}
      BY <1>7, <2>0, <2>1, <2>2, <2>3, <3>0
    <3>. HIDE DEF r
    <3>. QED  BY <1>7, <3>1, TrimmedIs
  <2>5. q \in Seq(PathParts) /\ Len(q) = Len(f) - Len(W) - 3 /\ \A i \in 1..(Len(f) - Len(W) - 3) : q[i] = f[Len(W) + 1 + i]
    <3>. HIDE DEF r
    <3>1. q \in Seq(PathParts) /\ Len(q) = Len(r) - 1 /\ \A i \in 1..(Len(r) - 1) : q[i] = r[i + 1]
      BY <1>7, <2>3, SubSeqIs
    <3>2. ASSUME NEW i \in 1..(Len(r) - 1)  PROVE r[i + 1] = f[Len(W) + 1 + i]
      BY <1>7, <2>0
    <3>. QED  BY <1>7, <2>0, <3>1, <3>2
  <2>. HIDE DEF q, r, s
  <2>6. q # <<>>
    BY <1>7, <2>3, <2>5, <2>0, EmptySeq
  <2>7. PathOf(Package(p, q)) = W \o (Slash \o q)
    BY <1>2, <2>6 DEF PathOf, Package, W
  <2>8. W \o (Slash \o q) = DirOfFile(f)
    <3>1. /\ Slash \o q \in Seq(PathParts) /\ Len(Slash \o q) = Len(q) + 1 /\ (Slash \o q)[1] = "/"
          /\ \A i \in 1..Len(q) : (Slash \o q)[i + 1] = q[i]
      BY <2>5, PartsAre DEF Slash
    <3>2. /\ W \o (Slash \o q) \in Seq(PathParts) /\ Len(W \o (Slash \o q)) = Len(W) + Len(q) + 1
          /\ \A i \in 1..Len(W) : (W \o (Slash \o q))[i] = W[i]
          /\ \A i \in 1..(Len(q) + 1) : (W \o (Slash \o q))[Len(W) + i] = (Slash \o q)[i]
      <4>. DEFINE t == Slash \o q
      <4>. HIDE DEF t
      <4>1. t \in Seq(PathParts) /\ Len(t) = Len(q) + 1 /\ Len(q) \in Nat
        BY <2>5, <3>1 DEF t
      <4>2. /\ W \o t \in Seq(PathParts) /\ Len(W \o t) = Len(W) + Len(t)
            /\ \A i \in 1..(Len(W) + Len(t)) : (W \o t)[i] = IF i <= Len(W) THEN W[i] ELSE t[i - Len(W)]
        BY <1>2, <4>1, ConcatProperties
      <4>3. \A i \in 1..Len(W) : i \in 1..(Len(W) + Len(t)) /\ i <= Len(W)
        BY <2>0, <4>1
      <4>4. \A i \in 1..(Len(q) + 1) : /\ Len(W) + i \in 1..(Len(W) + Len(t)) /\ ~(Len(W) + i <= Len(W))
                                        /\ (Len(W) + i) - Len(W) = i
        BY <2>0, <4>1
      <4>5. W \o t \in Seq(PathParts) /\ Len(W \o t) = Len(W) + Len(q) + 1
        BY <2>0, <4>1, <4>2
      <4>6. \A i \in 1..Len(W) : (W \o t)[i] = W[i]
        BY <4>2, <4>3
      <4>7. \A i \in 1..(Len(q) + 1) : (W \o t)[Len(W) + i] = t[i]
        BY <4>2, <4>4
      <4>. QED  BY <4>5, <4>6, <4>7 DEF t
    <3>3. ASSUME NEW i \in 1..(Len(f) - 2)  PROVE (W \o (Slash \o q))[i] = f[i]
      <4>1. CASE i <= Len(W)
        BY <1>3, <3>2, <4>1
      <4>2. CASE i = Len(W) + 1
        BY <1>3, <2>0, <2>5, <3>1, <3>2, <4>2
      <4>3. CASE i > Len(W) + 1
        <5>1. i - Len(W) - 1 \in 1..Len(q) /\ i - Len(W) \in 1..(Len(q) + 1) /\ (i - Len(W) - 1) + 1 = i - Len(W)
          BY <2>0, <2>5, <4>3
        <5>2. (Slash \o q)[i - Len(W)] = q[i - Len(W) - 1] /\ q[i - Len(W) - 1] = f[Len(W) + 1 + (i - Len(W) - 1)]
          BY <2>5, <3>1, <5>1
        <5>3. (W \o (Slash \o q))[Len(W) + (i - Len(W))] = (Slash \o q)[i - Len(W)]
          BY <3>2, <5>1
        <5>4. i \in Int /\ Len(W) + (i - Len(W)) = i /\ Len(W) + 1 + (i - Len(W) - 1) = i
          BY <2>0
        <5>. QED  BY <5>2, <5>3, <5>4
      <4>4. i \in Int
        BY <2>0
      <4>5. i <= Len(W) \/ i = Len(W) + 1 \/ i > Len(W) + 1
        BY <2>0, <4>4
      <4>. QED  BY <4>1, <4>2, <4>3, <4>5
    <3>4. Len(W \o (Slash \o q)) = Len(f) - 2
      BY <2>0, <2>5, <3>2
    <3>. QED  BY <1>8, <3>2, <3>3, <3>4, SeqEqual
  <2>9. TargetPathFromBuildFile(s) = q
    BY <1>6, <2>4 DEF TargetPathFromBuildFile
  <2>10. path = q
    BY <2>9 DEF s, W
  <2>. QED  BY <2>5, <2>7, <2>8, <2>10
<1>. QED  BY <1>9, <1>10

-----------------------------------------------------------------------------
(* The files that are found for a pattern.                                 *)
IsKnown(p) == p \in DOMAIN Workspace \cup {Ours}
IsBehindLink(f) == \E q \in DOMAIN Workspace : IsInside(f, Workspace[q])
FoundFor(g, p) ==
  \E f \in DOMAIN files :
    /\ Resolved(g) = f
    /\ \/ p = Ours /\ (g = <<".">> \o Slash \o f \/ (g = f /\ Len(f) # 1))
       \/ p \in DOMAIN Workspace /\ g = f /\ IsInside(f, Workspace[p])
    /\ (p = Ours /\ ProjectsAreApart) => ~IsBehindLink(f)

LEMMA WithoutEndingSlashesIs ==
  ASSUME NEW d \in Seq(PathParts)
  PROVE  LET w == WithoutEndingSlashes(d) IN
         /\ w \in Seq(PathParts) /\ Len(w) \in Nat /\ Len(w) <= Len(d)
         /\ \A i \in (Len(w) + 1)..Len(d) : d[i] = "/"
         /\ \A i \in 1..Len(w) : i \in 1..Len(d) /\ w[i] = d[i]
<1>. DEFINE kept == {i \in DOMAIN d : d[i] # "/"}
            n == IF kept = {} THEN 0 ELSE LastOf(kept)
            w == SubSeq(d, 1, n)
<1>1. Len(d) \in Nat /\ DOMAIN d = 1..Len(d)
  OBVIOUS
<1>2. n \in Int /\ 0 <= n /\ n <= Len(d) /\ \A i \in (n + 1)..Len(d) : d[i] = "/"
  <2>1. CASE kept = {}
    BY <1>1, <2>1
  <2>2. CASE kept # {}
    <3>1. kept \subseteq Int /\ \A i \in kept : i <= Len(d)
      BY <1>1
    <3>2. \E i \in kept : \A j \in kept : j <= i
      <4>. DEFINE b == Len(d)
      <4>1. b \in Int /\ \A i \in kept : i <= b
        BY <1>1, <3>1
      <4>. HIDE DEF kept, b
      <4>. QED  BY ONLY <2>2, <3>1, <4>1, GreatestOf
    <3>3. LastOf(kept) \in kept /\ \A j \in kept : j <= LastOf(kept)
      <4>. HIDE DEF kept
      <4>. QED  BY <3>2 DEF LastOf
    <3>4. n = LastOf(kept)
      BY <2>2
    <3>. HIDE DEF n
    <3>5. n \in 1..Len(d) /\ \A j \in kept : j <= n
      BY <1>1, <3>3, <3>4
    <3>6. ASSUME NEW i \in (n + 1)..Len(d)  PROVE d[i] = "/"
      <4>1. i \in DOMAIN d /\ ~(i <= n)
        BY <1>1, <3>5
      <4>. QED  BY <3>5, <4>1
    <3>. QED  BY <1>1, <3>5, <3>6
  <2>. QED  BY <2>1, <2>2
<1>3. w = WithoutEndingSlashes(d)
  BY DEF WithoutEndingSlashes
<1>. HIDE DEF n
<1>4. w \in Seq(PathParts) /\ Len(w) = n /\ \A i \in 1..n : w[i] = d[i]
  BY <1>2, BeginningIs
<1>. HIDE DEF w
<1>5. \A i \in 1..n : i \in 1..Len(d)
  BY <1>1, <1>2
<1>. QED  BY <1>1, <1>2, <1>3, <1>4, <1>5

LEMMA NoEndingSlash ==
  ASSUME NEW d \in Seq(PathParts), d = <<>> \/ d[Len(d)] # "/"
  PROVE  WithoutEndingSlashes(d) = d
<1>. DEFINE w == WithoutEndingSlashes(d)
<1>1. /\ w \in Seq(PathParts) /\ Len(w) \in Nat /\ Len(w) <= Len(d) /\ Len(d) \in Nat
      /\ \A i \in (Len(w) + 1)..Len(d) : d[i] = "/"
      /\ \A i \in 1..Len(w) : w[i] = d[i]
  BY WithoutEndingSlashesIs
<1>. HIDE DEF w
<1>2. Len(w) = Len(d)
  <2>1. CASE d = <<>>
    BY <1>1, <2>1, EmptySeq
  <2>2. CASE d[Len(d)] # "/"
    <3>1. ~(Len(d) \in (Len(w) + 1)..Len(d))
      BY <1>1, <2>2
    <3>. QED  BY <1>1, <3>1
  <2>. QED  BY <2>1, <2>2
<1>3. w = d
  BY <1>1, <1>2, SeqEqual
<1>. QED  BY <1>3 DEF w

LEMMA StartOfOurs ==
  ASSUME NEW pattern \in Patterns, pattern.project = Ours
  PROVE  LET start == StartDir(pattern) IN
         /\ start \in Seq(PathParts)
         /\ start # <<".">> => \A link \in Seq(PathParts) :
              IsInside(start \o Slash, link) => IsInside(pattern.path \o Slash, link)
<1>. DEFINE start == StartDir(pattern)
            path == pattern.path
<1>1. path \in Seq(PathParts)
  BY BuildFilesAssumption
<1>2. DetermineSearchDirFromPattern(pattern) = IF path = <<>> THEN <<".">> ELSE path
  <2>1. <<>> \o path = path
    BY <1>1
  <2>. QED  BY <2>1 DEF DetermineSearchDirFromPattern
<1>3. CASE path = <<>>
  <2>1. start = WithoutEndingSlashes(<<".">>)
    BY <1>2, <1>3 DEF StartDir
  <2>3. <<".">> \in Seq(PathParts) /\ <<".">>[Len(<<".">>)] # "/"
    BY PartsAre
  <2>2. WithoutEndingSlashes(<<".">>) = <<".">>
    BY <2>3, NoEndingSlash
  <2>. QED  BY <2>1, <2>2, <2>3
<1>4. CASE path # <<>>
  <2>. HIDE DEF path
  <2>1. start = WithoutEndingSlashes(path)
    BY <1>2, <1>4 DEF StartDir, path
  <2>2. /\ start \in Seq(PathParts) /\ Len(start) \in Nat /\ Len(start) <= Len(path)
        /\ \A i \in (Len(start) + 1)..Len(path) : path[i] = "/"
        /\ \A i \in 1..Len(start) : i \in 1..Len(path) /\ start[i] = path[i]
    BY <1>1, <2>1, WithoutEndingSlashesIs
  <2>. HIDE DEF start
  <2>3. ASSUME NEW link \in Seq(PathParts), IsInside(start \o Slash, link)
        PROVE  IsInside(path \o Slash, link)
    <3>1. /\ start \o Slash \in Seq(PathParts) /\ Len(start \o Slash) = Len(start) + 1
          /\ \A i \in 1..Len(start) : (start \o Slash)[i] = start[i]
          /\ (start \o Slash)[Len(start) + 1] = "/"
      BY <2>2, SlashAdded
    <3>2. /\ path \o Slash \in Seq(PathParts) /\ Len(path \o Slash) = Len(path) + 1
          /\ \A i \in 1..Len(path) : (path \o Slash)[i] = path[i]
          /\ (path \o Slash)[Len(path) + 1] = "/"
      BY <1>1, SlashAdded
    <3>3. Len(start \o Slash) <= Len(path \o Slash)
      BY <1>1, <2>2, <3>1, <3>2
    <3>4. \A i \in 1..Len(start) : (path \o Slash)[i] = (start \o Slash)[i]
      BY <2>2, <3>1, <3>2
    <3>5. (path \o Slash)[Len(start) + 1] = "/"
      <4>1. CASE Len(start) = Len(path)
        BY <3>2, <4>1
      <4>2. CASE Len(start) # Len(path)
        <5>1. Len(start) + 1 \in (Len(start) + 1)..Len(path) /\ Len(start) + 1 \in 1..Len(path)
          BY <1>1, <2>2, <4>2
        <5>. QED  BY <2>2, <3>2, <5>1
      <4>. QED  BY <4>1, <4>2
    <3>6. \A i \in 1..Len(start \o Slash) : (path \o Slash)[i] = (start \o Slash)[i]
      <4>1. \A i \in 1..Len(start \o Slash) : i \in 1..Len(start) \/ i = Len(start) + 1
        BY <2>2, <3>1
      <4>. QED  BY <3>1, <3>4, <3>5, <4>1
    <3>7. /\ Len(link) < Len(start \o Slash) /\ (start \o Slash)[Len(link) + 1] = "/"
          /\ \A i \in 1..Len(link) : (start \o Slash)[i] = link[i]
      BY <2>3, <3>1, IsInsideIs
    <3>8. Len(link) + 1 \in 1..Len(start \o Slash) /\ \A i \in 1..Len(link) : i \in 1..Len(start \o Slash)
      BY <3>1, <3>7
    <3>9. /\ Len(link) < Len(path \o Slash) /\ (path \o Slash)[Len(link) + 1] = "/"
          /\ \A i \in 1..Len(link) : (path \o Slash)[i] = link[i]
      BY <3>1, <3>2, <3>3, <3>6, <3>7, <3>8
    <3>. QED  BY <3>2, <3>9, IsInsideIs
  <2>. QED  BY <2>2, <2>3 DEF start, path
<1>. QED  BY <1>3, <1>4

LEMMA StartOfOther ==
  ASSUME NEW pattern \in Patterns, pattern.project \in DOMAIN Workspace
  PROVE  LET start == StartDir(pattern) IN
         /\ start \in Seq(PathParts) /\ start # <<".">>
         /\ IsInside(start \o Slash, Workspace[pattern.project])
<1>. DEFINE start == StartDir(pattern)
            path == pattern.path
            W == Workspace[pattern.project]
            det == (W \o Slash) \o path
<1>1. path \in Seq(PathParts)
  BY BuildFilesAssumption
<1>2. /\ W \in Seq(PathParts) /\ W # <<>> /\ W[1] # "." /\ W[Len(W)] # "/"
      /\ pattern.project # Ours
  BY WorkspaceIs
<1>. HIDE DEF W, path
<1>3. /\ W \o Slash \in Seq(PathParts) /\ Len(W \o Slash) = Len(W) + 1
      /\ \A i \in 1..Len(W) : (W \o Slash)[i] = W[i]
      /\ (W \o Slash)[Len(W) + 1] = "/"
  BY <1>2, SlashAdded
<1>4. /\ det \in Seq(PathParts) /\ Len(det) = Len(W) + 1 + Len(path)
      /\ \A i \in 1..(Len(W) + 1) : det[i] = (W \o Slash)[i]
  <2>. DEFINE v == W \o Slash
  <2>. HIDE DEF v
  <2>1. v \in Seq(PathParts) /\ Len(v) = Len(W) + 1
    BY <1>3 DEF v
  <2>2. /\ v \o path \in Seq(PathParts) /\ Len(v \o path) = Len(v) + Len(path)
        /\ \A i \in 1..(Len(v) + Len(path)) : (v \o path)[i] = IF i <= Len(v) THEN v[i] ELSE path[i - Len(v)]
    BY <1>1, <2>1, ConcatProperties
  <2>3. \A i \in 1..(Len(W) + 1) : i \in 1..(Len(v) + Len(path)) /\ i <= Len(v)
    BY <1>1, <1>2, <2>1
  <2>. QED  BY <2>1, <2>2, <2>3 DEF v
<1>5. Len(W) \in Nat /\ Len(path) \in Nat /\ Len(W) >= 1
  BY <1>1, <1>2, EmptySeq
<1>6. start = WithoutEndingSlashes(det)
  <2>1. det # <<>>
    BY <1>4, <1>5, EmptySeq
  <2>. QED  BY <1>2, <2>1 DEF StartDir, DetermineSearchDirFromPattern, W, path
<1>. HIDE DEF det
<1>7. /\ start \in Seq(PathParts) /\ Len(start) \in Nat /\ Len(start) <= Len(det)
      /\ \A i \in (Len(start) + 1)..Len(det) : det[i] = "/"
      /\ \A i \in 1..Len(start) : start[i] = det[i]
  <2>1. det \in Seq(PathParts)
    BY <1>4
  <2>2. LET w == WithoutEndingSlashes(det) IN
        /\ w \in Seq(PathParts) /\ Len(w) \in Nat /\ Len(w) <= Len(det)
        /\ \A i \in (Len(w) + 1)..Len(det) : det[i] = "/"
        /\ \A i \in 1..Len(w) : w[i] = det[i]
    BY <2>1, WithoutEndingSlashesIs
  <2>. QED  BY <1>6, <2>2
<1>. HIDE DEF start
<1>8. Len(start) >= Len(W) /\ Len(start) \in Nat
  <2>1. Len(W) \in 1..(Len(W) + 1) /\ Len(W) \in 1..Len(W) /\ Len(W) <= Len(det) /\ Len(det) \in Nat
    BY <1>4, <1>5
  <2>2. det[Len(W)] # "/"
    BY <1>2, <1>3, <1>4, <2>1
  <2>3. ~(Len(W) \in (Len(start) + 1)..Len(det))
    BY <1>7, <2>2
  <2>. QED  BY <1>5, <1>7, <2>1, <2>3
<1>9. \A i \in 1..Len(W) : start[i] = W[i]
  <2>1. \A i \in 1..Len(W) : i \in 1..Len(start) /\ i \in 1..(Len(W) + 1)
    BY <1>5, <1>8
  <2>. QED  BY <1>3, <1>4, <1>7, <2>1
<1>10. /\ start \o Slash \in Seq(PathParts) /\ Len(start \o Slash) = Len(start) + 1
       /\ \A i \in 1..Len(start) : (start \o Slash)[i] = start[i]
       /\ (start \o Slash)[Len(start) + 1] = "/"
  BY <1>7, SlashAdded
<1>11. (start \o Slash)[Len(W) + 1] = "/"
  <2>1. CASE Len(start) = Len(W)
    BY <1>10, <2>1
  <2>2. CASE Len(start) # Len(W)
    <3>1. Len(W) + 1 \in 1..Len(start) /\ Len(W) + 1 \in 1..(Len(W) + 1)
      BY <1>5, <1>8, <2>2
    <3>2. (start \o Slash)[Len(W) + 1] = det[Len(W) + 1]
      BY <1>7, <1>10, <3>1
    <3>. QED  BY <1>3, <1>4, <3>1, <3>2
  <2>. QED  BY <2>1, <2>2
<1>12. \A i \in 1..Len(W) : (start \o Slash)[i] = W[i]
  <2>1. \A i \in 1..Len(W) : i \in 1..Len(start)
    BY <1>5, <1>8
  <2>. QED  BY <1>9, <1>10, <2>1
<1>13. IsInside(start \o Slash, W)
  <2>1. Len(W) < Len(start \o Slash)
    BY <1>5, <1>8, <1>10
  <2>. QED  BY <1>2, <1>10, <1>11, <1>12, <2>1, IsInsideIs
<1>14. start # <<".">>
  <2>1. 1 \in 1..Len(W) /\ start[1] = W[1]
    BY <1>5, <1>9
  <2>. QED  BY <1>2, <2>1
<1>. QED  BY <1>7, <1>13, <1>14 DEF start, W

\* What is searched for is found as itself, and not through a link.
LEMMA WhatIsFound ==
  ASSUME files \in DirectoryTrees, NEW pattern \in Patterns, IsKnown(pattern.project),
         NEW f \in DOMAIN files, IsFound(f, StartDir(pattern), pattern.is_recursive),
         NEW g, g = StartDir(pattern) \o Slash \o SubSeq(f, Len(InFront(StartDir(pattern))) + 1, Len(f))
  PROVE  FoundFor(g, pattern.project)
<1>. DEFINE start == StartDir(pattern)
            h == InFront(start)
            p == pattern.project
<1>1. start \in Seq(PathParts)
  BY StartOfOurs, StartOfOther DEF IsKnown
<1>2. f \in Seq(PathParts) /\ f # <<>> /\ f[1] # "." /\ f[1] # "/" /\ f[Len(f)] # "/"
  BY FilesAre
<1>3. /\ BeginsWith(f, h)
      /\ \A i \in SlashPositions(f) : i > Len(h) => ~Skipped(SubSeq(f, 1, i - 1))
  BY DEF IsFound
<1>4. Resolved(f) = f /\ Resolved(<<".">> \o Slash \o f) = f
  BY <1>2, ResolvedIs
<1>5. h \in Seq(PathParts)
  BY <1>1, SlashAdded, EmptySeq DEF InFront
<1>6. Len(h) <= Len(f) /\ \A i \in 1..Len(h) : f[i] = h[i]
  BY <1>2, <1>3, <1>5, BeginsWithIs
<1>7. ASSUME NEW link \in Links, IsInside(f, link)
      PROVE  Len(link) + 1 <= Len(h)
  <2>1. link \in Seq(PathParts) /\ link \in Links
    BY BuildFilesAssumption
  <2>2. /\ Len(link) < Len(f) /\ f[Len(link) + 1] = "/" /\ \A i \in 1..Len(link) : f[i] = link[i]
        /\ Len(link) \in Nat /\ Len(h) \in Nat /\ Len(f) \in Nat
    BY <1>2, <1>5, <1>7, <2>1, IsInsideIs
  <2>3. Len(link) + 1 \in SlashPositions(f)
    BY <1>2, <2>2 DEF SlashPositions
  <2>4. SubSeq(f, 1, (Len(link) + 1) - 1) = link
    <3>1. /\ SubSeq(f, 1, Len(link)) \in Seq(PathParts) /\ Len(SubSeq(f, 1, Len(link))) = Len(link)
          /\ \A i \in 1..Len(link) : SubSeq(f, 1, Len(link))[i] = f[i]
      BY <1>2, <2>2, BeginningIs
    <3>2. SubSeq(f, 1, Len(link)) = link
      BY <2>1, <2>2, <3>1, SeqEqual
    <3>3. (Len(link) + 1) - 1 = Len(link)
      BY <2>2
    <3>. QED  BY <3>2, <3>3
  <2>5. Skipped(link)
    BY <2>1 DEF Skipped
  <2>6. ~((Len(link) + 1) > Len(h))
    BY <1>3, <2>3, <2>4, <2>5
  <2>. QED  BY <2>2, <2>6
<1>8. ASSUME p = Ours, ProjectsAreApart  PROVE ~IsBehindLink(f)
  <2>1. SUFFICES ASSUME NEW q \in DOMAIN Workspace, IsInside(f, Workspace[q])  PROVE FALSE
    BY DEF IsBehindLink
  <2>2. PICK link \in Links : /\ IsInside(Workspace[q] \o Slash, link)
                              /\ ~IsInside(pattern.path \o Slash, link)
    BY <1>8 DEF ProjectsAreApart
  <2>3. link \in Seq(PathParts) /\ Workspace[q] \in Seq(PathParts)
    BY BuildFilesAssumption, WorkspaceIs
  <2>4. IsInside(f, link)
    BY <1>2, <2>1, <2>2, <2>3, InsideOf
  <2>5. Len(link) + 1 <= Len(h)
    BY <1>7, <2>4
  <2>6. start # <<".">> /\ h = start \o Slash
    BY <2>3, <2>5, EmptySeq DEF InFront
  <2>7. IsInside(h, link)
    <3>1. /\ Len(link) < Len(f) /\ f[Len(link) + 1] = "/" /\ \A i \in 1..Len(link) : f[i] = link[i]
          /\ Len(link) \in Nat /\ Len(h) \in Nat
      BY <1>2, <1>5, <2>3, <2>4, IsInsideIs
    <3>2. Len(link) + 1 \in 1..Len(h) /\ \A i \in 1..Len(link) : i \in 1..Len(h)
      BY <2>5, <3>1
    <3>3. Len(link) < Len(h) /\ h[Len(link) + 1] = "/" /\ \A i \in 1..Len(link) : h[i] = link[i]
      BY <1>6, <2>5, <3>1, <3>2
    <3>. QED  BY <1>5, <2>3, <3>3, IsInsideIs
  <2>. QED  BY <1>8, <2>2, <2>3, <2>6, <2>7, StartOfOurs
<1>9. CASE start = <<".">>
  <2>1. h = <<>> /\ Len(h) = 0
    BY <1>9, EmptySeq DEF InFront
  <2>2. SubSeq(f, Len(h) + 1, Len(f)) = f
    BY <1>2, <2>1
  <2>3. g = <<".">> \o Slash \o f
    BY <1>9, <2>2
  <2>4. p = Ours
    BY <1>9, StartOfOther DEF IsKnown
  <2>. QED  BY <1>4, <1>8, <2>3, <2>4 DEF FoundFor
<1>10. CASE start # <<".">>
  <2>1. /\ h = start \o Slash /\ Len(h) = Len(start) + 1 /\ h[Len(start) + 1] = "/" /\ Len(start) \in Nat
        /\ Len(f) \in Nat
    BY <1>1, <1>2, <1>10, SlashAdded DEF InFront
  <2>2. g = f
    <3>1. g = h \o SubSeq(f, Len(h) + 1, Len(f))
      BY <2>1
    <3>2. h = SubSeq(f, 1, Len(h))
      BY <1>3 DEF BeginsWith
    <3>. HIDE DEF h
    <3>3. SubSeq(f, 1, Len(h)) \o SubSeq(f, Len(h) + 1, Len(f)) = f
      <4>1. Len(h) \in Int /\ 0 <= Len(h)
        BY <1>5
      <4>. QED  BY <1>2, <1>6, <4>1, CutAnywhere
    <3>. QED  BY <3>1, <3>2, <3>3
  <2>3. CASE p = Ours
    <3>1. Len(f) # 1
      <4>1. SUFFICES ASSUME Len(f) = 1  PROVE FALSE
        OBVIOUS
      <4>2. Len(start) + 1 = 1 /\ 1 \in 1..Len(h)
        BY <1>6, <2>1, <4>1
      <4>. QED  BY <1>2, <1>6, <2>1, <4>2
    <3>. QED  BY <1>4, <1>8, <2>2, <2>3, <3>1 DEF FoundFor
  <2>4. CASE p \in DOMAIN Workspace
    <3>1. IsInside(h, Workspace[p]) /\ Workspace[p] \in Seq(PathParts) /\ p # Ours
      BY <2>1, <2>4, StartOfOther, WorkspaceIs
    <3>. DEFINE W == Workspace[p]
    <3>. HIDE DEF W, h
    <3>2. Len(W) < Len(h) /\ h[Len(W) + 1] = "/" /\ \A i \in 1..Len(W) : h[i] = W[i]
      BY <1>5, <3>1, IsInsideIs DEF W
    <3>3. Len(W) \in Nat /\ Len(h) \in Nat
      BY <1>5, <3>1 DEF W
    <3>4. Len(W) + 1 \in 1..Len(h) /\ \A i \in 1..Len(W) : i \in 1..Len(h)
      BY <3>2, <3>3
    <3>5. Len(W) < Len(f) /\ f[Len(W) + 1] = "/" /\ \A i \in 1..Len(W) : f[i] = W[i]
      BY <1>6, <2>1, <3>2, <3>3, <3>4
    <3>6. IsInside(f, W)
      BY <1>2, <3>1, <3>5, IsInsideIs DEF W
    <3>. QED  BY <1>4, <2>2, <2>4, <3>1, <3>6 DEF FoundFor, W
  <2>. QED  BY <2>3, <2>4 DEF IsKnown
<1>. QED  BY <1>9, <1>10

-----------------------------------------------------------------------------
(* The package of a file.                                                  *)
\* A pattern names a project, or none: then it is ours.
ProjectNames == {Ours} \cup STRING
PackageNames == [project : ProjectNames, path : Seq(PathParts)]
IsFileOf(package, file) ==
  /\ package \in PackageNames /\ IsKnown(package.project)
  /\ \E name \in BuildNames : Resolved(file) = In(PathOf(package), name)
  /\ (package.project = Ours /\ ProjectsAreApart) => ~IsBehindLink(Resolved(file))

LEMMA PathOfIs ==
  ASSUME NEW package \in PackageNames, IsKnown(package.project)
  PROVE  /\ PathOf(package) \in Seq(PathParts)
         /\ package.project \in DOMAIN Workspace =>
              PathOf(package) = Workspace[package.project] \/ IsInside(PathOf(package), Workspace[package.project])
<1>. DEFINE path == package.path
            p == package.project
<1>1. path \in Seq(PathParts)
  BY DEF PackageNames
<1>2. CASE p = Ours
  <2>1. p \notin DOMAIN Workspace
    BY <1>2, BuildFilesAssumption
  <2>. QED  BY <1>1, <1>2, <2>1 DEF PathOf
<1>3. CASE p \in DOMAIN Workspace
  <2>. DEFINE W == Workspace[p]
  <2>1. W \in Seq(PathParts) /\ p # Ours
    BY <1>3, WorkspaceIs
  <2>2. PathOf(package) = W \o (IF path = <<>> THEN <<>> ELSE Slash \o path)
    BY <2>1 DEF PathOf
  <2>3. CASE path = <<>>
    <3>1. PathOf(package) = W
      BY <2>1, <2>2, <2>3
    <3>. QED  BY <2>1, <3>1
  <2>4. CASE path # <<>>
    <3>. HIDE DEF W, path
    <3>1. PathOf(package) = W \o (Slash \o path)
      BY <2>2, <2>4
    <3>2. W \o (Slash \o path) = (W \o Slash) \o path
      BY <1>1, <2>1, PartsAre
    <3>3. IsInside((W \o Slash) \o path, W) /\ (W \o Slash) \o path \in Seq(PathParts)
      <4>. DEFINE v == W \o Slash
      <4>1. /\ v \in Seq(PathParts) /\ Len(v) = Len(W) + 1
            /\ \A i \in 1..Len(W) : v[i] = W[i]
            /\ v[Len(W) + 1] = "/"
        BY <2>1, SlashAdded
      <4>. HIDE DEF v
      <4>2. /\ v \o path \in Seq(PathParts) /\ Len(v \o path) = Len(v) + Len(path)
            /\ \A i \in 1..(Len(v) + Len(path)) : (v \o path)[i] = IF i <= Len(v) THEN v[i] ELSE path[i - Len(v)]
        BY <1>1, <4>1, ConcatProperties
      <4>3. Len(W) \in Nat /\ Len(path) \in Nat
        BY <1>1, <2>1
      <4>4. \A i \in 1..(Len(W) + 1) : i \in 1..(Len(v) + Len(path)) /\ i <= Len(v)
        BY <4>1, <4>3
      <4>5. \A i \in 1..(Len(W) + 1) : (v \o path)[i] = v[i]
        BY <4>2, <4>4
      <4>6. \A i \in 1..Len(W) : (v \o path)[i] = W[i]
        BY <4>1, <4>3, <4>5
      <4>7. Len(W) < Len(v \o path) /\ (v \o path)[Len(W) + 1] = "/"
        BY <4>1, <4>2, <4>3, <4>5
      <4>. QED  BY <2>1, <4>2, <4>6, <4>7, IsInsideIs DEF v
    <3>. QED  BY <3>1, <3>2, <3>3 DEF W
  <2>. QED  BY <2>3, <2>4
<1>. QED  BY <1>2, <1>3 DEF IsKnown

\* The path of a package says which of its project it is.
LEMMA PathOfSame ==
  ASSUME NEW P \in PackageNames, NEW Q \in PackageNames, IsKnown(P.project), P.project = Q.project,
         PathOf(P) = PathOf(Q)
  PROVE  P = Q
<1>1. P.path \in Seq(PathParts) /\ Q.path \in Seq(PathParts)
  BY DEF PackageNames
<1>2. P.path = Q.path
  <2>1. CASE P.project = Ours
    BY <2>1 DEF PathOf
  <2>2. CASE P.project \in DOMAIN Workspace
    <3>. DEFINE W == Workspace[P.project]
                x == IF P.path = <<>> THEN <<>> ELSE Slash \o P.path
                y == IF Q.path = <<>> THEN <<>> ELSE Slash \o Q.path
    <3>1. W \in Seq(PathParts) /\ P.project # Ours
      BY <2>2, WorkspaceIs
    <3>2. PathOf(P) = W \o x /\ PathOf(Q) = W \o y
      BY <3>1 DEF PathOf
    <3>3. /\ x \in Seq(PathParts) /\ y \in Seq(PathParts)
          /\ P.path # <<>> => x # <<>> /\ Tail(x) = P.path
          /\ Q.path # <<>> => y # <<>> /\ Tail(y) = Q.path
      BY <1>1, PartsAre, SlashInFront
    <3>4. x = y
      <4>. HIDE DEF W, x, y
      <4>. QED  BY <3>1, <3>2, <3>3, SameBehind
    <3>5. P.path = <<>> => x = <<>>
      OBVIOUS
    <3>6. Q.path = <<>> => y = <<>>
      OBVIOUS
    <3>. HIDE DEF x, y
    <3>. QED  BY <3>3, <3>4, <3>5, <3>6
  <2>. QED  BY <2>1, <2>2 DEF IsKnown
<1>. QED  BY <1>2 DEF PackageNames

LEMMA SameFileSamePackage ==
  ASSUME NEW P, NEW Q, NEW f, NEW g, IsFileOf(P, f), IsFileOf(Q, g), Resolved(f) = Resolved(g),
         P.project = Q.project \/ ProjectsAreApart
  PROVE  P = Q
<1>1. /\ P \in PackageNames /\ Q \in PackageNames /\ IsKnown(P.project) /\ IsKnown(Q.project)
      /\ PathOf(P) \in Seq(PathParts) /\ PathOf(Q) \in Seq(PathParts)
  BY PathOfIs DEF IsFileOf
<1>2. PICK m \in BuildNames : Resolved(f) = In(PathOf(P), m)
  BY DEF IsFileOf
<1>3. PICK n \in BuildNames : Resolved(f) = In(PathOf(Q), n)
  BY DEF IsFileOf
<1>4. m \in PathParts /\ n \in PathParts
  BY PartsAre DEF BuildNames
<1>5. PathOf(P) = PathOf(Q)
  BY <1>1, <1>2, <1>3, <1>4, InSame
<1>6. Resolved(f) \in Seq(PathParts)
  BY <1>1, <1>2, <1>4, InIs
<1>7. ASSUME NEW R \in {P, Q}, R.project \in DOMAIN Workspace
      PROVE  IsInside(Resolved(f), Workspace[R.project])
  <2>1. Workspace[R.project] \in Seq(PathParts) /\ Workspace[R.project] # <<>>
    BY <1>7, WorkspaceIs
  <2>2. /\ R \in PackageNames /\ IsKnown(R.project) /\ PathOf(R) \in Seq(PathParts)
        /\ \E k \in PathParts : Resolved(f) = In(PathOf(R), k)
    BY <1>1, <1>2, <1>3, <1>4
  <2>3. PathOf(R) = Workspace[R.project] \/ IsInside(PathOf(R), Workspace[R.project])
    BY <1>7, <2>2, PathOfIs
  <2>. QED  BY <2>1, <2>2, <2>3, InInside
<1>8. P.project = Q.project
  <2>1. SUFFICES ASSUME ProjectsAreApart  PROVE P.project = Q.project
    OBVIOUS
  <2>2. ASSUME NEW R \in {P, Q}, NEW S \in {P, Q}, R.project = Ours, S.project \in DOMAIN Workspace  PROVE FALSE
    <3>1. ~IsBehindLink(Resolved(f))
      BY <2>1, <2>2 DEF IsFileOf
    <3>. QED  BY <1>7, <2>2, <3>1 DEF IsBehindLink
  <2>3. CASE P.project \in DOMAIN Workspace /\ Q.project \in DOMAIN Workspace
    <3>. DEFINE V == Workspace[P.project]
                W == Workspace[Q.project]
    <3>1. V \in Seq(PathParts) /\ W \in Seq(PathParts) /\ IsInside(Resolved(f), V) /\ IsInside(Resolved(f), W)
      BY <1>7, <2>3, WorkspaceIs
    <3>2. CASE Len(V) <= Len(W)
      <4>1. IsInside(W \o Slash, V)
        <5>. HIDE DEF V, W
        <5>. QED  BY <1>6, <3>1, <3>2, InsideBoth
      <4>. QED  BY <2>1, <2>3, <4>1 DEF ProjectsAreApart
    <3>3. CASE Len(W) <= Len(V)
      <4>1. IsInside(V \o Slash, W)
        <5>. HIDE DEF V, W
        <5>. QED  BY <1>6, <3>1, <3>3, InsideBoth
      <4>. QED  BY <2>1, <2>3, <4>1 DEF ProjectsAreApart
    <3>4. Len(V) \in Nat /\ Len(W) \in Nat
      BY <3>1
    <3>5. Len(V) <= Len(W) \/ Len(W) <= Len(V)
      BY <3>4
    <3>. QED  BY <3>2, <3>3, <3>5
  <2>. QED  BY <1>1, <2>2, <2>3 DEF IsKnown
<1>. QED  BY <1>1, <1>5, <1>8, PathOfSame

LEMMA FoundIsFileOf ==
  ASSUME files \in DirectoryTrees, project \in ProjectNames, NEW g, FoundFor(g, project)
  PROVE  IsFileOf(PackageOf(g), g) /\ PackageOf(g).project = project
<1>1. PICK f \in DOMAIN files :
         /\ Resolved(g) = f
         /\ \/ project = Ours /\ (g = <<".">> \o Slash \o f \/ (g = f /\ Len(f) # 1))
            \/ project \in DOMAIN Workspace /\ g = f /\ IsInside(f, Workspace[project])
         /\ (project = Ours /\ ProjectsAreApart) => ~IsBehindLink(f)
  BY DEF FoundFor
<1>. DEFINE path == PackageOf(g).path
<1>2. PackageOf(g) = Package(project, path) /\ PackageOf(g).project = project
  BY DEF PackageOf, Package
<1>3. path \in Seq(PathParts) /\ PathOf(Package(project, path)) = DirOfFile(f)
  <2>1. CASE project = Ours
    <3>1. path = TargetPathFromBuildFile(g)
      BY <2>1 DEF PackageOf, Package
    <3>2. path = DirOfFile(f)
      BY <1>1, <2>1, <3>1, MainPackageOf, BuildFilesAssumption
    <3>3. DirOfFile(f) \in Seq(PathParts)
      BY FilesAre DEF DirOfFile
    <3>4. PathOf(Package(project, path)) = path
      BY <2>1 DEF PathOf, Package
    <3>. QED  BY <3>2, <3>3, <3>4
  <2>2. CASE project \in DOMAIN Workspace
    <3>1. project # Ours /\ g = f /\ IsInside(f, Workspace[project])
      BY <1>1, <2>2, BuildFilesAssumption
    <3>2. path = TargetPathFromBuildFile(SubSeq(f, Len(Workspace[project]) + 1, Len(f)))
      BY <3>1 DEF PackageOf, Package
    <3>. HIDE DEF path
    <3>. QED  BY <2>2, <3>1, <3>2, OtherPackageOf
  <2>. QED  BY <1>1, <2>1, <2>2
<1>4. PathOf(PackageOf(g)) = DirOfFile(f)
  BY <1>2, <1>3
<1>5. \E name \in BuildNames : f = In(DirOfFile(f), name)
  BY FilesAre DEF DirOfFile
<1>6. PackageOf(g) \in PackageNames
  BY <1>2, <1>3 DEF PackageNames, Package
<1>. QED  BY <1>1, <1>2, <1>4, <1>5, <1>6 DEF IsFileOf, IsKnown

LEMMA NothingInside ==
  ASSUME NEW w \in Seq(PathParts)
  PROVE  ~IsInside(<<>>, w)
<1>1. <<>> \in Seq(PathParts) /\ Len(<<>>) = 0 /\ ~(Len(w) < 0)
  BY EmptySeq
<1>. DEFINE e == <<>>
<1>2. e \in Seq(PathParts) /\ ~(Len(w) < Len(e))
  BY <1>1
<1>. HIDE DEF e
<1>3. ~IsInside(e, w)
  BY <1>2, IsInsideIs
<1>. QED  BY <1>3 DEF e

LEMMA RequestedIsFileOf ==
  ASSUME files \in DirectoryTrees, NEW package \in Requests, NEW name \in BuildNames,
         IsKnown(package.project), CanRead(BuildFileIn(package, name)) \/ package # Package(Ours, <<>>)
  PROVE  /\ BuildFileIn(package, name) = In(PathOf(package), name)
         /\ Kind(BuildFileIn(package, name)) # "none" => IsFileOf(package, BuildFileIn(package, name))
<1>. DEFINE path == PathOf(package)
            file == BuildFileIn(package, name)
<1>1. package \in PackageNames /\ (package.path = <<>> \/ IsDirectoryPath(package.path))
  BY BuildFilesAssumption DEF PackageNames, ProjectNames
<1>2. name \in PathParts /\ name # "/"
  BY PartsAre DEF BuildNames
<1>3. path \in Seq(PathParts)
  BY <1>1, PathOfIs
<1>4. path = <<>> => package = Package(Ours, <<>>)
  <2>1. SUFFICES ASSUME path = <<>>  PROVE package = Package(Ours, <<>>)
    OBVIOUS
  <2>2. package.project = Ours
    <3>1. SUFFICES ASSUME package.project \in DOMAIN Workspace  PROVE FALSE
      BY DEF IsKnown
    <3>2. Workspace[package.project] \in Seq(PathParts) /\ Workspace[package.project] # <<>>
      BY <3>1, WorkspaceIs
    <3>4. ~IsInside(path, Workspace[package.project])
      BY <2>1, <3>2, NothingInside
    <3>. QED  BY <1>1, <2>1, <3>1, <3>2, <3>4, PathOfIs
  <2>3. package.path = <<>>
    BY <2>1, <2>2 DEF PathOf
  <2>. QED  BY <1>1, <2>2, <2>3 DEF PackageNames, Package
<1>5. ASSUME path = <<>>  PROVE ~CanRead(file)
  <2>1. file = <<"/", name>>
    <3>1. WithoutEndingSlashes(<<>>) = <<>>
      BY EmptySeq, NoEndingSlash
    <3>2. file = <<>> \o Slash \o <<name>>
      BY <1>5, <3>1 DEF BuildFileIn, FilesystemPath
    <3>3. <<>> \o Slash \o <<name>> = <<"/", name>>
      BY <1>2, PartsAre, TwoParts DEF Slash
    <3>. QED  BY <3>2, <3>3
  <2>2. Resolved(file) = file
    <3>. DEFINE f == <<"/", name>>
    <3>1. f \in Seq(PathParts) /\ f # <<>> /\ f[1] # "."
      BY <1>2, PartsAre
    <3>. HIDE DEF f
    <3>2. Resolved(f) = f
      BY <3>1, ResolvedIs
    <3>. QED  BY <2>1, <3>2 DEF f
  <2>3. file \notin DOMAIN files
    BY <2>1, FilesAre
  <2>. QED  BY <2>2, <2>3 DEF CanRead, Kind
<1>6. path # <<>>
  BY <1>4, <1>5
<1>7. path[1] # "." /\ path[Len(path)] # "/"
  <2>1. CASE package.project = Ours
    <3>1. path = package.path
      BY <2>1 DEF PathOf
    <3>. QED  BY <1>1, <1>6, <3>1 DEF IsDirectoryPath, IsRelative
  <2>2. CASE package.project \in DOMAIN Workspace
    <3>. DEFINE W == Workspace[package.project]
    <3>1. /\ W \in Seq(PathParts) /\ W # <<>> /\ W[1] # "." /\ W[Len(W)] # "/" /\ package.project # Ours
      BY <2>2, WorkspaceIs
    <3>2. path = W \o (IF package.path = <<>> THEN <<>> ELSE Slash \o package.path)
      BY <3>1 DEF PathOf
    <3>3. CASE package.path = <<>>
      <4>1. path = W
        BY <3>1, <3>2, <3>3
      <4>. QED  BY <3>1, <4>1
    <3>4. CASE package.path # <<>>
      <4>. DEFINE x == Slash \o package.path
      <4>1. /\ package.path \in Seq(PathParts) /\ package.path[Len(package.path)] # "/"
            /\ Len(package.path) \in Nat /\ Len(package.path) >= 1
        BY <1>1, <3>4, EmptySeq DEF PackageNames, IsDirectoryPath
      <4>2. x \in Seq(PathParts) /\ Len(x) = Len(package.path) + 1 /\ x[Len(x)] # "/"
        <5>1. /\ x \in Seq(PathParts) /\ Len(x) = Len(Slash) + Len(package.path) /\ Len(Slash) = 1
              /\ \A i \in 1..(Len(Slash) + Len(package.path)) :
                   x[i] = IF i <= Len(Slash) THEN Slash[i] ELSE package.path[i - Len(Slash)]
          <6>1. Len(Slash) = 1
            BY DEF Slash
          <6>. QED  BY <4>1, <6>1, PartsAre, ConcatProperties
        <5>2. Len(x) \in 1..(Len(Slash) + Len(package.path)) /\ ~(Len(x) <= Len(Slash)) /\ Len(x) - Len(Slash) = Len(package.path)
          BY <4>1, <5>1
        <5>3. x[Len(x)] = package.path[Len(package.path)]
          BY <5>1, <5>2
        <5>4. Len(x) = Len(package.path) + 1
          BY <4>1, <5>1
        <5>. QED  BY <4>1, <5>1, <5>3, <5>4
      <4>3. path = W \o x
        BY <3>2, <3>4
      <4>. HIDE DEF x, W, path
      <4>4. /\ W \o x \in Seq(PathParts) /\ Len(W \o x) = Len(W) + Len(x)
            /\ \A i \in 1..(Len(W) + Len(x)) : (W \o x)[i] = IF i <= Len(W) THEN W[i] ELSE x[i - Len(W)]
        BY <3>1, <4>2, ConcatProperties
      <4>5. Len(W) \in Nat /\ Len(W) >= 1 /\ Len(x) \in Nat /\ Len(x) >= 1
        BY <3>1, <4>1, <4>2, EmptySeq
      <4>6. /\ 1 \in 1..(Len(W) + Len(x)) /\ 1 <= Len(W)
            /\ Len(path) = Len(W) + Len(x) /\ Len(path) \in 1..(Len(W) + Len(x))
            /\ ~(Len(path) <= Len(W)) /\ Len(path) - Len(W) = Len(x)
        BY <4>3, <4>4, <4>5
      <4>7. path[1] = W[1] /\ path[Len(path)] = x[Len(x)]
        BY <4>3, <4>4, <4>6
      <4>. QED  BY <3>1, <4>2, <4>7
    <3>. QED  BY <3>3, <3>4
  <2>. QED  BY <2>1, <2>2 DEF IsKnown
<1>8. file = In(path, name)
  <2>1. path \in Seq(PathParts)
    BY <1>3
  <2>2. WithoutEndingSlashes(path) = path
    BY <1>7, <2>1, NoEndingSlash
  <2>. QED  BY <1>6, <2>2 DEF BuildFileIn, FilesystemPath, In
<1>9. /\ In(path, name) \in Seq(PathParts) /\ Len(In(path, name)) = Len(path) + 2
      /\ \A i \in 1..Len(path) : In(path, name)[i] = path[i]
      /\ In(path, name)[Len(path) + 1] = "/"
      /\ In(path, name)[Len(In(path, name))] = name
  BY <1>2, <1>3, <1>6, InIs
<1>10. Resolved(file) = file
  <2>1. In(path, name) # <<>> /\ In(path, name)[1] = path[1]
    <3>1. 1 \in 1..Len(path) /\ Len(path) \in Nat
      BY <1>3, <1>6, EmptySeq
    <3>. QED  BY <1>9, <3>1, EmptySeq
  <2>. QED  BY <1>7, <1>8, <1>9, <2>1, ResolvedIs
<1>11. ASSUME package.project = Ours, ProjectsAreApart  PROVE ~IsBehindLink(file)
  <2>1. SUFFICES ASSUME NEW q \in DOMAIN Workspace, IsInside(file, Workspace[q])  PROVE FALSE
    BY DEF IsBehindLink
  <2>2. PICK link \in Links : /\ IsInside(Workspace[q] \o Slash, link)
                              /\ ~IsInside(package.path \o Slash, link)
    BY <1>11 DEF ProjectsAreApart
  <2>3. link \in Seq(PathParts) /\ Workspace[q] \in Seq(PathParts)
    BY BuildFilesAssumption, WorkspaceIs
  <2>4. IsInside(file, link)
    BY <1>8, <1>9, <2>1, <2>2, <2>3, InsideOf
  <2>5. path = package.path
    BY <1>11 DEF PathOf
  <2>. HIDE DEF path, file
  <2>6. /\ Len(link) < Len(file) /\ file[Len(link) + 1] = "/" /\ \A i \in 1..Len(link) : file[i] = link[i]
        /\ Len(link) \in Nat /\ Len(path) \in Nat /\ Len(file) = Len(path) + 2
    BY <1>3, <1>8, <1>9, <2>3, <2>4, IsInsideIs
  <2>7. Len(link) + 1 # Len(file)
    BY <1>2, <1>8, <1>9, <2>6
  <2>8. /\ path \o Slash \in Seq(PathParts) /\ Len(path \o Slash) = Len(path) + 1
        /\ \A i \in 1..Len(path) : (path \o Slash)[i] = path[i]
        /\ (path \o Slash)[Len(path) + 1] = "/"
    BY <1>3, SlashAdded
  <2>9. \A i \in 1..(Len(path) + 1) : (path \o Slash)[i] = file[i]
    <3>1. \A i \in 1..(Len(path) + 1) : i \in 1..Len(path) \/ i = Len(path) + 1
      BY <2>6
    <3>. QED  BY <1>8, <1>9, <2>8, <3>1
  <2>10. Len(link) + 1 \in 1..(Len(path) + 1) /\ \A i \in 1..Len(link) : i \in 1..(Len(path) + 1)
    BY <2>6, <2>7
  <2>11. /\ Len(link) < Len(path \o Slash) /\ (path \o Slash)[Len(link) + 1] = "/"
         /\ \A i \in 1..Len(link) : (path \o Slash)[i] = link[i]
    BY <2>6, <2>8, <2>9, <2>10
  <2>12. IsInside(path \o Slash, link)
    BY <2>3, <2>8, <2>11, IsInsideIs
  <2>. QED  BY <2>2, <2>5, <2>12
<1>12. IsFileOf(package, file)
  BY <1>1, <1>8, <1>10, <1>11 DEF IsFileOf
<1>. QED  BY <1>8, <1>12

LEMMA RequestedIsNotEmpty ==
  ASSUME NEW package \in Requests, NEW name \in BuildNames, IsKnown(package.project)
  PROVE  BuildFileIn(package, name) # <<>>
<1>1. PathOf(package) \in Seq(PathParts)
  BY BuildFilesAssumption, PathOfIs DEF PackageNames, ProjectNames
<1>2. WithoutEndingSlashes(PathOf(package)) \in Seq(PathParts)
  BY <1>1, WithoutEndingSlashesIs
<1>3. name \in PathParts
  BY PartsAre DEF BuildNames
<1>. DEFINE s == WithoutEndingSlashes(PathOf(package)) \o Slash
<1>4. s \in Seq(PathParts)
  BY <1>2, SlashAdded
<1>. HIDE DEF s
<1>5. Len(s \o <<name>>) = Len(s) + 1
  BY <1>3, <1>4
<1>6. s \o <<name>> # <<>>
  BY <1>4, <1>5, EmptySeq
<1>. QED  BY <1>6 DEF BuildFileIn, FilesystemPath, s

-----------------------------------------------------------------------------
(* The invariant.                                                          *)
IsAccountedFor(f) ==
  \/ \E k \in package_to_parsed : k.file = f
  \/ \E s \in seen_before : s[1] = f
  \/ f \in unreadable
RecordsInv ==
  /\ \A k \in package_to_parsed :
       k = [package |-> k.package, file |-> k.file] /\ IsFileOf(k.package, k.file)
  /\ \A k, l \in package_to_parsed : k.package = l.package => k = l
  /\ \A s \in seen_before :
       /\ Kind(s[1]) = "file"
       /\ \E k \in package_to_parsed : k.file = s[2] /\ AreSiblings(Resolved(s[1]), Resolved(s[2]))
FillInv ==
  /\ files \in DirectoryTrees /\ patterns \in Seq(Patterns) /\ project \in ProjectNames
  /\ \A g \in build_files : FoundFor(g, project)
  /\ \A f \in unique_files : IsAccountedFor(f)
  /\ RecordsInv
  /\ PackagesAreFound

LEMMA InvMeans == FillInv => PackagesAreWhatIsMeant
<1>. SUFFICES ASSUME FillInv  PROVE PackagesAreWhatIsMeant
  OBVIOUS
<1>1. PackagesAreDirectories
  BY DEF FillInv, RecordsInv, IsFileOf, PackagesAreDirectories
<1>2. EveryFileIsAccountedFor
  <2>1. ASSUME NEW k \in package_to_parsed, NEW l \in package_to_parsed,
               Resolved(k.file) = Resolved(l.file), k.package.project = l.package.project \/ ProjectsAreApart
        PROVE  k = l
    <3>1. k.package = l.package
      BY <2>1, SameFileSamePackage DEF FillInv, RecordsInv
    <3>. QED  BY <3>1 DEF FillInv, RecordsInv
  <2>. QED  BY <2>1 DEF FillInv, RecordsInv, IsAccountedFor, EveryFileIsAccountedFor
<1>. QED  BY <1>1, <1>2 DEF FillInv, PackagesAreWhatIsMeant

\* AddBuildFile() leaves a file accounted for, and all others.
LEMMA AddingKeeps ==
  ASSUME FillInv, NEW package, NEW file, AddBuildFile(package, file), UNCHANGED files,
         Kind(file) # "none" => IsFileOf(package, file)
  PROVE  /\ RecordsInv' /\ IsAccountedFor(file)'
         /\ \A f : IsAccountedFor(f) => IsAccountedFor(f)'
<1>0. \A f : (Kind(f))' = Kind(f) /\ Resolved(f) = Resolved(f)'
  BY DEF Kind
<1>1. CASE Kind(file) # "file"
  <2>1. unreadable' = unreadable \cup {file} /\ UNCHANGED <<package_to_parsed, seen_before>>
    BY <1>1 DEF AddBuildFile
  <2>2. RecordsInv'
    BY <1>0, <2>1 DEF FillInv, RecordsInv, IsFileOf
  <2>. QED  BY <2>1, <2>2 DEF IsAccountedFor
<1>2. CASE Kind(file) = "file"
  <2>. DEFINE known == {k \in package_to_parsed : k.package = package}
  <2>0. AddBuildFileContent(package, file) /\ UNCHANGED unreadable /\ IsFileOf(package, file)
    BY <1>2 DEF AddBuildFile
  <2>1. CASE known # {}
    <3>1. seen_before' = seen_before \cup {<<file, k.file>> : k \in known} /\ UNCHANGED package_to_parsed
      BY <2>0, <2>1 DEF AddBuildFileContent
    <3>2. ASSUME NEW k \in known
          PROVE  k \in package_to_parsed /\ AreSiblings(Resolved(file), Resolved(k.file))
      <4>1. k \in package_to_parsed /\ IsFileOf(package, k.file)
        BY <3>2 DEF FillInv, RecordsInv
      <4>2. PICK m \in BuildNames : Resolved(file) = In(PathOf(package), m)
        BY <2>0 DEF IsFileOf
      <4>3. PICK n \in BuildNames : Resolved(k.file) = In(PathOf(package), n)
        BY <4>1 DEF IsFileOf
      <4>4. m \in PathParts /\ n \in PathParts /\ PathOf(package) \in Seq(PathParts)
        BY <2>0, PartsAre, PathOfIs DEF BuildNames, IsFileOf
      <4>. QED  BY <4>1, <4>2, <4>3, <4>4, InSiblings
    <3>3. ASSUME NEW s \in seen_before'
          PROVE  /\ Kind(s[1]) = "file"
                 /\ \E k \in package_to_parsed : k.file = s[2] /\ AreSiblings(Resolved(s[1]), Resolved(s[2]))
      <4>1. CASE s \in seen_before
        BY <4>1 DEF FillInv, RecordsInv
      <4>2. CASE s \notin seen_before
        <5>1. PICK k \in known : s = <<file, k.file>>
          BY <3>1, <4>2
        <5>2. s[1] = file /\ s[2] = k.file
          BY <5>1
        <5>. QED  BY <1>2, <3>2, <5>2
      <4>. QED  BY <4>1, <4>2
    <3>4. RecordsInv'
      BY <1>0, <3>1, <3>3 DEF FillInv, RecordsInv, IsFileOf
    <3>5. IsAccountedFor(file)'
      <4>1. PICK k \in known : TRUE
        BY <2>1
      <4>2. <<file, k.file>> \in seen_before' /\ <<file, k.file>>[1] = file
        BY <3>1, <4>1
      <4>. QED  BY <4>2 DEF IsAccountedFor
    <3>. QED  BY <2>0, <3>1, <3>4, <3>5 DEF IsAccountedFor
  <2>2. CASE known = {}
    <3>. DEFINE new == [package |-> package, file |-> file]
    <3>1. package_to_parsed' = package_to_parsed \cup {new} /\ UNCHANGED seen_before
      BY <2>0, <2>2 DEF AddBuildFileContent
    <3>2. new.package = package /\ new.file = file /\ new = [package |-> new.package, file |-> new.file]
      OBVIOUS
    <3>. HIDE DEF new
    <3>3. RecordsInv'
      <4>1. \A k \in package_to_parsed' :
              k = [package |-> k.package, file |-> k.file] /\ IsFileOf(k.package, k.file)'
        BY <2>0, <3>1, <3>2 DEF FillInv, RecordsInv, IsFileOf
      <4>2. \A k, l \in package_to_parsed' : k.package = l.package => k = l
        BY <2>2, <3>1, <3>2 DEF FillInv, RecordsInv
      <4>3. \A s \in seen_before' :
              /\ (Kind(s[1]))' = "file"
              /\ \E k \in package_to_parsed' : k.file = s[2] /\ AreSiblings(Resolved(s[1]), Resolved(s[2]))
        BY <1>0, <3>1 DEF FillInv, RecordsInv
      <4>. QED  BY <4>1, <4>2, <4>3 DEF RecordsInv
    <3>4. IsAccountedFor(file)'
      BY <3>1, <3>2 DEF IsAccountedFor
    <3>. QED  BY <2>0, <3>1, <3>3, <3>4 DEF IsAccountedFor
  <2>. QED  BY <2>1, <2>2
<1>. QED  BY <1>1, <1>2

LEMMA InitFillInv == FillInit => FillInv
<1>. SUFFICES ASSUME FillInit  PROVE FillInv
  OBVIOUS
<1>1. files \in DirectoryTrees /\ patterns \in Seq(Patterns)
  BY BuildFilesAssumption DEF FillInit
<1>2. project \in ProjectNames
  BY DEF FillInit, ProjectNames
<1>3. build_files = {} /\ unique_files = {} /\ package_to_parsed = {} /\ seen_before = {} /\ error_packages = {}
  BY DEF FillInit
<1>. QED  BY <1>1, <1>2, <1>3 DEF FillInv, RecordsInv, PackagesAreFound

LEMMA NextFillInv == FillInv /\ [FillNext]_fillVars => FillInv'
<1>. SUFFICES ASSUME FillInv, [FillNext]_fillVars  PROVE FillInv'
  OBVIOUS
<1>1. CASE FillFromPattern
  <2>. DEFINE pattern == Head(patterns)
  <2>1. /\ pattern \in Patterns /\ patterns' \in Seq(Patterns) /\ project' = pattern.project
        /\ build_files' = CollectBuildFiles(pattern)
        /\ UNCHANGED <<files, unique_files, package_to_parsed, unreadable, seen_before, error_packages>>
    BY <1>1 DEF FillFromPattern, FillInv
  <2>2. project' \in ProjectNames
    BY <2>1, BuildFilesAssumption DEF ProjectNames
  <2>. HIDE DEF pattern
  <2>3. ASSUME NEW g \in CollectBuildFiles(pattern)  PROVE FoundFor(g, pattern.project)
    <3>1. IsKnown(pattern.project)
      BY <2>3 DEF CollectBuildFiles, IsKnown
    <3>2. PICK f \in DOMAIN files :
             /\ IsFound(f, StartDir(pattern), pattern.is_recursive)
             /\ g = StartDir(pattern) \o Slash \o SubSeq(f, Len(InFront(StartDir(pattern))) + 1, Len(f))
      BY <2>3 DEF CollectBuildFiles
    <3>. QED  BY <2>1, <3>1, <3>2, WhatIsFound DEF FillInv
  <2>4. \A g \in build_files' : FoundFor(g, project)'
    BY <2>1, <2>3 DEF FoundFor
  <2>5. RecordsInv'
    BY <2>1 DEF FillInv, RecordsInv, Kind, IsFileOf
  <2>6. PackagesAreFound'
    BY <2>1 DEF FillInv, PackagesAreFound, Kind
  <2>7. \A f \in unique_files' : IsAccountedFor(f)'
    BY <2>1 DEF FillInv, IsAccountedFor
  <2>. QED  BY <2>1, <2>2, <2>4, <2>5, <2>6, <2>7 DEF FillInv
<1>2. CASE FillFromFile
  <2>1. PICK file \in build_files :
          /\ build_files' = build_files \ {file} /\ unique_files' = unique_files \cup {file}
          /\ IF file \in unique_files THEN UNCHANGED <<package_to_parsed, unreadable, seen_before>>
             ELSE AddBuildFile(PackageOf(file), file)
          /\ UNCHANGED <<files, patterns, project, error_packages>>
    BY <1>2 DEF FillFromFile
  <2>2. RecordsInv' /\ IsAccountedFor(file)' /\ \A f : IsAccountedFor(f) => IsAccountedFor(f)'
    <3>1. CASE file \in unique_files
      BY <2>1, <3>1 DEF FillInv, RecordsInv, Kind, IsFileOf, IsAccountedFor
    <3>2. CASE file \notin unique_files
      <4>1. AddBuildFile(PackageOf(file), file) /\ UNCHANGED files
        BY <2>1, <3>2
      <4>2. IsFileOf(PackageOf(file), file)
        BY <2>1, FoundIsFileOf DEF FillInv
      <4>. QED  BY <4>1, <4>2, AddingKeeps
    <3>. QED  BY <3>1, <3>2
  <2>3. \A f \in unique_files' : IsAccountedFor(f)'
    BY <2>1, <2>2 DEF FillInv
  <2>4. \A g \in build_files' : FoundFor(g, project)'
    BY <2>1 DEF FillInv, FoundFor
  <2>5. PackagesAreFound'
    BY <2>1 DEF FillInv, PackagesAreFound, Kind
  <2>. QED  BY <2>1, <2>2, <2>3, <2>4, <2>5 DEF FillInv
<1>3. CASE FindMissingPackage
  <2>. DEFINE path(package) == PathForPackage(package)
  <2>1. PICK package \in Requests :
          /\ IF path(package) = <<>>
             THEN error_packages' = error_packages \cup {package} /\ UNCHANGED <<package_to_parsed, unreadable, seen_before>>
             ELSE AddBuildFile(package, path(package)) /\ UNCHANGED error_packages
          /\ UNCHANGED <<files, patterns, project, build_files, unique_files>>
    BY <1>3 DEF FindMissingPackage
  <2>2. /\ files' \in DirectoryTrees /\ patterns' \in Seq(Patterns) /\ project' \in ProjectNames
        /\ \A g \in build_files' : FoundFor(g, project)'
    BY <2>1 DEF FillInv, FoundFor
  <2>3. CASE PathForPackage(package) = <<>>
    <3>1. RecordsInv' /\ \A f \in unique_files' : IsAccountedFor(f)'
      BY <2>1, <2>3 DEF FillInv, RecordsInv, Kind, IsFileOf, IsAccountedFor
    <3>2. \/ package = Package(Ours, <<>>)
          \/ package.project \notin DOMAIN Workspace \cup {Ours}
          \/ \A name \in BuildNames : Kind(In(PathOf(package), name)) # "file"
      <4>1. SUFFICES ASSUME package # Package(Ours, <<>>), IsKnown(package.project), NEW name \in BuildNames
                     PROVE  Kind(In(PathOf(package), name)) # "file"
        BY DEF IsKnown
      <4>2. BuildFileIn(package, name) = In(PathOf(package), name)
        BY <4>1, RequestedIsFileOf DEF FillInv
      <4>3. ~CanRead(BuildFileIn(package, name))
        <5>1. \A n \in BuildNames : BuildFileIn(package, n) # <<>>
          BY <4>1, RequestedIsNotEmpty DEF FillInv
        <5>2. Build \in BuildNames /\ BuildBazel \in BuildNames /\ name \in {Build, BuildBazel}
          BY DEF BuildNames
        <5>. QED  BY <2>3, <4>1, <5>1, <5>2 DEF PathForPackage, IsKnown
      <4>. QED  BY <4>2, <4>3 DEF CanRead
    <3>3. PackagesAreFound'
      BY <2>1, <2>3, <3>2 DEF FillInv, PackagesAreFound, Kind
    <3>. QED  BY <2>2, <3>1, <3>3 DEF FillInv
  <2>4. CASE PathForPackage(package) # <<>>
    <3>. DEFINE file == PathForPackage(package)
    <3>1. AddBuildFile(package, file) /\ UNCHANGED <<files, error_packages, unique_files>>
      BY <2>1, <2>4
    <3>2. IsKnown(package.project) /\ \E name \in BuildNames : file = BuildFileIn(package, name) /\ CanRead(file)
      BY <2>4 DEF PathForPackage, IsKnown, BuildNames
    <3>3. IsFileOf(package, file)
      <4>1. PICK name \in BuildNames : file = BuildFileIn(package, name) /\ CanRead(file)
        BY <3>2
      <4>2. Kind(file) # "none"
        BY <4>1 DEF CanRead
      <4>. HIDE DEF file
      <4>. QED  BY <3>2, <4>1, <4>2, RequestedIsFileOf DEF FillInv
    <3>. HIDE DEF file
    <3>4. RecordsInv' /\ \A f : IsAccountedFor(f) => IsAccountedFor(f)'
      BY <3>1, <3>3, AddingKeeps
    <3>5. PackagesAreFound'
      BY <3>1 DEF FillInv, PackagesAreFound, Kind
    <3>. QED  BY <2>2, <3>1, <3>4, <3>5 DEF FillInv
  <2>. QED  BY <2>3, <2>4
<1>4. CASE UNCHANGED fillVars
  BY <1>4 DEF FillInv, fillVars, RecordsInv, Kind, IsFileOf, IsAccountedFor, FoundFor, PackagesAreFound
<1>. QED  BY <1>1, <1>2, <1>3, <1>4 DEF FillNext

(* Whatever patterns and dependencies ask for, in file systems and         *)
(* workspaces of any size and in every order of readdir(): each file that  *)
(* is found is the one of its package, or said not to be (FillFromPattern, *)
(* AddBuildFileContent); its package is the directory it is in             *)
(* (TargetPathFromBuildFile); and a dependency finds the package it names  *)
(* (PathForPackage).                                                       *)
THEOREM PackagesMeant == FillSpec => []PackagesAreWhatIsMeant
<1>1. FillSpec => []FillInv
  BY InitFillInv, NextFillInv, PTL DEF FillSpec
<1>. QED  BY <1>1, InvMeans, PTL
=============================================================================
