------------------------------- MODULE Workspace -------------------------------
(***************************************************************************)
(* Where the external projects are (bant/workspace.cc): the workspace      *)
(* files declare projects, whose directories bazel names in ways that      *)
(* differ from version to version; directories nobody declared are added.  *)
(* Names are sequences: of words, which are only compared, and of the      *)
(* characters "~", "+" and "@".                                            *)
(***************************************************************************)
EXTENDS Naturals, Sequences, FiniteSets

CONSTANTS
  Checkouts,     \* records [files, dirs], see below
  CharRank       \* of words and characters, as std::string orders them

VARIABLES
  ws_files,          \* records [exists, rules] of the four files
  dirs,              \* what is in the external directory: names to "directory", "closed" or "file"
  ws,                \* the file that is read, 5 behind the last
  rules,             \* rules of it not looked at yet
  project_location,  \* VersionedProject -> directory
  missing,           \* projects complained about: old and new style
  workspace_found,
  project_dirs       \* result of Glob() not looked at yet

workspaceVars == <<ws_files, dirs, ws, rules, project_location, missing, workspace_found, project_dirs>>

VersionedProject(project, version) == [project |-> project, version |-> version]
Has(s, c) == \E i \in DOMAIN s : s[i] = c
First(s, c) == CHOOSE i \in DOMAIN s : s[i] = c /\ \A j \in 1..(i - 1) : s[j] # c

(* Names do not begin with "@", which FindEntryByProject() takes off; that *)
(* of a project has no "~" and no "+" at its end, where bazel marks        *)
(* versions.                                                               *)
DirNames == Seq(DOMAIN CharRank)
MayBeName(n) == n \in DirNames /\ (n # <<>> => n[1] # "@")
IsProjectName(n) == MayBeName(n) /\ n # <<>> /\ ~Has(n, "~") /\ n[Len(n)] # "+"
Declarations ==
  {r \in [name : DirNames, version : DirNames, repo_name : DirNames] : IsProjectName(r.name) /\ MayBeName(r.repo_name)}
ASSUME CheckoutsAssumption ==
  /\ CharRank \in [DOMAIN CharRank -> Nat] /\ \A c, d \in DOMAIN CharRank : CharRank[c] = CharRank[d] => c = d
  /\ \A w \in Checkouts :
       /\ \A i \in 1..4 : w.files[i].rules \in Seq(Declarations)
       /\ IsFiniteSet(DOMAIN w.dirs) /\ \A d \in DOMAIN w.dirs : MayBeName(d)

(* std::string and std::pair are ordered from the front. *)
LessName(s, t) ==
  \E i \in 1..Len(t) : /\ \A j \in 1..(i - 1) : j <= Len(s) /\ s[j] = t[j]
                       /\ i > Len(s) \/ CharRank[s[i]] < CharRank[t[i]]
LessProject(p, q) ==
  LessName(p.project, q.project) \/ (p.project = q.project /\ LessName(p.version, q.version))
LeastName(names) == CHOOSE n \in names : \A m \in names : ~LessName(m, n)

-----------------------------------------------------------------------------
NotAProject == {}
(* What is in front of the first "~" and behind it; bazel 8 appends "+".   *)
ParseFromDir(dir) ==
  IF dir = <<>> THEN NotAProject
  ELSE IF ~Has(dir, "~")
  THEN {VersionedProject(IF dir[Len(dir)] = "+" THEN SubSeq(dir, 1, Len(dir) - 1) ELSE dir, <<>>)}
  ELSE IF dir[1] = "~" THEN NotAProject
  ELSE {VersionedProject(SubSeq(dir, 1, First(dir, "~") - 1), SubSeq(dir, First(dir, "~") + 1, Len(dir)))}

NotFound == {}
(* The first version of the project, lower_bound() of an empty version. *)
FindEntryByProject(typed) ==
  LET name == IF typed # <<>> /\ typed[1] = "@" THEN Tail(typed) ELSE typed
      query == VersionedProject(name, <<>>)
      behind == {p \in DOMAIN project_location : ~LessProject(p, query)}
      found == CHOOSE p \in behind : \A r \in behind : ~LessProject(r, p)
  IN IF typed = <<>> \/ behind = {} THEN NotFound
     ELSE IF found.project # name THEN NotFound ELSE {found}
FindPathByProject(typed) == {project_location[p] : p \in FindEntryByProject(typed)}

Store(location, p, dir) == [q \in DOMAIN location \cup {p} |-> IF q = p THEN dir ELSE location[q]]

-----------------------------------------------------------------------------
Usable(dir) == dir \in DOMAIN dirs /\ dirs[dir] = "directory"
search_dirs(rule) ==
  (IF rule.version = <<>> THEN <<>> ELSE <<rule.name \o <<"~">> \o rule.version>>)
  \o <<rule.name, rule.name \o <<"~", "override">>, rule.name \o <<"+">>>>
(* Or any version of it: the first that Glob() returns. *)
maybe_match(rule) ==
  LET names == {d \in DOMAIN dirs : /\ Len(d) > Len(rule.name)
                                    /\ SubSeq(d, 1, Len(rule.name) + 1) = rule.name \o <<"~">>}
  IN IF names # {} /\ Usable(LeastName(names)) THEN {LeastName(names)} ELSE {}
ProjectDir(rule) ==
  LET tried == search_dirs(rule)
      usable == {i \in DOMAIN tried : Usable(tried[i])}
  IN IF usable = {} THEN maybe_match(rule)
     ELSE {tried[CHOOSE i \in usable : \A j \in usable : i <= j]}

LoadInit ==
  /\ \E w \in Checkouts : ws_files = w.files /\ dirs = w.dirs
  /\ ws = 0 /\ rules = <<>> /\ project_location = <<>>
  /\ missing = [style \in {"old", "new"} |-> {}]
  /\ workspace_found = FALSE /\ project_dirs = {}

(* WORKSPACE, WORKSPACE.bazel, WORKSPACE.bzlmod, MODULE.bazel. *)
OpenFile ==
  /\ rules = <<>> /\ ws < 4
  /\ ws' = ws + 1
  /\ rules' = ws_files[ws + 1].rules
  /\ workspace_found' = (workspace_found \/ ws_files[ws + 1].exists)
  /\ UNCHANGED <<ws_files, dirs, project_location, missing, project_dirs>>

Declare ==
  /\ rules # <<>>
  /\ rules' = Tail(rules)
  /\ LET rule == Head(rules)
         found == ProjectDir(rule)
         names == {rule.name} \cup (IF rule.repo_name = <<>> THEN {} ELSE {rule.repo_name})
         keys == {VersionedProject(n, rule.version) : n \in names}
         style == IF ws <= 2 THEN "old" ELSE "new"
     IN IF found = {}
        THEN /\ missing' = [missing EXCEPT ![style] = @ \cup {rule.name}]
             /\ UNCHANGED project_location
        ELSE /\ project_location' = [q \in DOMAIN project_location \cup keys |->
                   IF q \in keys THEN CHOOSE d \in found : TRUE ELSE project_location[q]]
             /\ UNCHANGED missing
  /\ UNCHANGED <<ws_files, dirs, ws, workspace_found, project_dirs>>

(* The caller goes on only with a workspace file. *)
StartAugment ==
  /\ rules = <<>> /\ ws = 4 /\ workspace_found
  /\ ws' = 5
  /\ project_dirs' = DOMAIN dirs
  /\ UNCHANGED <<ws_files, dirs, rules, project_location, missing, workspace_found>>

\* Mutant: a directory is added whether the project is known or not.
AugmentAnyway ==
  /\ project_dirs # {}
  /\ LET dir == LeastName(project_dirs) IN
       /\ project_dirs' = project_dirs \ {dir}
       /\ IF dirs[dir] = "file" \/ ParseFromDir(dir) = NotAProject THEN UNCHANGED project_location
          ELSE project_location' = Store(project_location, CHOOSE p \in ParseFromDir(dir) : TRUE, dir)
  /\ UNCHANGED <<ws_files, dirs, ws, rules, missing, workspace_found>>
Augment ==
  /\ project_dirs # {}
  /\ LET dir == LeastName(project_dirs) IN
       /\ project_dirs' = project_dirs \ {dir}
       /\ IF dirs[dir] = "file" \/ \A p \in ParseFromDir(dir) : FindPathByProject(p.project) # NotFound
          THEN UNCHANGED project_location
          ELSE project_location' = Store(project_location, CHOOSE p \in ParseFromDir(dir) : TRUE, dir)
  /\ UNCHANGED <<ws_files, dirs, ws, rules, missing, workspace_found>>

LoadNext == OpenFile \/ Declare \/ StartAugment \/ Augment
LoadSpec == LoadInit /\ [][LoadNext]_workspaceVars

-----------------------------------------------------------------------------
Loaded == ws = 5 /\ project_dirs = {}
Rules == UNION {{ws_files[i].rules[j] : j \in DOMAIN ws_files[i].rules} : i \in 1..4}

(* Whichever version of bazel made the directories, a project that is      *)
(* there is found, with and without "@", in one of its own directories     *)
(* unless the workspace gives its name to another project.                 *)
Bare(dir) == IF dir # <<>> /\ dir[Len(dir)] = "+" /\ ~Has(dir, "~") THEN SubSeq(dir, 1, Len(dir) - 1)
             ELSE IF Has(dir, "~") THEN SubSeq(dir, 1, First(dir, "~") - 1) ELSE dir
ProjectsAreFound ==
  Loaded => \A dir \in {d \in DOMAIN dirs : dirs[d] = "directory" /\ Bare(d) # <<>>} :
    /\ FindPathByProject(Bare(dir)) # NotFound
    /\ FindPathByProject(<<"@">> \o Bare(dir)) = FindPathByProject(Bare(dir))
    /\ \A path \in FindPathByProject(Bare(dir)) :
         (~\E r \in Rules : r.repo_name = Bare(dir)) => Bare(path) = Bare(dir)

(* "Returns the first Version that matches project name": whatever else is *)
(* declared, and whatever else lies in the external directory, a declared  *)
(* name that leads to a project leads to the one of its declarations whose *)
(* version is the first of those that are there, in the order of texts,    *)
(* and to this very version if it has a directory.  So the version of a    *)
(* project that is declared once wins over all that happens to be there;   *)
(* of several declarations, one without a version comes before all others. *)
Exact(r) == r.name \o <<"~">> \o r.version
NamesOf(r) == {r.name} \cup (IF r.repo_name = <<>> THEN {} ELSE {r.repo_name})
Present(typed) == {r \in Rules : typed \in NamesOf(r) /\ ProjectDir(r) # {}}
Expected(r) == IF r.version # <<>> /\ Usable(Exact(r)) THEN {Exact(r)} ELSE ProjectDir(r)
DeclaredVersionsWin ==
  Loaded => \A r \in Rules : \A typed \in NamesOf(r) :
    Present(typed) # {} =>
      \E s \in Present(typed) : /\ FindPathByProject(typed) = Expected(s)
                                /\ \A t \in Present(typed) : ~LessName(t.version, s.version)

(* What a workspace promises: projects are found under all their names     *)
(* (FindEntryByProject), in the first of the versions declared             *)
(* (LoadWorkspaceFromFile, workspace.h:43).                                *)
ProjectsAreAsDeclared == ProjectsAreFound /\ DeclaredVersionsWin
=============================================================================
